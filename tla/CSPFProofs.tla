----------------------------- MODULE CSPFProofs ------------------------------
(***************************************************************************)
(* Proofs about CSPF, for every list of elements GoBGP may hand over and   *)
(* every request: the types, the pointers and the contents of the TED;     *)
(* that the search finds shortest paths and fails only for a reason; that  *)
(* its lists pass validation and visit the waypoints of the request.       *)
(*                                                                         *)
(* Each result has an inductive invariant of its own on top of Typed:      *)
(* Settled is Dijkstra's; WithinReach, DestinationIsOpen, PathLeadsBack    *)
(* and Justified join it in PInv; ListLeads is about the segments of the   *)
(* list, PrevIsBefore and WaypointsToured about the routers it visits;     *)
(* TEDMerged about what the TED holds.                                     *)
(***************************************************************************)
EXTENDS CSPF, LsTEDProofs

------------------------------------------------------------------------------
(* The inductive invariant *)

Running == pc \in {"select", "relax", "back"}

IdleIsFresh == pc = "idle" => dist = <<>> /\ section = 1

KnownHaveSIDs == Running => \A r \in DOMAIN dist : SegmentOf(r) # NoSegment

PathIsKnown == pc = "back" => path \in Seq(DOMAIN dist)

LinksOf(r) == Node(r).links
Degree(r) == Len(LinksOf(r))
HasArc(r, k) == goal.metric \in DOMAIN LinksOf(r)[k].metrics
EndOf(r, k) == RemoteOf(LinksOf(r)[k])
Length(r, k) == Cost(LinksOf(r)[k])

LinkIsRelaxed(r, k) ==
    /\ HasArc(r, k)
    /\ EndOf(r, k) \in DOMAIN dist
    /\ dist[EndOf(r, k)].cost <= dist[r].cost + Length(r, k)

(* r was reached over link k of p.                                         *)
ReachedOver(p, k, r) ==
    /\ HasArc(p, k)
    /\ EndOf(p, k) = r
    /\ dist[r].cost = dist[p].cost + Length(p, k)

Done(r) == dist[r].calculated
IsNearest(r) ==
    /\ r \in DOMAIN dist /\ ~Done(r)
    /\ \A q \in DOMAIN dist : ~Done(q) => dist[r].cost <= dist[q].cost

(* Dijkstra's invariant.                                                   *)
SourceIsZero == dist[src].cost = 0
DoneAreRelaxed ==
    \A r \in DOMAIN dist : Done(r) => \A k \in 1 .. Degree(r) : LinkIsRelaxed(r, k)
DoneAreNearer ==
    \A r, q \in DOMAIN dist : Done(r) /\ ~Done(q) => dist[r].cost <= dist[q].cost
ReachedFromDone ==
    \A r \in DOMAIN dist \ {src} :
        /\ dist[r].prev \in DOMAIN dist
        /\ Done(dist[r].prev) \/ (pc = "relax" /\ dist[r].prev = at)
        /\ \E k \in 1 .. Degree(dist[r].prev) : ReachedOver(dist[r].prev, k, r)
InProgress ==
    /\ pc = "relax" => /\ IsNearest(at)
                       /\ \A k \in 1 .. Degree(at) : k < link => LinkIsRelaxed(at, k)
    /\ pc = "back" => IsNearest(Dst)
Settled ==
    Running /\ ~wrapped =>
        SourceIsZero /\ DoneAreRelaxed /\ DoneAreNearer /\ ReachedFromDone /\ InProgress

Typed ==
    listing \in Listings /\ TypeOK /\ LinksPointIntoTED /\ IdleIsFresh /\ KnownHaveSIDs
    /\ PathIsKnown
IInv == Typed /\ Settled

------------------------------------------------------------------------------
(* What nodes, links and segments are *)

LEMMA NodeSegmentTyped ==
    ASSUME NEW n \in LsNodes
    PROVE  NodeSegment(n) \in Segment \cup {NoSegment}
<1>1. n.begin \in Uint /\ n.prefixes \in Seq(LsPrefixes) /\ n.srv6 \in Seq(Seq(STRING))
  BY DEF LsNodes
<1>2. CASE WithSID(n) # {}
  <2>1. WithSID(n) \in SUBSET (1 .. Len(n.prefixes))
    BY DEF WithSID
  <2>2. PrefixIndex(n) \in Uint
    <3>1. n.prefixes[Min(WithSID(n))] \in LsPrefixes
      BY <1>1, <1>2, <2>1, FirstOf
    <3> QED
      BY <3>1 DEF PrefixIndex, LsPrefixes
  <2>3. (n.begin + PrefixIndex(n)) % UintSpace \in Uint
    <3>1. UintSpace \in Nat \ {0}
      BY TEDAssumption
    <3>2. n.begin + PrefixIndex(n) \in Nat
      BY <1>1, <2>2 DEF Uint
    <3> QED
      BY <3>1, <3>2 DEF Uint
  <2> QED
    BY <1>2, <2>3 DEF NodeSegment, MPLS, Segment
<1>3. CASE WithSID(n) = {} /\ WithSRv6(n) # {}
  BY <1>3, SRv6AddressTyped DEF NodeSegment, SRv6, Segment
<1>4. CASE WithSID(n) = {} /\ WithSRv6(n) = {}
  BY <1>4 DEF NodeSegment
<1> QED
  BY <1>2, <1>3, <1>4

LEMMA RouterNode ==
    ASSUME TEDTypeOK, LinksPointIntoTED, NEW r \in Routers
    PROVE  /\ Node(r) \in LsNodes
           /\ LinksOf(r) \in Seq(LsLinks)
           /\ \A k \in 1 .. Len(LinksOf(r)) :
                 /\ LinksOf(r)[k] \in LsLinks
                 /\ RemoteOf(LinksOf(r)[k]) \in Routers
                 /\ Node(RemoteOf(LinksOf(r)[k])) = ted.heap[LinksOf(r)[k].remote]
                 /\ \A m \in DOMAIN LinksOf(r)[k].metrics :
                       LinksOf(r)[k].metrics[m] \in Uint
<1>1. ted.nodes[r] \in 1 .. Len(ted.heap) /\ Node(r) = ted.heap[ted.nodes[r]]
  BY DEF LinksPointIntoTED, Node
<1>2. Node(r) \in LsNodes
  BY <1>1, ElementOfSeq DEF TEDTypeOK
<1>3. LinksOf(r) \in Seq(LsLinks)
  BY <1>2 DEF LinksOf, LsNodes
<1> SUFFICES ASSUME NEW k \in 1 .. Len(LinksOf(r))
             PROVE  /\ LinksOf(r)[k] \in LsLinks
                    /\ RemoteOf(LinksOf(r)[k]) \in Routers
                    /\ Node(RemoteOf(LinksOf(r)[k])) = ted.heap[LinksOf(r)[k].remote]
                    /\ \A m \in DOMAIN LinksOf(r)[k].metrics :
                          LinksOf(r)[k].metrics[m] \in Uint
  BY <1>2, <1>3
<1> DEFINE l == LinksOf(r)[k]
<1>4. l \in LsLinks
  BY <1>3, ElementOfSeq
<1>5. l.remote \in 1 .. Len(ted.heap)
  BY <1>1 DEF LinksPointIntoTED, LinksOf
<1>6. RemoteOf(l) \in Routers /\ Node(RemoteOf(l)) = ted.heap[l.remote]
  BY <1>5 DEF LinksPointIntoTED, RemoteOf, Node
<1>7. \A m \in DOMAIN l.metrics : l.metrics[m] \in Uint
  BY <1>4 DEF LsLinks, Metrics
<1> QED
  BY <1>4, <1>6, <1>7

LEMMA SegmentOfTyped ==
    ASSUME TEDTypeOK, LinksPointIntoTED, NEW r \in Routers
    PROVE  SegmentOf(r) \in Segment \cup {NoSegment}
BY RouterNode, NodeSegmentTyped DEF SegmentOf

------------------------------------------------------------------------------
(* Types *)

LEMMA Frame ==
    ASSUME Typed, UNCHANGED tedVars
    PROVE  /\ listing' \in Listings /\ TEDTypeOK' /\ LinksPointIntoTED'
           /\ Routers' = Routers /\ Published' = Published
           /\ \A r : SegmentOf(r)' = SegmentOf(r)
<1>1. listing' = listing /\ applied' = applied /\ ted' = ted
  BY DEF tedVars
<1>2. listing \in Listings /\ TEDTypeOK /\ LinksPointIntoTED
  BY DEF Typed, TypeOK
<1>3. listing' \in Listings /\ Routers' = Routers /\ Published' = Published
  BY <1>1, <1>2 DEF Routers, Published
<1>4. TEDTypeOK'
  BY <1>1, <1>2 DEF TEDTypeOK, Routers
<1>5. LinksPointIntoTED'
  BY <1>1, <1>2 DEF LinksPointIntoTED, Routers, Node
<1>6. \A r : SegmentOf(r)' = SegmentOf(r)
  BY <1>1 DEF SegmentOf, Node
<1> QED
  BY <1>3, <1>4, <1>5, <1>6

LEMMA HopTyped ==
    ASSUME TypeOK, pc # "idle"
    PROVE  Hop \in Waypoint /\ Dst \in STRING /\ Hop.sid \in Names
<1>1. goal.hops \in Seq(Waypoint) /\ section \in 1 .. Len(goal.hops)
  BY DEF TypeOK
<1>2. Hop \in Waypoint
  BY <1>1, ElementOfSeq DEF Hop
<1> QED
  BY <1>2 DEF Waypoint, Dst

LEMMA SubmitTyped ==
    ASSUME Typed, NEW from \in Routers, NEW to \in Routers, NEW w \in Seq(Waypoint),
           NEW m \in Names, Submit(from, to, w, m)
    PROVE  Typed'
<1> DEFINE hop == [router |-> to, sid |-> NoSID]
<1>1. /\ from \in STRING /\ to \in STRING
      /\ hop \in Waypoint
  BY DEF Typed, TypeOK, TEDTypeOK, Waypoint, Names, NoSID
<1>2. /\ Append(w, hop) \in Seq(Waypoint)
      /\ Len(Append(w, hop)) = Len(w) + 1 /\ Len(w) \in Nat
  BY <1>1, AppendProperties, LenProperties
<1> HIDE DEF hop
<1>3. /\ goal' = [from |-> from, metric |-> m, loose |-> w # <<>>, hops |-> Append(w, hop)]
      /\ pc = "idle" /\ Published /\ pc' = "init" /\ src' = from
      /\ UNCHANGED <<tedVars, section, dist, at, link, wrapped, list, failure, path>>
  BY DEF Submit, spfVars, hop
<1>4. /\ goal' \in [from : Names, metric : Names, hops : Seq(Waypoint), loose : BOOLEAN]
      /\ goal'.hops = Append(w, hop)
  BY <1>1, <1>2, <1>3 DEF Names
<1>5. section' \in 1 .. Len(goal'.hops)
  BY <1>2, <1>3, <1>4 DEF Typed, IdleIsFresh
<1>6. TypeOK'
  <2>1. TEDTypeOK' /\ Routers' = Routers /\ Published'
    BY <1>3, Frame
  <2> QED
    BY <1>1, <1>3, <1>4, <1>5, <2>1 DEF Typed, TypeOK, Names
<1>7. IdleIsFresh' /\ KnownHaveSIDs' /\ PathIsKnown'
  BY <1>3 DEF IdleIsFresh, KnownHaveSIDs, PathIsKnown, Running
<1> QED
  BY <1>3, <1>6, <1>7, Frame DEF Typed

(* Where the computation of a section starts and where it fails.           *)
LEMMA StartTyped ==
    ASSUME Typed, InitNodeMap \/ SourceWithoutSID \/ NextNodeNotFound \/ LinkWithoutMetric
                  \/ RemoteWithoutSID \/ WaypointWithoutSRv6
    PROVE  Typed'
<1>1. CASE InitNodeMap
  <2>1. /\ pc = "init" /\ pc' = "select" /\ NodeSegment(Node(src)) # NoSegment
        /\ dist' = [r \in {src} |-> [cost |-> 0, prev |-> "", calculated |-> FALSE]]
        /\ UNCHANGED <<tedVars, goal, section, src, list, failure, at, link, wrapped, path>>
    BY <1>1 DEF InitNodeMap, callVars
  <2>2. /\ DOMAIN dist' = {src} /\ 0 \in Uint
        /\ src \in Routers
    <3>1. DOMAIN dist' = {src}
      BY <2>1
    <3>2. 0 \in Uint
      BY TEDAssumption DEF Uint
    <3>3. src \in Routers
      BY <2>1 DEF Typed, TypeOK
    <3> QED
      BY <3>1, <3>2, <3>3
  <2>3. dist' \in [DOMAIN dist' -> [cost : Uint, prev : Names, calculated : BOOLEAN]]
    BY <2>1, <2>2 DEF Names
  <2>4. TEDTypeOK' /\ Routers' = Routers /\ Published' = Published
    BY <2>1, Frame
  <2>5. TypeOK'
    BY <2>1, <2>2, <2>3, <2>4 DEF Typed, TypeOK
  <2>6. KnownHaveSIDs'
    BY <2>1, <2>2, Frame DEF KnownHaveSIDs, SegmentOf
  <2>7. IdleIsFresh' /\ PathIsKnown'
    BY <2>1 DEF IdleIsFresh, PathIsKnown
  <2> QED
    BY <2>1, <2>5, <2>6, <2>7, Frame DEF Typed
<1>2. CASE SourceWithoutSID \/ NextNodeNotFound \/ LinkWithoutMetric \/ RemoteWithoutSID
           \/ WaypointWithoutSRv6
  <2>1. /\ pc # "idle" /\ pc' = "failed" /\ failure' \in Failures
        /\ UNCHANGED <<tedVars, goal, section, src, list, path, dist, at, link, wrapped>>
    BY <1>2 DEF SourceWithoutSID, NextNodeNotFound, LinkWithoutMetric, RemoteWithoutSID,
                WaypointWithoutSRv6, Fail, Failures, Relaxing, EndOfSection, spfVars
  <2>2. TEDTypeOK' /\ Routers' = Routers /\ Published' = Published
    BY <2>1, Frame
  <2>3. TypeOK'
    BY <2>1, <2>2 DEF Typed, TypeOK
  <2>4. IdleIsFresh' /\ PathIsKnown' /\ KnownHaveSIDs'
    BY <2>1 DEF IdleIsFresh, PathIsKnown, KnownHaveSIDs, Running
  <2> QED
    BY <2>1, <2>3, <2>4, Frame DEF Typed
<1> QED
  BY <1>1, <1>2

LEMMA SelectTyped ==
    ASSUME Typed, Arrive \/ Calculated \/ \E r \in DOMAIN dist : Select(r)
    PROVE  Typed'
<1>1. CASE \E r \in DOMAIN dist : Select(r)
  <2>1. /\ pc = "select" /\ pc' = "relax" /\ at' \in DOMAIN dist /\ link' = 1
        /\ UNCHANGED <<tedVars, goal, section, src, list, failure, dist, wrapped, path>>
    BY <1>1 DEF Select, callVars
  <2>2. TEDTypeOK' /\ Routers' = Routers /\ Published' = Published
    BY <2>1, Frame
  <2>3. at' \in Names
    BY <2>1 DEF Typed, TypeOK, TEDTypeOK, Names
  <2>4. TypeOK'
    BY <2>1, <2>2, <2>3 DEF Typed, TypeOK
  <2>5. KnownHaveSIDs'
    BY <2>1, Frame DEF Typed, KnownHaveSIDs, Running
  <2>6. IdleIsFresh' /\ PathIsKnown'
    BY <2>1 DEF IdleIsFresh, PathIsKnown
  <2> QED
    BY <2>1, <2>4, <2>5, <2>6, Frame DEF Typed
<1>2. CASE Arrive
  <2>1. /\ pc = "select" /\ pc' = "back" /\ path' = <<Dst>> /\ Dst \in DOMAIN dist
        /\ UNCHANGED <<tedVars, goal, section, src, list, failure, dist, at, link, wrapped>>
    BY <1>2 DEF Arrive, Nearest, Open, callVars, spfVars
  <2>2. TEDTypeOK' /\ Routers' = Routers /\ Published' = Published
    BY <2>1, Frame
  <2>3. /\ path' \in Seq(STRING) /\ path' \in Seq(DOMAIN dist) /\ path' # <<>>
        /\ path'[1] = Dst
    BY <2>1 DEF Typed, TypeOK, TEDTypeOK
  <2>4. Dst' = Dst
    BY <2>1 DEF Dst, Hop
  <2>5. TypeOK'
    BY <2>1, <2>2, <2>3, <2>4 DEF Typed, TypeOK
  <2>6. KnownHaveSIDs'
    BY <2>1, Frame DEF Typed, KnownHaveSIDs, Running
  <2>7. IdleIsFresh' /\ PathIsKnown'
    BY <2>1, <2>3 DEF IdleIsFresh, PathIsKnown
  <2> QED
    BY <2>1, <2>5, <2>6, <2>7, Frame DEF Typed
<1>3. CASE Calculated
  <2>1. /\ pc = "relax" /\ pc' = "select"
        /\ dist' = [dist EXCEPT ![at].calculated = TRUE]
        /\ UNCHANGED <<tedVars, goal, section, src, list, failure, at, link, wrapped, path>>
    BY <1>3 DEF Calculated, callVars
  <2>2. TEDTypeOK' /\ Routers' = Routers /\ Published' = Published
    BY <2>1, Frame
  <2>3. /\ DOMAIN dist' = DOMAIN dist
        /\ dist' \in [DOMAIN dist -> [cost : Uint, prev : Names, calculated : BOOLEAN]]
        /\ \A r \in DOMAIN dist : dist'[r].prev = dist[r].prev
    BY <2>1 DEF Typed, TypeOK
  <2>4. TypeOK'
    BY <2>1, <2>2, <2>3 DEF Typed, TypeOK
  <2>5. KnownHaveSIDs'
    BY <2>1, <2>3, Frame DEF Typed, KnownHaveSIDs, Running
  <2>6. IdleIsFresh' /\ PathIsKnown'
    BY <2>1 DEF IdleIsFresh, PathIsKnown
  <2> QED
    BY <2>1, <2>4, <2>5, <2>6, Frame DEF Typed
<1> QED
  BY <1>1, <1>2, <1>3

(* The link at hand.                                                       *)
LEMMA LinkAtHand ==
    ASSUME Typed, Relaxing
    PROVE  /\ at \in DOMAIN dist /\ at \in Routers
           /\ link \in 1 .. Len(LinksOf(at)) /\ CurrentLink = LinksOf(at)[link]
           /\ Remote \in Routers /\ Node(Remote) = ted.heap[CurrentLink.remote]
           /\ dist[at].cost \in Uint
           /\ HasMetric => /\ Cost(CurrentLink) \in Uint
                           /\ Sum = dist[at].cost + Cost(CurrentLink)
                           /\ Sum \in Nat /\ Sum % UintSpace \in Uint
                           /\ Sum < UintSpace => Sum % UintSpace = Sum
<1>1. TEDTypeOK /\ LinksPointIntoTED /\ at \in DOMAIN dist /\ at \in Routers /\ link \in Nat \ {0}
  BY DEF Typed, TypeOK, Relaxing
<1>2. /\ LinksOf(at) \in Seq(LsLinks)
      /\ \A k \in 1 .. Len(LinksOf(at)) :
            /\ RemoteOf(LinksOf(at)[k]) \in Routers
            /\ Node(RemoteOf(LinksOf(at)[k])) = ted.heap[LinksOf(at)[k].remote]
            /\ \A m \in DOMAIN LinksOf(at)[k].metrics : LinksOf(at)[k].metrics[m] \in Uint
  BY <1>1, RouterNode
<1>3. link \in 1 .. Len(LinksOf(at)) /\ CurrentLink = LinksOf(at)[link]
  <2>1. Len(LinksOf(at)) \in Nat
    BY <1>2, LenProperties
  <2> QED
    BY <1>1, <2>1 DEF Relaxing, LinksOf, CurrentLink
<1>4. Remote \in Routers /\ Node(Remote) = ted.heap[CurrentLink.remote]
  BY <1>2, <1>3 DEF Remote
<1>5. dist[at].cost \in Uint
  BY <1>1 DEF Typed, TypeOK
<1>6. ASSUME HasMetric
      PROVE  /\ Cost(CurrentLink) \in Uint
             /\ Sum = dist[at].cost + Cost(CurrentLink)
             /\ Sum \in Nat /\ Sum % UintSpace \in Uint
             /\ Sum < UintSpace => Sum % UintSpace = Sum
  <2>1. Cost(CurrentLink) \in Uint
    BY <1>2, <1>3, <1>6 DEF HasMetric, Cost
  <2>2. Sum = dist[at].cost + Cost(CurrentLink)
    BY DEF Sum, Cost
  <2>3. UintSpace \in Nat \ {0}
    BY TEDAssumption
  <2>4. Sum \in Nat
    BY <1>5, <2>1, <2>2, <2>3 DEF Uint
  <2> HIDE DEF Sum
  <2>5. Sum % UintSpace \in Uint /\ (Sum < UintSpace => Sum % UintSpace = Sum)
    BY <2>3, <2>4 DEF Uint
  <2> QED
    BY <2>1, <2>2, <2>4, <2>5
<1> QED
  BY <1>1, <1>3, <1>4, <1>5, <1>6

(* What relaxing a link does to dist.                                      *)
LEMMA RelaxKnownDist ==
    ASSUME Typed, RelaxKnown
    PROVE  /\ Relaxing /\ HasMetric /\ Relaxed
           /\ Remote \in DOMAIN dist /\ DOMAIN dist' = DOMAIN dist
           /\ \A r \in DOMAIN dist :
                 dist'[r] = IF r = Remote /\ Sum % UintSpace < dist[Remote].cost
                            THEN [cost |-> Sum % UintSpace, prev |-> at,
                                  calculated |-> dist[r].calculated]
                            ELSE dist[r]
<1>1. /\ Relaxing /\ HasMetric /\ Relaxed /\ Remote \in DOMAIN dist
      /\ dist' = IF Sum % UintSpace < dist[Remote].cost
                 THEN WithCost(Remote, Sum % UintSpace) ELSE dist
  BY DEF RelaxKnown
<1>2. dist \in [DOMAIN dist -> [cost : Uint, prev : Names, calculated : BOOLEAN]]
  BY DEF Typed, TypeOK
<1> HIDE DEF Sum, Remote
<1>3. CASE Sum % UintSpace < dist[Remote].cost
  <2>1. dist' = [dist EXCEPT ![Remote].cost = Sum % UintSpace, ![Remote].prev = at]
    BY <1>1, <1>3 DEF WithCost
  <2> QED
    BY <1>1, <1>2, <1>3, <2>1
<1>4. CASE ~(Sum % UintSpace < dist[Remote].cost)
  BY <1>1, <1>4
<1> QED
  BY <1>3, <1>4

LEMMA RelaxNewDist ==
    ASSUME Typed, RelaxNew
    PROVE  /\ Relaxing /\ HasMetric /\ Relaxed
           /\ Remote \notin DOMAIN dist /\ DOMAIN dist' = DOMAIN dist \cup {Remote}
           /\ SegmentOf(Remote) # NoSegment
           /\ \A r \in DOMAIN dist' :
                 dist'[r] = IF r = Remote
                            THEN [cost |-> Sum % UintSpace, prev |-> at, calculated |-> FALSE]
                            ELSE dist[r]
<1>1. Node(Remote) = ted.heap[CurrentLink.remote]
  BY LinkAtHand DEF RelaxNew
<1> QED
  BY <1>1 DEF RelaxNew, Reached, SegmentOf

LEMMA RelaxTyped ==
    ASSUME Typed, RelaxKnown \/ RelaxNew
    PROVE  Typed'
<1>1. /\ pc = "relax" /\ pc' = pc /\ link' = link + 1 /\ wrapped' \in BOOLEAN
      /\ Relaxing /\ HasMetric
      /\ UNCHANGED <<tedVars, goal, section, src, list, failure, at, path>>
  BY DEF RelaxKnown, RelaxNew, Relaxed, Relaxing, callVars, Typed, TypeOK
<1>2. TEDTypeOK' /\ Routers' = Routers /\ Published' = Published
  BY <1>1, Frame
<1>3. at \in DOMAIN dist /\ at \in Names /\ Remote \in Routers /\ Sum % UintSpace \in Uint
  BY <1>1, LinkAtHand DEF Typed, TypeOK
<1>4. /\ DOMAIN dist \subseteq DOMAIN dist' /\ DOMAIN dist' \subseteq Routers
      /\ dist' = [r \in DOMAIN dist' |-> dist'[r]]
  BY <1>3, RelaxKnownDist, RelaxNewDist DEF RelaxKnown, RelaxNew, WithCost, Typed, TypeOK
<1>5. \A r \in DOMAIN dist' :
         /\ dist'[r] \in [cost : Uint, prev : Names, calculated : BOOLEAN]
         /\ r # src => dist'[r].prev \in DOMAIN dist'
  <2>1. /\ \A r \in DOMAIN dist :
              /\ dist[r] \in [cost : Uint, prev : Names, calculated : BOOLEAN]
              /\ r # src => dist[r].prev \in DOMAIN dist
    BY <1>1 DEF Typed, TypeOK
  <2> HIDE DEF Sum, Remote
  <2>2. CASE RelaxKnown
    BY <1>3, <1>4, <2>1, <2>2, RelaxKnownDist
  <2>3. CASE RelaxNew
    <3>1. /\ dist'[Remote] = [cost |-> Sum % UintSpace, prev |-> at, calculated |-> FALSE]
          /\ DOMAIN dist' = DOMAIN dist \cup {Remote}
          /\ \A r \in DOMAIN dist : dist'[r] = dist[r]
      BY <2>3, RelaxNewDist
    <3>2. dist'[Remote] \in [cost : Uint, prev : Names, calculated : BOOLEAN]
      BY <1>3, <3>1
    <3>3. dist'[Remote].prev \in DOMAIN dist'
      BY <1>3, <1>4, <3>1
    <3> QED
      BY <1>4, <2>1, <3>1, <3>2, <3>3
  <2> QED
    BY <2>2, <2>3
<1>6. dist' \in [DOMAIN dist' -> [cost : Uint, prev : Names, calculated : BOOLEAN]]
  BY <1>4, <1>5
<1>7. TypeOK'
  BY <1>1, <1>2, <1>4, <1>5, <1>6 DEF Typed, TypeOK
<1>8. KnownHaveSIDs'
  <2>1. \A r \in DOMAIN dist : SegmentOf(r) # NoSegment
    BY <1>1 DEF Typed, KnownHaveSIDs, Running
  <2>2. \A r \in DOMAIN dist' : SegmentOf(r) # NoSegment
    BY <2>1, RelaxKnownDist, RelaxNewDist
  <2> QED
    BY <1>1, <2>2, Frame DEF KnownHaveSIDs
<1>9. IdleIsFresh' /\ PathIsKnown'
  BY <1>1 DEF IdleIsFresh, PathIsKnown
<1> QED
  BY <1>1, <1>7, <1>8, <1>9, Frame DEF Typed

LEMMA StepBackTyped ==
    ASSUME Typed, StepBack
    PROVE  Typed'
<1>1. /\ pc = "back" /\ pc' = "back" /\ path[1] # src
      /\ path' = <<dist[path[1]].prev>> \o path
      /\ UNCHANGED <<tedVars, goal, section, src, list, failure, dist, at, link, wrapped>>
  BY DEF StepBack, callVars, spfVars
<1>2. TEDTypeOK' /\ Routers' = Routers /\ Published' = Published
  BY <1>1, Frame
<1> DEFINE p == dist[path[1]].prev
<1>3. /\ path # <<>> /\ path[1] \in DOMAIN dist /\ path \in Seq(DOMAIN dist)
      /\ p \in DOMAIN dist /\ DOMAIN dist \subseteq STRING
  BY <1>1 DEF Typed, TypeOK, TEDTypeOK, PathIsKnown
<1> HIDE DEF p
<1>4. /\ path' \in Seq(DOMAIN dist) /\ path' # <<>> /\ path'[1] = p
  <2>1. <<p>> \in Seq(DOMAIN dist) /\ Len(<<p>>) = 1 /\ <<p>>[1] = p
    BY <1>3
  <2>2. path' = <<p>> \o path
    BY <1>1 DEF p
  <2>3. /\ path' \in Seq(DOMAIN dist) /\ Len(path') = 1 + Len(path) /\ path'[1] = p
    BY <1>3, <2>1, <2>2, ConcatProperties, LenProperties
  <2>4. Len(path') \in Nat \ {0}
    BY <1>3, <2>3, LenProperties
  <2> QED
    BY <2>3, <2>4, EmptySeq
<1>5. path' \in Seq(STRING)
  BY <1>3, <1>4
<1>6. Dst' = Dst
  BY <1>1 DEF Dst, Hop
<1>7. TypeOK'
  BY <1>1, <1>2, <1>3, <1>4, <1>5, <1>6 DEF Typed, TypeOK
<1>8. KnownHaveSIDs'
  BY <1>1, Frame DEF Typed, KnownHaveSIDs, Running
<1>9. IdleIsFresh' /\ PathIsKnown'
  BY <1>1, <1>4 DEF IdleIsFresh, PathIsKnown
<1> QED
  BY <1>1, <1>7, <1>8, <1>9, Frame DEF Typed

LEMMA SectionTyped ==
    ASSUME Typed, pc = "back"
    PROVE  SectionSegments \in Seq(Segment)
<1>1. /\ path \in Seq(DOMAIN dist) /\ path # <<>>
      /\ TEDTypeOK /\ LinksPointIntoTED
      /\ \A r \in DOMAIN dist : r \in Routers /\ SegmentOf(r) # NoSegment
  BY DEF Typed, TypeOK, PathIsKnown, KnownHaveSIDs, Running
<1>2. Len(path) \in Nat \ {0}
  BY <1>1, EmptySeq
<1>3. \A r \in DOMAIN dist : SegmentOf(r) \in Segment
  BY <1>1, SegmentOfTyped
<1>4. \A i \in 1 .. Len(path) - 1 : SegmentOf(path[i + 1]) \in Segment
  <2> SUFFICES ASSUME NEW i \in 1 .. Len(path) - 1
               PROVE  SegmentOf(path[i + 1]) \in Segment
    OBVIOUS
  <2>1. i + 1 \in 1 .. Len(path)
    BY <1>2
  <2> QED
    BY <1>1, <1>3, <2>1, ElementOfSeq
<1> QED
  BY <1>2, <1>4 DEF SectionSegments

LEMMA WaypointSegmentTyped ==
    ASSUME Typed, pc = "back", WaypointSegment # NoSegment
    PROVE  WaypointSegment \in Segment
<1>1. /\ TEDTypeOK /\ LinksPointIntoTED /\ Dst \in Routers /\ Hop.sid \in Names
  <2>1. pc # "idle" /\ TypeOK /\ LinksPointIntoTED
    BY DEF Typed
  <2> QED
    BY <2>1, HopTyped DEF TypeOK
<1>2. Node(Dst) \in LsNodes
  BY <1>1, RouterNode
<1>3. CASE Hop.sid = NoSID
  BY <1>1, <1>3, SegmentOfTyped DEF WaypointSegment
<1>4. CASE Hop.sid # NoSID
  <2>1. WithSRv6(Node(Dst)) # {} /\ WaypointSegment = SRv6(Hop.sid, SRv6Address(Node(Dst)))
    BY <1>4 DEF WaypointSegment
  <2>2. Hop.sid \in STRING
    BY <1>1, <1>4 DEF Names, NoSID
  <2>3. SRv6Address(Node(Dst)) \in STRING
    BY <1>2, <2>1, SRv6AddressTyped
  <2> QED
    BY <2>1, <2>2, <2>3 DEF SRv6, Segment
<1> QED
  BY <1>3, <1>4

(* The list of a request with waypoints keeps its type.                    *)
LEMMA JoinTyped ==
    ASSUME list \in Seq(Segment), NEW s \in Seq(Segment), NEW w \in Segment
    PROVE  AppendIfNotDuplicate(list \o RemoveDuplicateFirst(s), w) \in Seq(Segment)
<1>1. RemoveDuplicateFirst(s) \in Seq(Segment)
  BY HeadTailProperties DEF RemoveDuplicateFirst
<1>2. list \o RemoveDuplicateFirst(s) \in Seq(Segment)
  BY <1>1, ConcatProperties
<1> DEFINE t == list \o RemoveDuplicateFirst(s)
<1> HIDE DEF t
<1>3. t \in Seq(Segment)
  BY <1>2 DEF t
<1>4. AppendIfNotDuplicate(t, w) \in Seq(Segment)
  BY <1>3, AppendProperties DEF AppendIfNotDuplicate
<1> QED
  BY <1>4 DEF t

LEMMA EndOfSectionTyped ==
    ASSUME Typed, Found \/ NextSection
    PROVE  Typed'
<1>1. /\ pc = "back" /\ pc' \in {"found", "init"}
      /\ UNCHANGED <<tedVars, goal, failure, path, dist, at, link, wrapped>>
  BY DEF Found, NextSection, EndOfSection, spfVars
<1>2. TEDTypeOK' /\ Routers' = Routers /\ Published' = Published
  BY <1>1, Frame
<1>3. list' \in Seq(Segment)
  <2>1. SectionSegments \in Seq(Segment) /\ list \in Seq(Segment)
    BY <1>1, SectionTyped DEF Typed, TypeOK
  <2>2. CASE Found
    BY <2>1, <2>2 DEF Found
  <2>3. CASE NextSection
    <3>1. WaypointSegment \in Segment
      BY <1>1, <2>3, WaypointSegmentTyped DEF NextSection
    <3> QED
      BY <2>1, <2>3, <3>1, JoinTyped DEF NextSection
  <2> QED
    BY <2>2, <2>3
<1>4. section' \in 1 .. Len(goal.hops) /\ src' \in Routers /\ src' \in Names
  <2>1. /\ section \in 1 .. Len(goal.hops) /\ src \in Routers /\ Dst \in Routers
        /\ src \in Names
    BY <1>1 DEF Typed, TypeOK
  <2>2. Len(goal.hops) \in Nat
    BY LenProperties DEF Typed, TypeOK
  <2>3. Dst \in Names
    BY <2>1 DEF Typed, TypeOK, TEDTypeOK, Names
  <2> QED
    BY <2>1, <2>2, <2>3 DEF Found, NextSection, MoreSections
<1>5. TypeOK'
  <2>1. section' \in Nat \ {0}
    <3>1. Len(goal.hops) \in Nat
      BY LenProperties DEF Typed, TypeOK
    <3> QED
      BY <1>4, <3>1
  <2> QED
    BY <1>1, <1>2, <1>3, <1>4, <2>1 DEF Typed, TypeOK
<1>6. IdleIsFresh' /\ PathIsKnown' /\ KnownHaveSIDs'
  BY <1>1 DEF IdleIsFresh, PathIsKnown, KnownHaveSIDs, Running
<1> QED
  BY <1>1, <1>5, <1>6, Frame DEF Typed

LEMMA UpdateTyped ==
    ASSUME Typed, UpdateTED, UNCHANGED <<pc, spfVars, callVars, path>>
    PROVE  Typed'
<1>1. listing \in Listings /\ TEDTypeOK /\ LinksPointIntoTED
  BY DEF Typed, TypeOK
<1>2. TEDTypeOK' /\ LinksPointIntoTED' /\ listing' = listing
  BY <1>1, TEDStep
<1>3. pc = "idle" /\ dist = <<>> /\ section = 1
  <2>1. applied < Len(listing)
    BY DEF UpdateTED, UpdateNode, UpdateLink, UpdatePrefix, UpdateSRv6SID, IgnoreForeign,
           Applying
  <2>2. Len(listing) \in Nat
    BY <1>1, TEDAssumption
  <2>3. ~Published
    BY <2>1, <2>2 DEF Published
  <2> QED
    BY <2>3 DEF Typed, TypeOK, IdleIsFresh
<1>4. UNCHANGED <<pc, goal, section, src, list, failure, dist, at, link, wrapped, path>>
  BY DEF spfVars, callVars
<1>5. DOMAIN dist = {}
  BY <1>3
<1>6. TypeOK'
  BY <1>2, <1>3, <1>4, <1>5 DEF Typed, TypeOK
<1>7. IdleIsFresh' /\ PathIsKnown' /\ KnownHaveSIDs'
  BY <1>3, <1>4 DEF IdleIsFresh, PathIsKnown, KnownHaveSIDs, Running
<1> QED
  BY <1>1, <1>2, <1>6, <1>7 DEF Typed

LEMMA InitTyped == Init => Typed
<1> SUFFICES ASSUME Init PROVE Typed
  OBVIOUS
<1>1. listing \in Listings /\ applied = 0 /\ ted.heap = <<>> /\ ted.nodes = <<>>
      /\ ted = [heap |-> ted.heap, nodes |-> ted.nodes]
  BY DEF Init, TEDInit, EmptyTED
<1>2. Routers = {} /\ Len(ted.heap) = 0 /\ ted.heap \in Seq(LsNodes)
  BY <1>1, EmptySeq DEF Routers
<1>3. TEDTypeOK /\ LinksPointIntoTED
  BY <1>1, <1>2, TEDAssumption DEF TEDTypeOK, LinksPointIntoTED
<1>4. /\ pc = "idle" /\ src = "" /\ at = "" /\ failure = ""
      /\ goal = [from |-> "", metric |-> "", hops |-> <<>>, loose |-> FALSE]
  BY DEF Init
<1>5. dist = <<>>
  BY DEF Init
<1>6. section = 1 /\ link = 1 /\ wrapped = FALSE
  BY DEF Init
<1>7. path = <<>> /\ list = <<>>
  BY DEF Init
<1>8. goal \in [from : Names, metric : Names, hops : Seq(Waypoint), loose : BOOLEAN]
  <2>1. "" \in Names /\ <<>> \in Seq(Waypoint) /\ FALSE \in BOOLEAN
    BY EmptySeq DEF Names
  <2> QED
    BY <1>4, <2>1
<1>9. dist \in [DOMAIN dist -> [cost : Uint, prev : Names, calculated : BOOLEAN]]
      /\ DOMAIN dist = {}
  <2> DEFINE S == [cost : Uint, prev : Names, calculated : BOOLEAN]
  <2> HIDE DEF S
  <2>1. DOMAIN dist = {}
    BY <1>5
  <2>2. dist \in [DOMAIN dist -> S]
    BY <1>5, <2>1
  <2> QED
    BY <2>1, <2>2 DEF S
<1>10. TypeOK
  <2>1. path \in Seq(STRING) /\ list \in Seq(Segment)
    BY <1>7, EmptySeq
  <2>2. src \in Names /\ at \in Names /\ failure \in Failures
    BY <1>4 DEF Names, Failures
  <2>3. wrapped \in BOOLEAN
    BY <1>6
  <2>4. section \in Nat \ {0} /\ link \in Nat \ {0}
    BY <1>6
  <2>5. pc = "idle" /\ DOMAIN dist \subseteq Routers
    BY <1>4, <1>9
  <2> QED
    BY <1>3, <1>8, <1>9, <2>1, <2>2, <2>3, <2>4, <2>5 DEF TypeOK
<1>11. IdleIsFresh /\ PathIsKnown /\ KnownHaveSIDs
  BY <1>4, <1>5, <1>6 DEF IdleIsFresh, PathIsKnown, KnownHaveSIDs, Running
<1> QED
  BY <1>1, <1>3, <1>10, <1>11 DEF Typed

LEMMA StutterTyped == Typed /\ UNCHANGED vars => Typed'
<1> SUFFICES ASSUME Typed, UNCHANGED vars PROVE Typed'
  OBVIOUS
<1>1. UNCHANGED <<tedVars, pc, goal, section, src, list, failure, dist, at, link, wrapped, path>>
  BY DEF vars, spfVars, callVars
<1>2. TEDTypeOK' /\ Routers' = Routers /\ Published' = Published
  BY <1>1, Frame
<1>3. Dst' = Dst
  BY <1>1 DEF Dst, Hop
<1>4. TypeOK'
  BY <1>1, <1>2, <1>3 DEF Typed, TypeOK
<1>5. IdleIsFresh' /\ PathIsKnown'
  BY <1>1 DEF Typed, IdleIsFresh, PathIsKnown
<1>6. KnownHaveSIDs'
  BY <1>1, Frame DEF Typed, KnownHaveSIDs, Running
<1> QED
  BY <1>1, <1>4, <1>5, <1>6, Frame DEF Typed

LEMMA TypedStep == Typed /\ [Next]_vars => Typed'
<1> SUFFICES ASSUME Typed, [Next]_vars PROVE Typed'
  OBVIOUS
<1>1. CASE UpdateTED /\ UNCHANGED <<pc, spfVars, callVars, path>>
  BY <1>1, UpdateTyped
<1>2. ASSUME NEW from \in Routers, NEW to \in Routers, NEW m \in Asked,
             (\E w \in Waypoints : Request(from, to, w, m)) \/ Recompute(from, to, m)
      PROVE  Typed'
  <2>1. PICK w \in Seq(Waypoint) : Submit(from, to, w, m)
    BY <1>2, RequestAssumption, EmptySeq DEF Request, Recompute
  <2>2. m \in Names
    BY RequestAssumption DEF Names
  <2> QED
    BY <2>1, <2>2, SubmitTyped
<1>3. CASE Compute
  BY <1>3, StartTyped, SelectTyped, RelaxTyped, StepBackTyped, EndOfSectionTyped DEF Compute
<1>4. CASE UNCHANGED vars
  BY <1>4, StutterTyped
<1> QED
  BY <1>1, <1>2, <1>3, <1>4 DEF Next

(* The types of all variables; in particular path computation looks up no  *)
(* router that the TED does not have (cspf.go 161-184).                    *)
THEOREM TypeCorrect == Spec => []TypeOK
<1>1. Typed => TypeOK
  BY DEF Typed
<1> QED
  BY <1>1, InitTyped, TypedStep, PTL DEF Spec

(* Links point to the nodes that the map of the TED holds, whatever the    *)
(* order in which the elements come (ted.go 227-333).                      *)
THEOREM PointersAgree == Spec => []LinksPointIntoTED
<1>1. Typed => LinksPointIntoTED
  BY DEF Typed
<1> QED
  BY <1>1, InitTyped, TypedStep, PTL DEF Spec

------------------------------------------------------------------------------
(* Dijkstra's invariant *)

LEMMA ArcTyped ==
    ASSUME Typed, NEW r \in DOMAIN dist, NEW k \in 1 .. Degree(r), HasArc(r, k)
    PROVE  Length(r, k) \in Nat /\ EndOf(r, k) \in Routers
<1>1. TEDTypeOK /\ LinksPointIntoTED /\ r \in Routers
  BY DEF Typed, TypeOK
<1> QED
  BY <1>1, RouterNode, TEDAssumption DEF Degree, HasArc, EndOf, Length, Cost, Uint

LEMMA CostTyped ==
    ASSUME Typed
    PROVE  \A r \in DOMAIN dist : dist[r].cost \in Nat /\ dist[r].calculated \in BOOLEAN
BY TEDAssumption DEF Typed, TypeOK, Uint

LEMMA GraphFrame ==
    ASSUME UNCHANGED <<ted, goal>>
    PROVE  \A r : /\ Degree(r)' = Degree(r)
                  /\ \A k : /\ HasArc(r, k)' <=> HasArc(r, k)
                            /\ EndOf(r, k)' = EndOf(r, k)
                            /\ Length(r, k)' = Length(r, k)
BY DEF Degree, HasArc, EndOf, Length, LinksOf, Cost, RemoteOf, Node

(* Steps that leave the loop, or have not entered it.                      *)
LEMMA SettledElsewhere ==
    ASSUME ~Running'
    PROVE  Settled'
BY DEF Settled

LEMMA SettledAtStart ==
    ASSUME Typed, InitNodeMap
    PROVE  Settled'
<1>1. /\ pc' = "select" /\ src' = src
      /\ dist' = [r \in {src} |-> [cost |-> 0, prev |-> "", calculated |-> FALSE]]
  BY DEF InitNodeMap, callVars
<1>2. DOMAIN dist' = {src} /\ dist'[src].cost = 0 /\ dist'[src].calculated = FALSE
  BY <1>1
<1> QED
  BY <1>1, <1>2 DEF Settled, SourceIsZero, DoneAreRelaxed, DoneAreNearer, ReachedFromDone,
                    InProgress, Done

(* Nothing but the program counter, at, link and path change.              *)
LEMMA SettledWhileMoving ==
    ASSUME Typed, Settled,
           Arrive \/ StepBack \/ (\E r \in DOMAIN dist : Select(r)) \/ UNCHANGED vars
    PROVE  Settled'
<1> SUFFICES ASSUME Running', ~wrapped' PROVE Settled'
  BY DEF Settled
<1>1. UNCHANGED <<ted, goal, section, src, dist, wrapped>>
  BY DEF Arrive, StepBack, Select, vars, spfVars, callVars, tedVars
<1>2. Running
  BY DEF Running, Arrive, StepBack, Select, vars
<1>3. /\ SourceIsZero /\ DoneAreRelaxed /\ DoneAreNearer /\ ReachedFromDone /\ InProgress
  BY <1>1, <1>2 DEF Settled
<1>4. \A r, k : LinkIsRelaxed(r, k)' <=> LinkIsRelaxed(r, k)
  BY <1>1, GraphFrame DEF LinkIsRelaxed
<1>5. \A r : IsNearest(r)' <=> IsNearest(r)
  BY <1>1 DEF IsNearest, Done
<1>6. SourceIsZero' /\ DoneAreNearer'
  BY <1>1, <1>3 DEF SourceIsZero, DoneAreNearer, Done
<1>7. DoneAreRelaxed'
  BY <1>1, <1>3, <1>4, GraphFrame DEF DoneAreRelaxed, Done
<1>8. ReachedFromDone'
  <2>1. \A p, k, r : ReachedOver(p, k, r)' <=> ReachedOver(p, k, r)
    BY <1>1, GraphFrame DEF ReachedOver
  <2>2. \A r \in DOMAIN dist \ {src} :
           /\ dist[r].prev \in DOMAIN dist
           /\ Done(dist[r].prev) \/ (pc' = "relax" /\ dist[r].prev = at')
           /\ \E k \in 1 .. Degree(dist[r].prev) : ReachedOver(dist[r].prev, k, r)
    BY <1>3 DEF ReachedFromDone, Arrive, StepBack, Select, vars, spfVars
  <2> QED
    BY <1>1, <2>1, <2>2, GraphFrame DEF ReachedFromDone, Done
<1>9. InProgress'
  <2>1. CASE \E r \in DOMAIN dist : Select(r)
    <3>1. pc' = "relax" /\ IsNearest(at') /\ link' = 1
      BY <2>1 DEF Select, Nearest, Open, IsNearest, Done
    <3>2. IsNearest(at)'
      BY <1>1, <3>1 DEF IsNearest, Done
    <3>3. \A k \in 1 .. Degree(at)' : ~(k < link')
      BY <3>1
    <3> QED
      BY <3>1, <3>2, <3>3 DEF InProgress
  <2>2. CASE Arrive
    <3>1. pc' = "back" /\ IsNearest(Dst)
      BY <2>2 DEF Arrive, Nearest, Open, IsNearest, Done
    <3>2. Dst' = Dst
      BY <1>1 DEF Dst, Hop
    <3> QED
      BY <1>5, <3>1, <3>2 DEF InProgress
  <2>3. CASE StepBack
    <3>1. pc = "back" /\ pc' = "back" /\ Dst' = Dst
      BY <1>1, <2>3 DEF StepBack, Dst, Hop
    <3> QED
      BY <1>3, <1>5, <3>1 DEF InProgress
  <2>4. CASE UNCHANGED vars
    <3>1. UNCHANGED <<pc, at, link>> /\ Dst' = Dst
      BY <1>1, <2>4 DEF vars, spfVars, Dst, Hop
    <3> QED
      BY <1>1, <1>3, <1>4, <1>5, <3>1, GraphFrame DEF InProgress
  <2> QED
    BY <2>1, <2>2, <2>3, <2>4
<1> QED
  BY <1>6, <1>7, <1>8, <1>9 DEF Settled

LEMMA SettledWhenCalculated ==
    ASSUME Typed, Settled, Calculated
    PROVE  Settled'
<1> SUFFICES ASSUME ~wrapped' PROVE Settled'
  BY DEF Settled
<1>1. /\ pc = "relax" /\ pc' = "select" /\ link > Degree(at)
      /\ dist' = [dist EXCEPT ![at].calculated = TRUE]
      /\ UNCHANGED <<ted, goal, src, at, wrapped>>
  BY DEF Calculated, callVars, tedVars, Degree, LinksOf
<1>2. /\ SourceIsZero /\ DoneAreRelaxed /\ DoneAreNearer /\ ReachedFromDone /\ InProgress
      /\ at \in DOMAIN dist /\ src \in DOMAIN dist
  BY <1>1 DEF Settled, Running, Typed, TypeOK
<1>3. /\ DOMAIN dist' = DOMAIN dist
      /\ \A r \in DOMAIN dist : /\ dist'[r].cost = dist[r].cost
                                /\ dist'[r].prev = dist[r].prev
                                /\ Done(r)' <=> (Done(r) \/ r = at)
  <2>1. dist \in [DOMAIN dist -> [cost : Uint, prev : Names, calculated : BOOLEAN]]
    BY DEF Typed, TypeOK
  <2> QED
    BY <1>1, <2>1 DEF Done
<1>4. \A r \in DOMAIN dist : \A k : LinkIsRelaxed(r, k)' <=> LinkIsRelaxed(r, k)
  BY <1>1, <1>3, GraphFrame DEF LinkIsRelaxed
<1>5. IsNearest(at) /\ \A k \in 1 .. Degree(at) : LinkIsRelaxed(at, k)
  <2>1. link \in Nat /\ Degree(at) \in Nat
    <3>1. TEDTypeOK /\ LinksPointIntoTED /\ at \in Routers /\ link \in Nat
      BY <1>2 DEF Typed, TypeOK
    <3> QED
      BY <3>1, RouterNode, LenProperties DEF Degree
  <2>2. \A k \in 1 .. Degree(at) : k < link
    BY <1>1, <2>1
  <2> QED
    BY <1>1, <1>2, <2>2 DEF InProgress
<1>6. SourceIsZero'
  BY <1>1, <1>2, <1>3 DEF SourceIsZero
<1>7. DoneAreRelaxed'
  BY <1>1, <1>2, <1>3, <1>4, <1>5, GraphFrame DEF DoneAreRelaxed
<1>8. DoneAreNearer'
  BY <1>2, <1>3, <1>5 DEF DoneAreNearer, IsNearest
<1>9. ReachedFromDone'
  <2>1. \A r \in DOMAIN dist, p \in DOMAIN dist : \A k :
           ReachedOver(p, k, r)' <=> ReachedOver(p, k, r)
    BY <1>1, <1>3, GraphFrame DEF ReachedOver
  <2> QED
    BY <1>1, <1>2, <1>3, <2>1, GraphFrame DEF ReachedFromDone
<1> QED
  BY <1>1, <1>6, <1>7, <1>8, <1>9 DEF Settled, InProgress

(* The remote router of the link at hand is new or comes nearer: it is a   *)
(* router whose own links have not been looked at, and not the source.     *)
LEMMA SettledWhenNearer ==
    ASSUME Typed, Settled, pc = "relax", Relaxing, HasMetric, Relaxed, ~wrapped, ~wrapped',
           NEW a, a = at, NEW i, i = link, NEW v, v = EndOf(at, i), NEW c, c = dist[at].cost + Length(at, i),
           v \in DOMAIN dist => c < dist[v].cost,
           DOMAIN dist' = DOMAIN dist \cup {v},
           \A r \in DOMAIN dist \ {v} : dist'[r] = dist[r],
           dist'[v].cost = c, dist'[v].prev = at,
           dist'[v].calculated = (v \in DOMAIN dist /\ dist[v].calculated)
    PROVE  Settled'
<1>1. /\ SourceIsZero /\ DoneAreRelaxed /\ DoneAreNearer /\ ReachedFromDone /\ InProgress
      /\ IsNearest(at) /\ src \in DOMAIN dist
  BY DEF Settled, Running, InProgress, Typed, TypeOK
<1>2. /\ UNCHANGED <<ted, goal, src, pc, at>> /\ link' = i + 1
  BY DEF Relaxed, callVars, tedVars
<1>3. /\ at \in DOMAIN dist /\ i \in 1 .. Degree(at) /\ HasArc(at, i)
      /\ i \in Nat
      /\ \A r \in DOMAIN dist : dist[r].cost \in Nat
  <2>1. /\ at \in DOMAIN dist /\ i \in 1 .. Degree(at) /\ HasArc(at, i)
    BY LinkAtHand DEF Degree, HasArc, HasMetric
  <2> QED
    BY <2>1, CostTyped DEF Typed, TypeOK
<1>4. Length(at, i) \in Nat /\ c \in Nat /\ dist[at].cost <= c
  BY <1>3, ArcTyped
<1>5. /\ v # at /\ v # src
      /\ v \in DOMAIN dist => ~Done(v)
  BY <1>1, <1>3, <1>4 DEF SourceIsZero, DoneAreNearer, IsNearest, Done
<1>6. ~Done(v)'
  BY <1>5 DEF Done
<1>7. \A r \in DOMAIN dist \ {v} : Done(r)' <=> Done(r)
  BY DEF Done
<1>8. \A r \in DOMAIN dist : r \in DOMAIN dist' /\ dist'[r].cost <= dist[r].cost
  BY <1>3, <1>4
<1>9. \A r \in DOMAIN dist \ {v} : \A k \in 1 .. Degree(r) :
         LinkIsRelaxed(r, k) => LinkIsRelaxed(r, k)'
  <2> SUFFICES ASSUME NEW r \in DOMAIN dist \ {v}, NEW k \in 1 .. Degree(r),
                      LinkIsRelaxed(r, k)
               PROVE  LinkIsRelaxed(r, k)'
    OBVIOUS
  <2>1. /\ HasArc(r, k) /\ EndOf(r, k) \in DOMAIN dist
        /\ dist[EndOf(r, k)].cost <= dist[r].cost + Length(r, k)
    BY DEF LinkIsRelaxed
  <2>2. Length(r, k) \in Nat
    BY <2>1, ArcTyped
  <2>3. dist'[EndOf(r, k)].cost <= dist'[r].cost + Length(r, k)
    <3>1. CASE EndOf(r, k) = v
      BY <1>3, <1>4, <2>1, <2>2, <3>1
    <3>2. CASE EndOf(r, k) # v
      BY <2>1, <3>2
    <3> QED
      BY <3>1, <3>2
  <2> QED
    BY <1>2, <1>8, <2>1, <2>3, GraphFrame DEF LinkIsRelaxed
<1>10. LinkIsRelaxed(a, i)'
  <2>1. dist'[at].cost = dist[at].cost
    BY <1>3, <1>5
  <2>2. dist'[v].cost <= dist'[at].cost + Length(at, i)
    BY <1>3, <1>4, <2>1
  <2> HIDE DEF EndOf
  <2>3. HasArc(a, i)' /\ EndOf(a, i)' = v /\ Length(a, i)' = Length(a, i)
    BY <1>2, <1>3, GraphFrame
  <2> QED
    BY <1>3, <2>2, <2>3 DEF LinkIsRelaxed
<1>11. SourceIsZero'
  BY <1>1, <1>2, <1>5 DEF SourceIsZero
<1>12. DoneAreRelaxed'
  <2> SUFFICES ASSUME NEW r \in DOMAIN dist', Done(r)', NEW k \in 1 .. Degree(r)'
               PROVE  LinkIsRelaxed(r, k)'
    BY DEF DoneAreRelaxed
  <2>1. r \in DOMAIN dist \ {v} /\ Done(r) /\ k \in 1 .. Degree(r)
    BY <1>2, <1>6, <1>7, GraphFrame
  <2> QED
    BY <1>1, <1>9, <2>1 DEF DoneAreRelaxed
<1>13. DoneAreNearer'
  <2> SUFFICES ASSUME NEW r \in DOMAIN dist', NEW q \in DOMAIN dist', Done(r)', ~Done(q)'
               PROVE  dist'[r].cost <= dist'[q].cost
    BY DEF DoneAreNearer
  <2>1. r \in DOMAIN dist \ {v} /\ Done(r)
    BY <1>6, <1>7
  <2>2. CASE q = v
    BY <1>1, <1>3, <1>4, <2>1, <2>2 DEF DoneAreNearer, IsNearest
  <2>3. CASE q # v
    BY <1>1, <1>7, <2>1, <2>3 DEF DoneAreNearer
  <2> QED
    BY <2>2, <2>3
<1>14. ReachedFromDone'
  <2> SUFFICES ASSUME NEW r \in DOMAIN dist' \ {src'}
               PROVE  /\ dist'[r].prev \in DOMAIN dist'
                      /\ Done(dist[r].prev)' \/ (pc' = "relax" /\ dist'[r].prev = at')
                      /\ \E k \in 1 .. Degree(dist[r].prev)' : ReachedOver(dist[r].prev, k, r)'
    BY DEF ReachedFromDone
  <2>1. CASE r = v
    <3>1. ReachedOver(dist[r].prev, i, r)'
      <4>1. dist'[r].prev = at /\ dist'[at].cost = dist[at].cost
        BY <1>3, <1>5, <2>1
      <4>2. HasArc(a, i)' /\ EndOf(a, i)' = v /\ Length(a, i)' = Length(a, i)
        BY <1>2, <1>3, GraphFrame
      <4> QED
        BY <1>2, <2>1, <4>1, <4>2, GraphFrame DEF ReachedOver
    <3>2. Degree(dist[r].prev)' = Degree(at)
      BY <1>2, <2>1, GraphFrame
    <3> QED
      BY <1>2, <1>3, <2>1, <3>1, <3>2
  <2>2. CASE r # v
    <3>0. PICK p : p = dist[r].prev
      OBVIOUS
    <3>1. /\ r \in DOMAIN dist \ {src} /\ dist'[r] = dist[r] /\ p \in DOMAIN dist
          /\ Done(p) \/ p = at
      BY <1>1, <1>2, <2>2, <3>0 DEF ReachedFromDone
    <3>2. PICK k \in 1 .. Degree(p) : ReachedOver(p, k, r)
      BY <1>1, <3>1, <3>0 DEF ReachedFromDone
    <3>3. p # v /\ dist'[p] = dist[p]
      BY <1>5, <3>1
    <3>4. dist'[r].prev = p /\ (Done(p)' \/ p = at')
      BY <1>2, <1>7, <3>1, <3>3, <3>0
    <3>5. ReachedOver(p, k, r)'
      BY <1>2, <3>1, <3>2, <3>3, GraphFrame DEF ReachedOver
    <3>6. k \in 1 .. Degree(p)'
      BY <1>2, <3>2, GraphFrame
    <3> QED
      BY <1>2, <3>1, <3>4, <3>5, <3>6
  <2> QED
    BY <2>1, <2>2
<1>15. InProgress'
  <2>1. IsNearest(a)'
    <3>1. a \in DOMAIN dist' /\ ~Done(a)' /\ dist'[a].cost = dist[a].cost
      BY <1>1, <1>3, <1>5, <1>7 DEF IsNearest
    <3>2. \A q \in DOMAIN dist' : ~Done(q)' => dist'[a].cost <= dist'[q].cost
      BY <1>1, <1>4, <1>7, <3>1 DEF IsNearest
    <3> QED
      BY <1>2, <3>1, <3>2 DEF IsNearest
  <2>2. \A k \in 1 .. Degree(at) : k < i + 1 => LinkIsRelaxed(a, k)'
    <3> SUFFICES ASSUME NEW k \in 1 .. Degree(at), k < i + 1 PROVE LinkIsRelaxed(a, k)'
      OBVIOUS
    <3>1. k = i \/ k < i
      BY <1>3
    <3>2. CASE k < i
      BY <1>1, <1>3, <1>5, <1>9, <3>2 DEF InProgress
    <3> QED
      BY <1>10, <3>1, <3>2
  <2> QED
    BY <1>2, <2>1, <2>2, GraphFrame DEF InProgress
<1> QED
  BY <1>11, <1>12, <1>13, <1>14, <1>15 DEF Settled

(* The link at hand does not bring its remote router nearer.               *)
LEMMA SettledWhenKept ==
    ASSUME Typed, Settled, pc = "relax", Relaxing, HasMetric, Relaxed, ~wrapped, ~wrapped',
           EndOf(at, link) \in DOMAIN dist, dist' = dist,
           dist[EndOf(at, link)].cost <= dist[at].cost + Length(at, link)
    PROVE  Settled'
<1>1. /\ SourceIsZero /\ DoneAreRelaxed /\ DoneAreNearer /\ ReachedFromDone /\ InProgress
  BY DEF Settled, Running
<1>2. UNCHANGED <<ted, goal, src, pc, at, dist>> /\ link' = link + 1
  BY DEF Relaxed, callVars, tedVars
<1>3. link \in 1 .. Degree(at) /\ link \in Nat /\ LinkIsRelaxed(at, link)
  BY LinkAtHand DEF Degree, HasArc, HasMetric, LinkIsRelaxed, Typed, TypeOK
<1>4. \A r, k : /\ LinkIsRelaxed(r, k)' <=> LinkIsRelaxed(r, k)
                /\ \A q : ReachedOver(r, k, q)' <=> ReachedOver(r, k, q)
  BY <1>2, GraphFrame DEF LinkIsRelaxed, ReachedOver
<1>5. SourceIsZero' /\ DoneAreNearer'
  BY <1>1, <1>2 DEF SourceIsZero, DoneAreNearer, Done
<1>6. DoneAreRelaxed'
  BY <1>1, <1>2, <1>4, GraphFrame DEF DoneAreRelaxed, Done
<1>7. ReachedFromDone'
  BY <1>1, <1>2, <1>4, GraphFrame DEF ReachedFromDone, Done
<1>8. InProgress'
  <2>1. IsNearest(at)'
    BY <1>1, <1>2 DEF InProgress, IsNearest, Done
  <2>2. \A k \in 1 .. Degree(at) : k < link + 1 => LinkIsRelaxed(at, k)
    <3> SUFFICES ASSUME NEW k \in 1 .. Degree(at), k < link + 1 PROVE LinkIsRelaxed(at, k)
      OBVIOUS
    <3>1. k = link \/ k < link
      BY <1>3
    <3> QED
      BY <1>1, <1>3, <3>1 DEF InProgress
  <2> QED
    BY <1>2, <1>4, <2>1, <2>2, GraphFrame DEF InProgress
<1> QED
  BY <1>5, <1>6, <1>7, <1>8 DEF Settled

LEMMA SettledWhenRelaxing ==
    ASSUME Typed, Settled, RelaxKnown \/ RelaxNew
    PROVE  Settled'
<1> SUFFICES ASSUME ~wrapped' PROVE Settled'
  BY DEF Settled
<1>1. pc = "relax" /\ Relaxing /\ HasMetric /\ Relaxed
  BY DEF RelaxKnown, RelaxNew, Relaxing
<1>2. ~wrapped /\ Sum < UintSpace
  <2>1. wrapped' = (wrapped \/ Sum >= UintSpace)
    BY <1>1 DEF Relaxed
  <2>2. Sum \in Nat /\ UintSpace \in Nat
    BY <1>1, LinkAtHand, TEDAssumption
  <2> HIDE DEF Sum
  <2>3. ~wrapped /\ ~(Sum >= UintSpace)
    BY <2>1
  <2> QED
    BY <2>2, <2>3
<1>3. /\ Remote = EndOf(at, link) /\ at \in DOMAIN dist
      /\ Sum % UintSpace = dist[at].cost + Length(at, link)
      /\ dist[at].cost + Length(at, link) \in Nat
  BY <1>1, <1>2, LinkAtHand DEF Remote, EndOf, Length
<1> DEFINE v == EndOf(at, link)
           c == dist[at].cost + Length(at, link)
<1>4. CASE RelaxKnown /\ c < dist[v].cost
  <2>1. /\ v \in DOMAIN dist /\ DOMAIN dist' = DOMAIN dist
        /\ \A r \in DOMAIN dist :
              dist'[r] = IF r = v THEN [cost |-> c, prev |-> at, calculated |-> dist[r].calculated]
                         ELSE dist[r]
    BY <1>3, <1>4, RelaxKnownDist
  <2>2. dist[v].calculated \in BOOLEAN
    BY <2>1, CostTyped
  <2>3. /\ dist'[v].cost = c /\ dist'[v].prev = at
        /\ dist'[v].calculated = (v \in DOMAIN dist /\ dist[v].calculated)
    BY <2>1, <2>2
  <2> QED
    BY <1>1, <1>2, <1>4, <2>1, <2>3, SettledWhenNearer
<1>5. CASE RelaxKnown /\ ~(c < dist[v].cost)
  <2>1. v \in DOMAIN dist /\ dist' = dist
    BY <1>3, <1>5 DEF RelaxKnown
  <2>2. dist[v].cost <= c
    BY <1>3, <1>5, <2>1, CostTyped
  <2> QED
    BY <1>1, <1>2, <2>1, <2>2, SettledWhenKept
<1>6. CASE RelaxNew
  <2>1. /\ v \notin DOMAIN dist /\ DOMAIN dist' = DOMAIN dist \cup {v}
        /\ \A r \in DOMAIN dist' :
              dist'[r] = IF r = v THEN [cost |-> c, prev |-> at, calculated |-> FALSE]
                         ELSE dist[r]
    BY <1>3, <1>6, RelaxNewDist
  <2>2. /\ dist'[v].cost = c /\ dist'[v].prev = at /\ dist'[v].calculated = FALSE
        /\ \A r \in DOMAIN dist \ {v} : dist'[r] = dist[r]
    BY <2>1
  <2>3. dist'[v].calculated = (v \in DOMAIN dist /\ dist[v].calculated)
    BY <2>1, <2>2
  <2> QED
    BY <1>1, <1>2, <2>1, <2>2, <2>3, SettledWhenNearer
<1> QED
  BY <1>4, <1>5, <1>6

(* CostsAreOptimal is what Dijkstra's invariant says when the destination  *)
(* is the nearest open router.                                             *)
LEMMA SettledIsOptimal == Typed /\ Settled => CostsAreOptimal
<1> SUFFICES ASSUME Typed, Settled, pc = "back", ~wrapped
             PROVE  Tight /\ Feasible(Bound)
  BY DEF CostsAreOptimal
<1>1. /\ SourceIsZero /\ DoneAreRelaxed /\ DoneAreNearer /\ ReachedFromDone
      /\ IsNearest(Dst) /\ src \in DOMAIN dist /\ Dst \in DOMAIN dist
      /\ DOMAIN dist \subseteq Routers /\ TEDTypeOK /\ LinksPointIntoTED
  BY DEF Settled, Running, InProgress, Typed, TypeOK
<1>2. \A r \in DOMAIN dist : dist[r].cost \in Nat
  BY CostTyped
<1>3. Tight
  <2> SUFFICES ASSUME NEW r \in DOMAIN dist \ {src}
               PROVE  /\ dist[r].prev \in DOMAIN dist
                      /\ \E l \in Arcs(dist[r].prev) :
                            /\ RemoteOf(l) = r
                            /\ dist[r].cost = dist[dist[r].prev].cost + Cost(l)
    BY DEF Tight
  <2>1. /\ dist[r].prev \in DOMAIN dist
        /\ \E k \in 1 .. Degree(dist[r].prev) : ReachedOver(dist[r].prev, k, r)
    BY <1>1 DEF ReachedFromDone
  <2> DEFINE p == dist[r].prev
  <2>2. PICK k \in 1 .. Degree(p) : ReachedOver(p, k, r)
    BY <2>1
  <2>3. LinksOf(p)[k] \in Arcs(p)
    <3>1. LinksOf(p) \in Seq(LsLinks)
      BY <1>1, <2>1, RouterNode
    <3>2. LinksOf(p)[k] \in Range(LinksOf(p))
      BY <3>1 DEF Range, Degree
    <3> QED
      BY <2>2, <3>2 DEF Arcs, LinksOf, ReachedOver, HasArc
  <2> QED
    BY <2>1, <2>2, <2>3 DEF ReachedOver, EndOf, Length
<1>4. \A r \in Routers : /\ Bound[r] <= dist[Dst].cost /\ Bound[r] \in Nat
                         /\ r \in DOMAIN dist => Bound[r] <= dist[r].cost
  BY <1>1, <1>2 DEF Bound
<1>5. Bound[src] = 0
  <2>1. dist[src].cost = 0 /\ dist[Dst].cost \in Nat
    BY <1>1, <1>2 DEF SourceIsZero
  <2>2. src \in Routers
    BY <1>1
  <2> QED
    BY <1>1, <2>1, <2>2 DEF Bound
<1>6. ASSUME NEW r \in Routers, NEW l \in Arcs(r)
      PROVE  Bound[RemoteOf(l)] <= Bound[r] + Cost(l)
  <2>1. LinksOf(r) \in Seq(LsLinks)
    BY <1>1, RouterNode
  <2>2. PICK k \in 1 .. Degree(r) : l = LinksOf(r)[k] /\ HasArc(r, k)
    BY <1>6, <2>1 DEF Arcs, LinksOf, HasArc, Range, Degree
  <2>3. Cost(l) \in Nat /\ RemoteOf(l) \in Routers
    BY <1>1, <2>2, RouterNode, TEDAssumption DEF HasArc, Cost, Uint, Degree
  <2>4. PICK q \in Routers : q = RemoteOf(l)
    BY <2>3
  <2>5. CASE Bound[r] = dist[Dst].cost
    <3>1. Bound[q] <= Bound[r] + Cost(l)
      BY <1>1, <1>2, <1>4, <2>3, <2>5
    <3> QED
      BY <2>4, <3>1
  <2>6. CASE Bound[r] # dist[Dst].cost
    <3>1. r \in DOMAIN dist /\ Bound[r] = dist[r].cost /\ dist[r].cost < dist[Dst].cost
      BY <2>6 DEF Bound
    <3>2. Done(r)
      BY <1>1, <1>2, <3>1 DEF IsNearest
    <3>3. LinkIsRelaxed(r, k)
      BY <1>1, <2>2, <3>1, <3>2 DEF DoneAreRelaxed
    <3>4. q \in DOMAIN dist /\ dist[q].cost <= dist[r].cost + Cost(l)
      BY <2>2, <2>4, <3>3 DEF LinkIsRelaxed, EndOf, Length
    <3>5. Bound[q] <= Bound[r] + Cost(l)
      BY <1>2, <1>4, <2>3, <3>1, <3>4
    <3> QED
      BY <2>4, <3>5
  <2> QED
    BY <2>5, <2>6
<1> QED
  BY <1>3, <1>5, <1>6 DEF Feasible

LEMMA SettledStep == Typed /\ Settled /\ [Next]_vars => Settled'
<1> SUFFICES ASSUME Typed, Settled, [Next]_vars PROVE Settled'
  OBVIOUS
<1>1. CASE UpdateTED /\ UNCHANGED <<pc, spfVars, callVars, path>>
  <2>1. applied < Len(listing)
    BY <1>1 DEF UpdateTED, UpdateNode, UpdateLink, UpdatePrefix, UpdateSRv6SID,
                IgnoreForeign, Applying
  <2>2. Len(listing) \in Nat
    BY TEDAssumption DEF Typed
  <2>3. pc = "idle"
    BY <2>1, <2>2 DEF Typed, TypeOK, Published
  <2> QED
    BY <1>1, <2>3, SettledElsewhere DEF Running
<1>2. CASE \E from, to \in Routers, m \in Asked :
              (\E w \in Waypoints : Request(from, to, w, m)) \/ Recompute(from, to, m)
  BY <1>2, SettledElsewhere DEF Request, Recompute, Submit, Running
<1>3. CASE Compute
  <2>1. CASE \/ SourceWithoutSID \/ NextNodeNotFound \/ LinkWithoutMetric
             \/ RemoteWithoutSID \/ WaypointWithoutSRv6 \/ Found \/ NextSection
    BY <2>1, SettledElsewhere
       DEF SourceWithoutSID, NextNodeNotFound, LinkWithoutMetric, RemoteWithoutSID,
           WaypointWithoutSRv6, Fail, Found, NextSection, Running
  <2> QED
    BY <1>3, <2>1, SettledAtStart, SettledWhileMoving, SettledWhenCalculated,
       SettledWhenRelaxing DEF Compute
<1>4. CASE UNCHANGED vars
  BY <1>4, SettledWhileMoving
<1> QED
  BY <1>1, <1>2, <1>3, <1>4 DEF Next

LEMMA InitSettled == Init => Settled
BY DEF Init, Settled, Running

(* When the loop takes the destination (cspf.go 129-143), the routers      *)
(* before it add up to its cost and no path from the source costs less, on *)
(* every TED, with every order of nodes of equal cost, unless a sum did    *)
(* not fit into 32 bits.                                                   *)
THEOREM CostIsOptimal == Spec => []CostsAreOptimal
<1>1. Init => IInv
  BY InitTyped, InitSettled DEF IInv
<1>2. IInv /\ [Next]_vars => IInv'
  BY TypedStep, SettledStep DEF IInv
<1>3. IInv => CostsAreOptimal
  BY SettledIsOptimal DEF IInv
<1> QED
  BY <1>1, <1>2, <1>3, PTL DEF Spec

------------------------------------------------------------------------------
(* Distances over paths of so many links *)

(* What DistanceWithin starts from and what one more round makes of the    *)
(* distances.                                                              *)
Ways(before, r) ==
    UNION {{before[q] + Cost(l) : l \in {a \in Arcs(q) : RemoteOf(a) = r}} : q \in Routers}
Round(before) == [r \in Routers |-> Min({before[r]} \cup Ways(before, r))]
Start == [r \in Routers |-> IF r = src THEN 0 ELSE Infinity]

(* The arcs of a router are its links that have the metric.                *)
LEMMA ArcOf ==
    ASSUME TEDTypeOK, LinksPointIntoTED, NEW q \in Routers
    PROVE  /\ \A l \in Arcs(q) : Cost(l) \in Nat /\ RemoteOf(l) \in Routers
           /\ \A l \in Arcs(q) : \E k \in 1 .. Degree(q) : l = LinksOf(q)[k] /\ HasArc(q, k)
           /\ \A k \in 1 .. Degree(q) :
                 HasArc(q, k) => /\ LinksOf(q)[k] \in Arcs(q)
                                 /\ Length(q, k) \in Nat /\ EndOf(q, k) \in Routers
<1>1. LinksOf(q) \in Seq(LsLinks)
  BY RouterNode
<1>2. \A l \in Arcs(q) : \E k \in 1 .. Degree(q) : l = LinksOf(q)[k] /\ HasArc(q, k)
  BY <1>1 DEF Arcs, LinksOf, HasArc, Range, Degree
<1>3. \A k \in 1 .. Degree(q) :
         HasArc(q, k) => Length(q, k) \in Nat /\ EndOf(q, k) \in Routers
  BY RouterNode, TEDAssumption DEF HasArc, Cost, Uint, Degree, Length, EndOf
<1>4. \A k \in 1 .. Degree(q) : HasArc(q, k) => LinksOf(q)[k] \in Arcs(q)
  BY <1>1 DEF Range, Degree, Arcs, LinksOf, HasArc
<1> QED
  BY <1>2, <1>3, <1>4 DEF Length, EndOf

LEMMA RoundTyped ==
    ASSUME TEDTypeOK, LinksPointIntoTED, NEW b \in [Routers -> Nat]
    PROVE  /\ Round(b) \in [Routers -> Nat]
           /\ \A r \in Routers :
                 /\ Round(b)[r] <= b[r]
                 /\ \A q \in Routers : \A l \in Arcs(q) :
                       RemoteOf(l) = r => Round(b)[r] <= b[q] + Cost(l)
                 /\ \/ Round(b)[r] = b[r]
                    \/ \E q \in Routers : \E l \in Arcs(q) :
                          RemoteOf(l) = r /\ Round(b)[r] = b[q] + Cost(l)
<1>1. ASSUME NEW r \in Routers
      PROVE  /\ Round(b)[r] \in {b[r]} \cup Ways(b, r)
             /\ Round(b)[r] \in Nat
             /\ \A n \in {b[r]} \cup Ways(b, r) : Round(b)[r] <= n
  <2>1. Ways(b, r) \in SUBSET Nat
    BY ArcOf DEF Ways
  <2> DEFINE M == {b[r]} \cup Ways(b, r)
  <2>2. M \in SUBSET Nat /\ M # {}
    BY <2>1
  <2>3. Round(b)[r] = Min(M)
    BY DEF Round
  <2> HIDE DEF M
  <2>4. Min(M) \in M /\ \A n \in M : Min(M) <= n
    BY <2>2, MinIsLeast
  <2> QED
    BY <2>2, <2>3, <2>4 DEF M
<1>2. Round(b) \in [Routers -> Nat]
  BY <1>1 DEF Round
<1>3. \A r \in Routers : Round(b)[r] <= b[r]
  BY <1>1
<1>4. ASSUME NEW r \in Routers, NEW q \in Routers, NEW l \in Arcs(q), RemoteOf(l) = r
      PROVE  Round(b)[r] <= b[q] + Cost(l)
  <2>1. b[q] + Cost(l) \in Ways(b, r)
    BY <1>4 DEF Ways
  <2> QED
    BY <1>1, <2>1
<1>5. ASSUME NEW r \in Routers
      PROVE  \/ Round(b)[r] = b[r]
             \/ \E q \in Routers : \E l \in Arcs(q) :
                   RemoteOf(l) = r /\ Round(b)[r] = b[q] + Cost(l)
  BY <1>1 DEF Ways
<1> QED
  BY <1>2, <1>3, <1>4, <1>5

LEMMA DistanceRounds ==
    ASSUME TEDTypeOK, LinksPointIntoTED
    PROVE  /\ DistanceWithin[0] = Start
           /\ \A k \in Nat : /\ DistanceWithin[k] \in [Routers -> Nat]
                             /\ DistanceWithin[k + 1] = Round(DistanceWithin[k])
<1> DEFINE V == [Routers -> Nat]
           next == [b \in V |-> Round(b)]
           Eq(f) == f = [k \in Nat |-> IF k = 0 THEN Start ELSE Round(f[k - 1])]
<1>1. Start \in V
  BY RoutersFinite, TEDAssumption DEF Start, Infinity
<1>2. next \in [V -> V]
  BY RoundTyped
<1>3. PICK f \in [Nat -> V] : f[0] = Start /\ \A n \in Nat : f[n + 1] = next[f[n]]
  <2> HIDE DEF next, V
  <2> QED
    BY <1>1, <1>2, Iteration
<1>4. Eq(f)
  <2>1. \A k \in Nat : f[k] = IF k = 0 THEN Start ELSE Round(f[k - 1])
    <3> SUFFICES ASSUME NEW k \in Nat, k # 0 PROVE f[k] = Round(f[k - 1])
      BY <1>3
    <3>1. k - 1 \in Nat /\ (k - 1) + 1 = k
      OBVIOUS
    <3>2. f[k - 1] \in V /\ f[k] = next[f[k - 1]]
      BY <1>3, <3>1
    <3> QED
      BY <3>2
  <2> QED
    BY <1>3, <2>1
<1>5. DistanceWithin = CHOOSE g : Eq(g)
  BY DEF DistanceWithin, Round, Ways, Start
<1> HIDE DEF Eq
<1>6. Eq(DistanceWithin)
  BY <1>4, <1>5
<1>7. PICK D : D = DistanceWithin
  OBVIOUS
<1>8. D = [k \in Nat |-> IF k = 0 THEN Start ELSE Round(D[k - 1])]
  BY <1>6, <1>7 DEF Eq
<1>9. D[0] = Start /\ \A k \in Nat : D[k + 1] = Round(D[k])
  BY <1>8
<1> DEFINE S == {k \in Nat : D[k] \in V}
<1>10. 0 \in S
  BY <1>1, <1>9
<1>11. \A k \in Nat : k \in S => k + 1 \in S
  BY <1>9, RoundTyped
<1>12. \A k \in Nat : k \in S
  <2> HIDE DEF S
  <2> QED
    BY <1>10, <1>11, InductionOverSet
<1> QED
  BY <1>7, <1>9, <1>12

(* No step changes what a path costs while a section is computed.          *)
LEMMA DistanceFrame ==
    ASSUME UNCHANGED <<ted, goal, src>>
    PROVE  Distances' = Distances /\ Infinity' = Infinity
<1>1. ted' = ted /\ goal' = goal /\ src' = src
  OBVIOUS
<1>2. DistanceWithin' = DistanceWithin
  BY <1>1 DEF DistanceWithin, Arcs, Cost, Node, RemoteOf, Infinity, Routers
<1> QED
  BY <1>1, <1>2 DEF Distances, Infinity, Routers

LEMMA InfinityIsFar ==
    ASSUME TEDTypeOK, LinksPointIntoTED
    PROVE  Infinity \in Nat /\ Infinity >= UintSpace
<1>1. Cardinality(Routers) \in Nat /\ UintSpace \in Nat
  BY RoutersFinite, TEDAssumption
<1>2. \A n, u \in Nat : u * (n + 1) \in Nat /\ u * (n + 1) >= u
  <2> SUFFICES ASSUME NEW n \in Nat, NEW u \in Nat
               PROVE  u * (n + 1) \in Nat /\ u * (n + 1) >= u
    OBVIOUS
  <2>1. u * n \in Nat /\ u * (n + 1) = u * n + u
    OBVIOUS
  <2> QED
    BY <2>1
<1> QED
  BY <1>1, <1>2 DEF Infinity

(* A feasible bound is below the distances of every round.                 *)
LEMMA BoundIsBelow ==
    ASSUME TEDTypeOK, LinksPointIntoTED, src \in Routers,
           NEW b \in [Routers -> Nat], Feasible(b), \A r \in Routers : b[r] <= Infinity
    PROVE  \A k \in Nat : \A r \in Routers : b[r] <= DistanceWithin[k][r]
<1> DEFINE S == {k \in Nat : \A r \in Routers : b[r] <= DistanceWithin[k][r]}
<1>1. 0 \in S
  <2>1. b[src] = 0
    BY DEF Feasible
  <2> QED
    BY <2>1, DistanceRounds, InfinityIsFar DEF Start
<1>2. ASSUME NEW k \in Nat, k \in S PROVE k + 1 \in S
  <2>1. PICK d \in [Routers -> Nat] :
           d = DistanceWithin[k] /\ DistanceWithin[k + 1] = Round(d)
    BY DistanceRounds
  <2> SUFFICES ASSUME NEW r \in Routers PROVE b[r] <= Round(d)[r]
    BY <2>1
  <2>2. \A q \in Routers : b[q] <= d[q]
    BY <1>2, <2>1
  <2>3. CASE Round(d)[r] = d[r]
    BY <2>2, <2>3
  <2>4. ASSUME NEW q \in Routers, NEW l \in Arcs(q), RemoteOf(l) = r,
               Round(d)[r] = d[q] + Cost(l)
        PROVE  b[r] <= Round(d)[r]
    <3>1. b[r] <= b[q] + Cost(l)
      BY <2>4 DEF Feasible
    <3>2. b[q] \in Nat /\ d[q] \in Nat /\ b[r] \in Nat /\ Cost(l) \in Nat
      BY ArcOf
    <3> QED
      BY <2>2, <2>4, <3>1, <3>2
  <2> QED
    BY <2>3, <2>4, RoundTyped
<1> HIDE DEF S
<1>3. \A k \in Nat : k \in S
  BY <1>1, <1>2, InductionOverSet
<1> QED
  BY <1>3 DEF S

(* Distances only come down from round to round.                           *)
LEMMA RoundsDescend ==
    ASSUME NEW V, NEW d \in [Nat -> [V -> Nat]],
           \A k \in Nat : \A r \in V : d[k + 1][r] <= d[k][r]
    PROVE  \A k, n \in Nat : \A r \in V : k <= n => d[n][r] <= d[k][r]
<1> SUFFICES ASSUME NEW k \in Nat
             PROVE  \A m \in Nat : \A r \in V : d[k + m][r] <= d[k][r]
  <2>1. \A k, n \in Nat : k <= n => n - k \in Nat /\ k + (n - k) = n
    OBVIOUS
  <2> QED
    BY <2>1
<1> DEFINE S == {m \in Nat : \A r \in V : d[k + m][r] <= d[k][r]}
<1>1. 0 \in S
  <2>1. \A r \in V : d[k][r] \in Nat
    OBVIOUS
  <2> QED
    BY <2>1
<1>2. ASSUME NEW m \in Nat, m \in S PROVE m + 1 \in S
  <2> SUFFICES ASSUME NEW r \in V PROVE d[k + (m + 1)][r] <= d[k][r]
    OBVIOUS
  <2>1. k + m \in Nat /\ k + (m + 1) = (k + m) + 1
    OBVIOUS
  <2>2. d[(k + m) + 1][r] <= d[k + m][r] /\ d[k + m][r] <= d[k][r]
    BY <1>2, <2>1
  <2>3. d[(k + m) + 1][r] \in Nat /\ d[k + m][r] \in Nat /\ d[k][r] \in Nat
    BY <2>1
  <2> QED
    BY <2>1, <2>2, <2>3
<1> HIDE DEF S
<1>3. \A m \in Nat : m \in S
  BY <1>1, <1>2, InductionOverSet
<1> QED
  BY <1>3 DEF S

------------------------------------------------------------------------------
(* How far the search has come, counted in links *)

(* All that the search needs of DistanceWithin, in d: it never grows and   *)
(* each round passes over every link.                                      *)
Rounds(d) ==
    /\ d \in [Nat -> [Routers -> Nat]]
    /\ d[0][src] = 0
    /\ \A k \in Nat : \A q \in Routers :
          /\ d[k + 1][q] <= d[k][q]
          /\ \A i \in 1 .. Degree(q) :
                HasArc(q, i) => d[k + 1][EndOf(q, i)] <= d[k][q] + Length(q, i)

DoneRouters == {r \in DOMAIN dist : Done(r)}

(* A router is reached over no more links than routers are done, or one    *)
(* more when the links of another are looked at.                           *)
LinksTo(r) ==
    IF pc = "relax" /\ r # at THEN Cardinality(DoneRouters) + 1
    ELSE Cardinality(DoneRouters)

(* No known cost is below the distance over that many links: with          *)
(* the destination open there are fewer than routers.                      *)
WithinReach ==
    Running /\ ~wrapped =>
        \A d : Rounds(d) => \A r \in DOMAIN dist : d[LinksTo(r)][r] <= dist[r].cost

(* nextNode returns the destination only to end the section.               *)
DestinationIsOpen ==
    Running => /\ Dst \notin DoneRouters
               /\ pc = "relax" => at # Dst

LEMMA DistancesAreRounds ==
    ASSUME TEDTypeOK, LinksPointIntoTED, src \in Routers
    PROVE  \E d : Rounds(d) /\ \A k \in Nat : d[k] = DistanceWithin[k]
<1> DEFINE d == [k \in Nat |-> DistanceWithin[k]]
<1>1. d \in [Nat -> [Routers -> Nat]] /\ d[0][src] = 0
  BY DistanceRounds DEF Start
<1>2. ASSUME NEW k \in Nat, NEW q \in Routers
      PROVE  /\ d[k + 1][q] <= d[k][q]
             /\ \A i \in 1 .. Degree(q) :
                   HasArc(q, i) => d[k + 1][EndOf(q, i)] <= d[k][q] + Length(q, i)
  <2>1. PICK b \in [Routers -> Nat] : b = d[k] /\ d[k + 1] = Round(b)
    <3>1. k + 1 \in Nat /\ d[k] = DistanceWithin[k] /\ d[k + 1] = DistanceWithin[k + 1]
      OBVIOUS
    <3> HIDE DEF d
    <3> QED
      BY <3>1, DistanceRounds
  <2>2. Round(b)[q] <= b[q]
    BY RoundTyped
  <2>3. ASSUME NEW i \in 1 .. Degree(q), HasArc(q, i)
        PROVE  Round(b)[EndOf(q, i)] <= b[q] + Length(q, i)
    <3>1. LinksOf(q)[i] \in Arcs(q) /\ EndOf(q, i) \in Routers
      BY <2>3, ArcOf
    <3> QED
      BY <3>1, RoundTyped DEF EndOf, Length
  <2> HIDE DEF d
  <2> QED
    BY <2>1, <2>2, <2>3
<1>3. Rounds(d)
  BY <1>1, <1>2 DEF Rounds
<1> QED
  BY <1>3

(* A router that is not done leaves its mark on the count.                 *)
LEMMA DoneCount ==
    ASSUME Typed
    PROVE  /\ IsFiniteSet(DoneRouters) /\ Cardinality(DoneRouters) \in Nat
           /\ Cardinality(Routers) \in Nat
           /\ \A q \in DOMAIN dist :
                 ~Done(q) => Cardinality(DoneRouters) <= Cardinality(Routers) - 1
<1>1. IsFiniteSet(Routers) /\ DoneRouters \subseteq Routers /\ DOMAIN dist \subseteq Routers
  BY RoutersFinite DEF Typed, TypeOK, DoneRouters
<1>2. /\ IsFiniteSet(DoneRouters) /\ Cardinality(DoneRouters) \in Nat
      /\ Cardinality(Routers) \in Nat
  BY <1>1, FS_Subset, FS_CardinalityType
<1>3. ASSUME NEW q \in DOMAIN dist, ~Done(q)
      PROVE  Cardinality(DoneRouters) <= Cardinality(Routers) - 1
  <2>1. DoneRouters \subseteq Routers /\ DoneRouters # Routers
    BY <1>1, <1>3 DEF DoneRouters
  <2>2. Cardinality(DoneRouters) < Cardinality(Routers)
    <3>1. /\ Cardinality(DoneRouters) <= Cardinality(Routers)
          /\ Cardinality(Routers) = Cardinality(DoneRouters) => Routers = DoneRouters
      BY <1>1, FS_Subset, Zenon
    <3> QED
      BY <1>2, <2>1, <3>1
  <2> QED
    BY <1>2, <2>2
<1> QED
  BY <1>2, <1>3

------------------------------------------------------------------------------
(* How far routers are from the source, step by step *)

(* buildSegmentListFromPath follows prevNode from the destination; what it *)
(* passes is no farther than the destination.                              *)
PathLeadsBack ==
    pc = "back" =>
        /\ path[Len(path)] = Dst
        /\ \A i \in 1 .. Len(path) - 1 : path[i + 1] # src /\ path[i] = dist[path[i + 1]].prev
        /\ ~wrapped => \A i \in 1 .. Len(path) : dist[path[i]].cost <= dist[Dst].cost

(* What relaxing a link does to the costs.                                 *)
LEMMA RelaxEffect ==
    ASSUME Typed, RelaxKnown \/ RelaxNew
    PROVE  /\ pc = "relax" /\ UNCHANGED <<ted, goal, section, src, pc, at>>
           /\ at \in DOMAIN dist /\ link \in 1 .. Degree(at) /\ HasArc(at, link)
           /\ DoneRouters' = DoneRouters
           /\ ~wrapped' =>
                 /\ ~wrapped
                 /\ \A r \in DOMAIN dist' :
                       \/ r \in DOMAIN dist /\ dist'[r] = dist[r]
                       \/ /\ r = EndOf(at, link)
                          /\ dist'[r].cost = dist[at].cost + Length(at, link)
                          /\ r \in DOMAIN dist => dist'[r].cost < dist[r].cost
<1>1. pc = "relax" /\ Relaxing /\ HasMetric /\ Relaxed
  BY DEF RelaxKnown, RelaxNew, Relaxing
<1>2. UNCHANGED <<ted, goal, section, src, pc, at>>
  BY <1>1 DEF Relaxed, callVars, tedVars
<1>3. at \in DOMAIN dist /\ link \in 1 .. Degree(at) /\ HasArc(at, link)
  BY <1>1, LinkAtHand DEF Degree, HasArc, HasMetric
<1>4. DoneRouters' = DoneRouters
  <2>1. CASE RelaxKnown
    <3>1. DOMAIN dist' = DOMAIN dist /\ \A r \in DOMAIN dist : dist'[r].calculated = dist[r].calculated
      BY <2>1, RelaxKnownDist
    <3> QED
      BY <3>1 DEF DoneRouters, Done
  <2>2. CASE RelaxNew
    <3>1. /\ Remote \notin DOMAIN dist /\ DOMAIN dist' = DOMAIN dist \cup {Remote}
          /\ dist'[Remote].calculated = FALSE
          /\ \A r \in DOMAIN dist : dist'[r] = dist[r]
      BY <2>2, RelaxNewDist
    <3> HIDE DEF Remote
    <3> QED
      BY <3>1 DEF DoneRouters, Done
  <2> QED
    BY <2>1, <2>2
<1>5. ASSUME ~wrapped'
      PROVE  /\ ~wrapped
             /\ \A r \in DOMAIN dist' :
                   \/ r \in DOMAIN dist /\ dist'[r] = dist[r]
                   \/ /\ r = EndOf(at, link)
                      /\ dist'[r].cost = dist[at].cost + Length(at, link)
                      /\ r \in DOMAIN dist => dist'[r].cost < dist[r].cost
  <2>1. ~wrapped /\ ~(Sum >= UintSpace)
    <3>1. wrapped' = (wrapped \/ Sum >= UintSpace)
      BY <1>1 DEF Relaxed
    <3> HIDE DEF Sum
    <3> QED
      BY <1>5, <3>1
  <2>2. Sum < UintSpace
    <3>1. Sum \in Nat /\ UintSpace \in Nat
      BY <1>1, LinkAtHand, TEDAssumption
    <3> HIDE DEF Sum
    <3> QED
      BY <2>1, <3>1
  <2>3. /\ Remote = EndOf(at, link)
        /\ Sum % UintSpace = dist[at].cost + Length(at, link)
    BY <1>1, <2>2, LinkAtHand DEF Remote, EndOf, Length
  <2> DEFINE v == EndOf(at, link)
             c == dist[at].cost + Length(at, link)
  <2>4. CASE RelaxKnown
    <3>1. /\ DOMAIN dist' = DOMAIN dist
          /\ \A r \in DOMAIN dist :
                dist'[r] = IF r = v /\ c < dist[v].cost
                           THEN [cost |-> c, prev |-> at, calculated |-> dist[r].calculated]
                           ELSE dist[r]
      BY <2>3, <2>4, RelaxKnownDist
    <3> HIDE DEF v, c
    <3>2. ASSUME NEW r \in DOMAIN dist
          PROVE  \/ dist'[r] = dist[r]
                 \/ r = v /\ dist'[r].cost = c /\ dist'[r].cost < dist[r].cost
      BY <3>1
    <3> QED
      BY <2>1, <3>1, <3>2 DEF v, c
  <2>5. CASE RelaxNew
    <3>1. /\ v \notin DOMAIN dist /\ DOMAIN dist' = DOMAIN dist \cup {v}
          /\ \A r \in DOMAIN dist' :
                dist'[r] = IF r = v THEN [cost |-> c, prev |-> at, calculated |-> FALSE]
                           ELSE dist[r]
      BY <2>3, <2>5, RelaxNewDist
    <3> HIDE DEF v, c
    <3>2. ASSUME NEW r \in DOMAIN dist'
          PROVE  \/ r \in DOMAIN dist /\ dist'[r] = dist[r]
                 \/ r = v /\ dist'[r].cost = c /\ r \notin DOMAIN dist
      BY <3>1
    <3> QED
      BY <2>1, <3>2 DEF v, c
  <2> QED
    BY <2>4, <2>5
<1> QED
  BY <1>1, <1>2, <1>3, <1>4, <1>5

(* Steps of the loop that change no cost.                                  *)
LEMMA MoveEffect ==
    ASSUME Typed,
           Arrive \/ StepBack \/ (\E r \in DOMAIN dist : Select(r)) \/ UNCHANGED vars
    PROVE  /\ UNCHANGED <<ted, goal, section, src, dist, wrapped>>
           /\ Running' <=> Running
           /\ Dst' = Dst /\ DoneRouters' = DoneRouters
<1>1. UNCHANGED <<ted, goal, section, src, dist, wrapped>>
  BY DEF Arrive, StepBack, Select, vars, spfVars, callVars, tedVars
<1>2. Running' <=> Running
  BY DEF Running, Arrive, StepBack, Select, vars
<1> QED
  BY <1>1, <1>2 DEF Dst, Hop, DoneRouters, Done

LEMMA CalculatedEffect ==
    ASSUME Typed, Calculated
    PROVE  /\ pc = "relax" /\ pc' = "select" /\ at \in DOMAIN dist
           /\ UNCHANGED <<ted, goal, section, src, wrapped>>
           /\ DOMAIN dist' = DOMAIN dist
           /\ \A r \in DOMAIN dist : dist'[r].cost = dist[r].cost /\ dist'[r].prev = dist[r].prev
           /\ DoneRouters' = DoneRouters \cup {at}
<1>1. /\ pc = "relax" /\ pc' = "select" /\ at \in DOMAIN dist
      /\ dist' = [dist EXCEPT ![at].calculated = TRUE]
      /\ UNCHANGED <<ted, goal, section, src, at, wrapped>>
  BY DEF Calculated, callVars, tedVars, Typed, TypeOK
<1>2. dist \in [DOMAIN dist -> [cost : Uint, prev : Names, calculated : BOOLEAN]]
  BY DEF Typed, TypeOK
<1>3. /\ DOMAIN dist' = DOMAIN dist
      /\ \A r \in DOMAIN dist : /\ dist'[r].cost = dist[r].cost
                                /\ dist'[r].prev = dist[r].prev
                                /\ dist'[r].calculated <=> (dist[r].calculated \/ r = at)
  BY <1>1, <1>2
<1>4. DoneRouters' = DoneRouters \cup {at}
  BY <1>1, <1>3 DEF DoneRouters, Done
<1> QED
  BY <1>1, <1>3, <1>4

LEMMA StartEffect ==
    ASSUME Typed, InitNodeMap
    PROVE  /\ pc' = "select" /\ src' = src
           /\ DOMAIN dist' = {src} /\ dist'[src].cost = 0
           /\ DoneRouters' = {}
<1>1. /\ pc' = "select" /\ src' = src
      /\ dist' = [r \in {src} |-> [cost |-> 0, prev |-> "", calculated |-> FALSE]]
  BY DEF InitNodeMap, callVars
<1>2. DOMAIN dist' = {src} /\ dist'[src].cost = 0 /\ dist'[src].calculated = FALSE
  BY <1>1
<1> QED
  BY <1>1, <1>2 DEF DoneRouters, Done

(* Steps that are not part of the loop.                                    *)
LEMMA StepsOfLoop ==
    ASSUME Typed, [Next]_vars
    PROVE  \/ ~Running'
           \/ InitNodeMap \/ Calculated \/ RelaxKnown \/ RelaxNew
           \/ Arrive \/ StepBack \/ (\E r \in DOMAIN dist : Select(r)) \/ UNCHANGED vars
<1>1. CASE UpdateTED /\ UNCHANGED <<pc, spfVars, callVars, path>>
  <2>1. applied < Len(listing)
    BY <1>1 DEF UpdateTED, UpdateNode, UpdateLink, UpdatePrefix, UpdateSRv6SID,
                IgnoreForeign, Applying
  <2>2. Len(listing) \in Nat
    BY TEDAssumption DEF Typed
  <2>3. pc = "idle"
    BY <2>1, <2>2 DEF Typed, TypeOK, Published
  <2> QED
    BY <1>1, <2>3 DEF Running
<1>2. CASE \E from, to \in Routers, m \in Asked :
              (\E w \in Waypoints : Request(from, to, w, m)) \/ Recompute(from, to, m)
  BY <1>2 DEF Request, Recompute, Submit, Running
<1>3. CASE Compute
  <2>1. CASE \/ SourceWithoutSID \/ NextNodeNotFound \/ LinkWithoutMetric
             \/ RemoteWithoutSID \/ WaypointWithoutSRv6 \/ Found \/ NextSection
    BY <2>1 DEF SourceWithoutSID, NextNodeNotFound, LinkWithoutMetric, RemoteWithoutSID,
                WaypointWithoutSRv6, Fail, Found, NextSection, Running
  <2> QED
    BY <1>3, <2>1 DEF Compute
<1>4. CASE UNCHANGED vars
  BY <1>4
<1> QED
  BY <1>1, <1>2, <1>3, <1>4 DEF Next

LEMMA OpenStep ==
    ASSUME Typed, DestinationIsOpen, [Next]_vars
    PROVE  DestinationIsOpen'
<1> SUFFICES ASSUME Running'
             PROVE  Dst' \notin DoneRouters' /\ (pc' = "relax" => at' # Dst')
  BY DEF DestinationIsOpen
<1>1. CASE InitNodeMap
  BY <1>1, StartEffect
<1>2. CASE Calculated
  <2>1. Dst' = Dst /\ Running
    BY <1>2, CalculatedEffect DEF Dst, Hop, Running
  <2> QED
    BY <1>2, <2>1, CalculatedEffect DEF DestinationIsOpen
<1>3. CASE RelaxKnown \/ RelaxNew
  <2>1. Dst' = Dst /\ Running
    BY <1>3, RelaxEffect DEF Dst, Hop, Running
  <2> QED
    BY <1>3, <2>1, RelaxEffect DEF DestinationIsOpen
<1>4. CASE Arrive \/ StepBack \/ (\E r \in DOMAIN dist : Select(r)) \/ UNCHANGED vars
  <2>1. Running /\ Dst' = Dst /\ DoneRouters' = DoneRouters
    BY <1>4, MoveEffect
  <2>2. pc' = "relax" => at' # Dst
    BY <1>4, <2>1 DEF Arrive, StepBack, Select, vars, spfVars, DestinationIsOpen
  <2> QED
    BY <2>1, <2>2 DEF DestinationIsOpen
<1> QED
  BY <1>1, <1>2, <1>3, <1>4, StepsOfLoop

LEMMA RoundsFrame ==
    ASSUME UNCHANGED <<ted, goal, src>>, NEW d, Rounds(d)'
    PROVE  Rounds(d)
<1>1. Routers' = Routers
  BY DEF Routers
<1> QED
  BY <1>1, GraphFrame DEF Rounds

LEMMA ReachStep ==
    ASSUME Typed, Settled, WithinReach, [Next]_vars
    PROVE  WithinReach'
<1> SUFFICES ASSUME Running', ~wrapped', NEW d, Rounds(d)', NEW r \in DOMAIN dist'
             PROVE  d[LinksTo(r)'][r] <= dist'[r].cost
  BY DEF WithinReach
<1>1. CASE InitNodeMap
  <2>1. r = src /\ dist'[r].cost = 0 /\ d[0][src] = 0
    BY <1>1, StartEffect DEF Rounds
  <2>2. LinksTo(r)' = 0
    BY <1>1, StartEffect, FS_EmptySet DEF LinksTo
  <2> QED
    BY <2>1, <2>2
<1>2. ASSUME Running, UNCHANGED <<ted, goal, src>>, ~wrapped
      PROVE  /\ Rounds(d)
             /\ \A q \in DOMAIN dist : d[LinksTo(q)][q] <= dist[q].cost
             /\ \A k \in Nat : \A q \in DOMAIN dist :
                   d[k][q] \in Nat /\ dist[q].cost \in Nat /\ d[k + 1][q] <= d[k][q]
             /\ Cardinality(DoneRouters) \in Nat
  <2>1. Rounds(d)
    BY <1>2, RoundsFrame
  <2>2. DOMAIN dist \subseteq Routers /\ d \in [Nat -> [Routers -> Nat]]
    BY <2>1 DEF Rounds, Typed, TypeOK
  <2> QED
    BY <1>2, <2>1, <2>2, CostTyped, DoneCount DEF WithinReach, Rounds
<1>3. CASE Calculated
  <2>1. Running /\ UNCHANGED <<ted, goal, src>> /\ ~wrapped
    BY <1>3, CalculatedEffect DEF Running
  <2>2. /\ r \in DOMAIN dist /\ dist'[r].cost = dist[r].cost
        /\ DoneRouters' = DoneRouters \cup {at} /\ pc = "relax" /\ pc' = "select"
    BY <1>3, CalculatedEffect
  <2>3. at \notin DoneRouters /\ IsFiniteSet(DoneRouters)
    BY <2>1, <2>2, DoneCount DEF Settled, InProgress, IsNearest, DoneRouters
  <2>4. Cardinality(DoneRouters') = Cardinality(DoneRouters) + 1
    BY <2>2, <2>3, FS_AddElement
  <2>5. LinksTo(r)' = Cardinality(DoneRouters) + 1
    BY <2>2, <2>4 DEF LinksTo
  <2>6. CASE r = at
    <3>1. LinksTo(r) = Cardinality(DoneRouters)
      BY <2>6 DEF LinksTo
    <3>2. /\ d[LinksTo(r)][r] <= dist[r].cost
          /\ d[Cardinality(DoneRouters) + 1][r] <= d[Cardinality(DoneRouters)][r]
          /\ d[Cardinality(DoneRouters) + 1][r] \in Nat /\ d[Cardinality(DoneRouters)][r] \in Nat
          /\ dist[r].cost \in Nat
      BY <1>2, <2>1, <2>2
    <3> QED
      BY <2>2, <2>5, <3>1, <3>2
  <2>7. CASE r # at
    <3>1. LinksTo(r) = Cardinality(DoneRouters) + 1
      BY <2>2, <2>7 DEF LinksTo
    <3>2. d[LinksTo(r)][r] <= dist[r].cost
      BY <1>2, <2>1, <2>2
    <3> QED
      BY <2>2, <2>5, <3>1, <3>2
  <2> QED
    BY <2>6, <2>7
<1>4. CASE RelaxKnown \/ RelaxNew
  <2>1. Running /\ UNCHANGED <<ted, goal, src>> /\ ~wrapped
    BY <1>4, RelaxEffect DEF Running
  <2>2. LinksTo(r)' = LinksTo(r)
    BY <1>4, RelaxEffect DEF LinksTo
  <2>3. CASE r \in DOMAIN dist /\ dist'[r] = dist[r]
    BY <1>2, <2>1, <2>2, <2>3
  <2>4. CASE /\ r = EndOf(at, link) /\ dist'[r].cost = dist[at].cost + Length(at, link)
             /\ r \in DOMAIN dist => dist'[r].cost < dist[r].cost
    <3> DEFINE c == Cardinality(DoneRouters)
    <3>1. /\ at \in DOMAIN dist /\ at \in Routers /\ link \in 1 .. Degree(at)
          /\ HasArc(at, link) /\ pc = "relax"
      BY <1>4, RelaxEffect DEF Typed, TypeOK
    <3>2. Length(at, link) \in Nat /\ r \in Routers
      BY <2>4, <3>1, ArcTyped
    <3>3. dist[at].cost \in Nat /\ c \in Nat /\ d[c][at] <= dist[at].cost
      BY <1>2, <2>1, <3>1 DEF LinksTo
    <3>4. r # at
      BY <2>4, <3>1, <3>2, <3>3
    <3>5. LinksTo(r) = c + 1
      BY <3>1, <3>4 DEF LinksTo
    <3>6. d[c + 1][r] <= d[c][at] + Length(at, link)
      BY <1>2, <2>1, <2>4, <3>1, <3>3 DEF Rounds
    <3>7. d[c + 1][r] \in Nat /\ d[c][at] \in Nat
      <4>1. d \in [Nat -> [Routers -> Nat]]
        BY <1>2, <2>1 DEF Rounds
      <4>2. c \in Nat /\ c + 1 \in Nat
        BY <3>3
      <4> HIDE DEF c
      <4> QED
        BY <3>1, <3>2, <4>1, <4>2
    <3>8. d[c + 1][r] <= dist'[r].cost
      <4> HIDE DEF c
      <4> QED
        BY <2>4, <3>2, <3>3, <3>6, <3>7
    <3> QED
      BY <2>2, <3>5, <3>8
  <2> QED
    BY <1>4, <2>3, <2>4, RelaxEffect
<1>5. CASE Arrive \/ StepBack \/ (\E q \in DOMAIN dist : Select(q)) \/ UNCHANGED vars
  <2>1. /\ Running /\ UNCHANGED <<ted, goal, src>> /\ ~wrapped
        /\ dist' = dist /\ DoneRouters' = DoneRouters
    BY <1>5, MoveEffect
  <2>2. LinksTo(r)' = LinksTo(r)
        \/ (LinksTo(r) = Cardinality(DoneRouters) /\ LinksTo(r)' = Cardinality(DoneRouters) + 1)
    <3>1. UNCHANGED <<pc, at>> \/ pc # "relax"
      BY <1>5 DEF Arrive, StepBack, Select, vars, spfVars
    <3> QED
      BY <2>1, <3>1 DEF LinksTo
  <2>3. d[LinksTo(r)][r] <= dist[r].cost
    BY <1>2, <2>1
  <2>4. CASE LinksTo(r)' = LinksTo(r)
    BY <2>1, <2>3, <2>4
  <2>5. CASE LinksTo(r) = Cardinality(DoneRouters) /\ LinksTo(r)' = Cardinality(DoneRouters) + 1
    <3>1. /\ d[Cardinality(DoneRouters) + 1][r] <= d[Cardinality(DoneRouters)][r]
          /\ d[Cardinality(DoneRouters) + 1][r] \in Nat /\ d[Cardinality(DoneRouters)][r] \in Nat
          /\ dist[r].cost \in Nat
      BY <1>2, <2>1
    <3> QED
      BY <2>1, <2>3, <2>5, <3>1
  <2> QED
    BY <2>2, <2>4, <2>5
<1> QED
  BY <1>1, <1>3, <1>4, <1>5, StepsOfLoop

LEMMA PathStep ==
    ASSUME Typed, Settled, PathLeadsBack, [Next]_vars
    PROVE  PathLeadsBack'
<1> SUFFICES ASSUME pc' = "back"
             PROVE  /\ path'[Len(path')] = Dst'
                    /\ \A i \in 1 .. Len(path') - 1 :
                          path'[i + 1] # src' /\ path'[i] = dist'[path'[i + 1]].prev
                    /\ ~wrapped' => \A i \in 1 .. Len(path') : dist'[path'[i]].cost <= dist'[Dst'].cost
  BY DEF PathLeadsBack
<1>1. Arrive \/ StepBack \/ UNCHANGED vars
  <2>1. ~InitNodeMap /\ ~Calculated /\ ~(RelaxKnown \/ RelaxNew) /\ ~(\E r \in DOMAIN dist : Select(r))
    BY CalculatedEffect, StartEffect, RelaxEffect DEF Select
  <2>2. Running'
    BY DEF Running
  <2> QED
    BY <2>1, <2>2, StepsOfLoop
<1>2. UNCHANGED <<dist, src, wrapped>> /\ Dst' = Dst
  BY <1>1, MoveEffect
<1>3. CASE UNCHANGED vars
  <2>1. UNCHANGED <<pc, path>>
    BY <1>3 DEF vars
  <2> QED
    BY <1>2, <2>1 DEF PathLeadsBack
<1>4. CASE Arrive
  <2>1. path' = <<Dst>> /\ Dst \in DOMAIN dist
    BY <1>4 DEF Arrive, Nearest, Open
  <2>2. dist[Dst].cost <= dist[Dst].cost
    BY <2>1, CostTyped
  <2>3. Len(<<Dst>>) = 1 /\ <<Dst>>[1] = Dst
    OBVIOUS
  <2>4. Len(path') = 1 /\ path'[1] = Dst
    BY <2>1, <2>3, Zenon
  <2>5. \A i \in 1 .. Len(path') : i = 1
    BY <2>4
  <2>6. \A i \in 1 .. Len(path') - 1 : FALSE
    BY <2>4
  <2> QED
    BY <1>2, <2>2, <2>4, <2>5, <2>6
<1>5. CASE StepBack
  <2> DEFINE p == dist[path[1]].prev
  <2>1. /\ pc = "back" /\ path[1] # src /\ path' = <<p>> \o path
        /\ path \in Seq(DOMAIN dist) /\ path[1] \in DOMAIN dist /\ path # <<>>
        /\ Dst \in DOMAIN dist
    BY <1>5 DEF StepBack, Typed, TypeOK, PathIsKnown
  <2>2. p \in DOMAIN dist
    BY <2>1 DEF Typed, TypeOK
  <2>3. Len(path) \in Nat \ {0}
    BY <2>1, EmptySeq
  <2> HIDE DEF p
  <2>4. /\ Len(path') = Len(path) + 1 /\ path'[1] = p
        /\ \A i \in 1 .. Len(path) : path'[i + 1] = path[i]
    <3>1. <<p>> \in Seq(DOMAIN dist) /\ Len(<<p>>) = 1 /\ <<p>>[1] = p
      BY <2>2
    <3>2. /\ Len(<<p>> \o path) = 1 + Len(path)
          /\ \A i \in 1 .. 1 + Len(path) :
                (<<p>> \o path)[i] = IF i <= 1 THEN <<p>>[i] ELSE path[i - 1]
      BY <2>1, <3>1, ConcatProperties
    <3>3. PICK q : q = <<p>> \o path
      OBVIOUS
    <3>4. q[1] = p /\ \A i \in 1 .. Len(path) : q[i + 1] = path[i]
      BY <2>3, <3>1, <3>2, <3>3
    <3> QED
      BY <2>1, <2>3, <3>2, <3>3, <3>4
  <2>5. path'[Len(path')] = Dst
    BY <2>1, <2>3, <2>4 DEF PathLeadsBack
  <2>6. \A i \in 1 .. Len(path') - 1 : path'[i + 1] # src /\ path'[i] = dist[path'[i + 1]].prev
    <3> SUFFICES ASSUME NEW i \in 1 .. Len(path)
                 PROVE  path'[i + 1] # src /\ path'[i] = dist[path'[i + 1]].prev
      BY <2>3, <2>4
    <3>1. CASE i = 1
      BY <2>1, <2>4, <3>1 DEF p
    <3>2. CASE i # 1
      <4>1. i - 1 \in 1 .. Len(path) - 1 /\ (i - 1) + 1 = i /\ i - 1 \in 1 .. Len(path)
        BY <2>3, <3>2
      <4>2. path[i] # src /\ path[i - 1] = dist[path[i]].prev
        BY <2>1, <4>1 DEF PathLeadsBack
      <4>3. path'[i] = path[i - 1] /\ path'[i + 1] = path[i]
        BY <2>4, <4>1
      <4> QED
        BY <4>2, <4>3
    <3> QED
      BY <3>1, <3>2
  <2>7. ASSUME ~wrapped, NEW i \in 1 .. Len(path') PROVE dist[path'[i]].cost <= dist[Dst].cost
    <3>1. \A j \in 1 .. Len(path) : dist[path[j]].cost <= dist[Dst].cost
      BY <2>1, <2>7 DEF PathLeadsBack
    <3>2. CASE i = 1
      <4>1. /\ path[1] \in DOMAIN dist \ {src}
            /\ \E k \in 1 .. Degree(p) : ReachedOver(p, k, path[1])
        BY <2>1, <2>7 DEF Settled, Running, ReachedFromDone, p
      <4>2. PICK k \in 1 .. Degree(p) : ReachedOver(p, k, path[1])
        BY <4>1
      <4>3. dist[path[1]].cost = dist[p].cost + Length(p, k) /\ Length(p, k) \in Nat
        BY <2>2, <4>2, ArcTyped DEF ReachedOver
      <4>4. dist[path[1]].cost \in Nat /\ dist[p].cost \in Nat /\ dist[Dst].cost \in Nat
        BY <2>1, <2>2, CostTyped
      <4>5. dist[path[1]].cost <= dist[Dst].cost
        BY <2>3, <3>1
      <4> QED
        BY <2>4, <3>2, <4>3, <4>4, <4>5
    <3>3. CASE i # 1
      <4>1. i - 1 \in 1 .. Len(path) /\ (i - 1) + 1 = i
        BY <2>3, <2>4, <3>3
      <4>2. path'[i] = path[i - 1]
        BY <2>4, <4>1
      <4> QED
        BY <3>1, <4>1, <4>2
    <3> QED
      BY <3>2, <3>3
  <2> QED
    BY <1>2, <2>5, <2>6, <2>7
<1> QED
  BY <1>1, <1>3, <1>4, <1>5

------------------------------------------------------------------------------
(* The path of a section is a shortest one *)

(* As Bound, from any router: what is beyond it, or not known, counts as   *)
(* far as it.                                                              *)
Cut(q) ==
    [r \in Routers |-> IF r \in DOMAIN dist /\ dist[r].cost < dist[q].cost THEN dist[r].cost
                       ELSE dist[q].cost]

(* From the nearest open router Dijkstra's invariant makes it feasible.    *)
LEMMA CutIsFeasible ==
    ASSUME Typed, Settled, Running, ~wrapped, NEW n, IsNearest(n)
    PROVE  /\ Feasible(Cut(n)) /\ Cut(n) \in [Routers -> Nat]
           /\ \A r \in Routers : Cut(n)[r] <= Infinity
<1>1. /\ SourceIsZero /\ DoneAreRelaxed /\ src \in DOMAIN dist /\ n \in DOMAIN dist
      /\ DOMAIN dist \subseteq Routers /\ TEDTypeOK /\ LinksPointIntoTED
  BY DEF Settled, Running, IsNearest, Typed, TypeOK
<1>2. \A r \in DOMAIN dist : dist[r].cost \in Nat
  BY CostTyped
<1>3. Cut(n) \in [Routers -> Nat]
  BY <1>1, <1>2 DEF Cut
<1>4. \A r \in Routers : /\ Cut(n)[r] <= dist[n].cost /\ Cut(n)[r] \in Nat
                         /\ r \in DOMAIN dist => Cut(n)[r] <= dist[r].cost
  BY <1>1, <1>2 DEF Cut
<1>5. Cut(n)[src] = 0
  <2>1. dist[src].cost = 0 /\ dist[n].cost \in Nat /\ src \in Routers
    BY <1>1, <1>2 DEF SourceIsZero
  <2> QED
    BY <1>1, <2>1 DEF Cut
<1>6. ASSUME NEW r \in Routers, NEW l \in Arcs(r)
      PROVE  Cut(n)[RemoteOf(l)] <= Cut(n)[r] + Cost(l)
  <2>1. PICK k \in 1 .. Degree(r) : l = LinksOf(r)[k] /\ HasArc(r, k)
    BY <1>1, ArcOf
  <2>2. Cost(l) \in Nat /\ RemoteOf(l) \in Routers
    BY <1>1, ArcOf
  <2>3. PICK q \in Routers : q = RemoteOf(l)
    BY <2>2
  <2>4. CASE Cut(n)[r] = dist[n].cost
    <3>1. Cut(n)[q] <= Cut(n)[r] + Cost(l)
      BY <1>1, <1>2, <1>4, <2>2, <2>4
    <3> QED
      BY <2>3, <3>1
  <2>5. CASE Cut(n)[r] # dist[n].cost
    <3>1. r \in DOMAIN dist /\ Cut(n)[r] = dist[r].cost /\ dist[r].cost < dist[n].cost
      BY <2>5 DEF Cut
    <3>2. Done(r)
      BY <1>1, <1>2, <3>1 DEF IsNearest
    <3>3. LinkIsRelaxed(r, k)
      BY <1>1, <2>1, <3>1, <3>2 DEF DoneAreRelaxed
    <3>4. q \in DOMAIN dist /\ dist[q].cost <= dist[r].cost + Cost(l)
      BY <2>1, <2>3, <3>3 DEF LinkIsRelaxed, EndOf, Length
    <3>5. Cut(n)[q] <= Cut(n)[r] + Cost(l)
      BY <1>2, <1>4, <2>2, <3>1, <3>4
    <3> QED
      BY <2>3, <3>5
  <2> QED
    BY <2>4, <2>5
<1>7. \A r \in Routers : Cut(n)[r] <= Infinity
  <2>1. dist[n].cost \in Nat /\ dist[n].cost < UintSpace /\ UintSpace \in Nat
    BY <1>1, TEDAssumption DEF Typed, TypeOK, Uint
  <2>2. Infinity \in Nat /\ Infinity >= UintSpace
    BY <1>1, InfinityIsFar
  <2> QED
    BY <1>4, <2>1, <2>2
<1> QED
  BY <1>3, <1>5, <1>6, <1>7 DEF Feasible

LEMMA LastRound ==
    ASSUME Typed, src \in Routers
    PROVE  /\ Cardinality(Routers) - 1 \in Nat
           /\ Distances \in [Routers -> Nat]
<1>1. TEDTypeOK /\ LinksPointIntoTED
  BY DEF Typed, TypeOK
<1>2. Cardinality(Routers) \in Nat /\ Cardinality(Routers) # 0
  BY <1>1, RoutersFinite, FS_EmptySet
<1>3. Cardinality(Routers) - 1 \in Nat
  BY <1>2
<1> QED
  BY <1>1, <1>3, DistanceRounds DEF Distances

LEMMA DistancesAbove ==
    ASSUME Typed, Settled, Running, ~wrapped, NEW n, IsNearest(n)
    PROVE  \A r \in Routers : Cut(n)[r] <= Distances[r]
<1>1. src \in Routers /\ TEDTypeOK /\ LinksPointIntoTED
  BY DEF Typed, TypeOK, Running
<1> QED
  BY <1>1, CutIsFeasible, BoundIsBelow, LastRound DEF Distances

LEMMA DistancesBelow ==
    ASSUME Typed, WithinReach, Running, ~wrapped, NEW r \in DOMAIN dist,
           LinksTo(r) = Cardinality(DoneRouters), NEW q \in DOMAIN dist, ~Done(q)
    PROVE  Distances[r] <= dist[r].cost
<1>1. src \in Routers /\ TEDTypeOK /\ LinksPointIntoTED /\ r \in Routers
  BY DEF Typed, TypeOK, Running
<1>2. PICK d : Rounds(d) /\ \A k \in Nat : d[k] = DistanceWithin[k]
  BY <1>1, DistancesAreRounds
<1> DEFINE N == Cardinality(Routers) - 1
           c == Cardinality(DoneRouters)
<1>3. N \in Nat /\ c \in Nat /\ c <= N
  BY <1>1, LastRound, DoneCount
<1>4. Distances = d[N]
  BY <1>2, <1>3 DEF Distances
<1> HIDE DEF N, c
<1>5. d[c][r] <= dist[r].cost
  BY <1>2 DEF WithinReach, c
<1>6. d \in [Nat -> [Routers -> Nat]] /\ \A k \in Nat : \A v \in Routers : d[k + 1][v] <= d[k][v]
  BY <1>2 DEF Rounds
<1>7. d[N][r] <= d[c][r]
  BY <1>1, <1>3, <1>6, RoundsDescend
<1>8. d[N][r] \in Nat /\ d[c][r] \in Nat /\ dist[r].cost \in Nat
  BY <1>1, <1>3, <1>6, CostTyped
<1> QED
  BY <1>4, <1>5, <1>7, <1>8

(* Up to the destination, the costs are the distances.                     *)
LEMMA CostIsDistance ==
    ASSUME Typed, Settled, WithinReach, pc = "back", ~wrapped,
           NEW r \in DOMAIN dist, dist[r].cost <= dist[Dst].cost
    PROVE  Distances[r] = dist[r].cost
<1>1. Running /\ IsNearest(Dst) /\ LinksTo(r) = Cardinality(DoneRouters) /\ r \in Routers
      /\ src \in Routers
  BY DEF Settled, Running, InProgress, LinksTo, Typed, TypeOK
<1>2. Distances[r] <= dist[r].cost
  BY <1>1, DistancesBelow DEF IsNearest
<1>3. Cut(Dst)[r] <= Distances[r]
  BY <1>1, DistancesAbove
<1>4. dist[r].cost \in Nat /\ dist[Dst].cost \in Nat /\ Distances[r] \in Nat
  BY <1>1, CostTyped, LastRound DEF IsNearest
<1>5. Cut(Dst)[r] = dist[r].cost
  BY <1>1, <1>4 DEF Cut
<1> QED
  BY <1>2, <1>3, <1>4, <1>5

LEMMA PathIsShort ==
    ASSUME Typed, Settled, WithinReach, PathLeadsBack
    PROVE  PathIsShortest
<1> SUFFICES ASSUME EndOfSection, ~wrapped
             PROVE  /\ Last(path) = Dst
                    /\ \A i \in 1 .. Len(path) - 1 : \E l \in Arcs(path[i]) :
                          /\ RemoteOf(l) = path[i + 1]
                          /\ Distances[path[i + 1]] = Distances[path[i]] + Cost(l)
  BY DEF PathIsShortest
<1>1. pc = "back" /\ path \in Seq(DOMAIN dist) /\ Len(path) \in Nat
  BY LenProperties DEF EndOfSection, Typed, PathIsKnown
<1>2. Last(path) = Dst
  BY <1>1 DEF PathLeadsBack, Last
<1>3. ASSUME NEW i \in 1 .. Len(path) - 1
      PROVE  \E l \in Arcs(path[i]) :
                /\ RemoteOf(l) = path[i + 1]
                /\ Distances[path[i + 1]] = Distances[path[i]] + Cost(l)
  <2>1. PICK q, r : q = path[i] /\ r = path[i + 1]
    OBVIOUS
  <2>2. i \in 1 .. Len(path) /\ i + 1 \in 1 .. Len(path)
    BY <1>1
  <2>3. q \in DOMAIN dist /\ r \in DOMAIN dist
    BY <1>1, <2>1, <2>2, ElementOfSeq
  <2>4. /\ r # src /\ q = dist[r].prev
        /\ dist[q].cost <= dist[Dst].cost /\ dist[r].cost <= dist[Dst].cost
    BY <1>1, <2>1, <2>2 DEF PathLeadsBack
  <2>5. PICK k \in 1 .. Degree(q) : ReachedOver(q, k, r)
    BY <1>1, <2>3, <2>4 DEF Settled, Running, ReachedFromDone
  <2>6. LinksOf(q)[k] \in Arcs(q)
    <3>1. TEDTypeOK /\ LinksPointIntoTED /\ q \in Routers
      BY <2>3 DEF Typed, TypeOK
    <3> QED
      BY <2>5, <3>1, ArcOf DEF ReachedOver
  <2>7. /\ RemoteOf(LinksOf(q)[k]) = r
        /\ dist[r].cost = dist[q].cost + Cost(LinksOf(q)[k])
    BY <2>5 DEF ReachedOver, EndOf, Length
  <2>8. Distances[q] = dist[q].cost /\ Distances[r] = dist[r].cost
    BY <1>1, <2>3, <2>4, CostIsDistance
  <2> QED
    BY <2>1, <2>6, <2>7, <2>8
<1> QED
  BY <1>2, <1>3

------------------------------------------------------------------------------
(* Why a computation fails *)

(* The parts of FailureIsJustified.                                        *)
Near ==
    LET limit == IF Dst \in Routers THEN Distances[Dst] ELSE Infinity
    IN  {r \in Routers \ {Dst} : Distances[r] < Infinity /\ Distances[r] <= limit}

Justifies(reason) ==
    \/ /\ reason = "next node not found"
       /\ Dst \in Routers => Distances[Dst] = Infinity
    \/ reason = "source without SID" /\ SegmentOf(src) = NoSegment
    \/ /\ reason = "metric not defined"
       /\ \E r \in Near : Range(Node(r).links) # Arcs(r)
    \/ /\ reason = "remote without SID"
       /\ \E r \in Near : \E l \in Arcs(r) : SegmentOf(RemoteOf(l)) = NoSegment
    \/ /\ reason = "waypoint without SRv6 SID"
       /\ Hop.sid # NoSID /\ WithSRv6(Node(Dst)) = {}

Justified == pc = "failed" /\ ~wrapped => Justifies(failure)

LEMMA JustifiedIsJustified == Justified => FailureIsJustified
BY DEF Justified, Justifies, FailureIsJustified, Near

LEMMA JustifiesFrame ==
    ASSUME UNCHANGED <<ted, goal, section, src>>, NEW reason, Justifies(reason)
    PROVE  Justifies(reason)'
<1>1. ted' = ted /\ goal' = goal /\ section' = section /\ src' = src
  OBVIOUS
<1>2. Distances' = Distances /\ Infinity' = Infinity
  BY DistanceFrame
<1>3. Routers' = Routers /\ Hop' = Hop /\ Dst' = Dst
  BY <1>1 DEF Routers, Hop, Dst
<1>4. /\ \A r : Node(r)' = Node(r) /\ Arcs(r)' = Arcs(r) /\ SegmentOf(r)' = SegmentOf(r)
      /\ \A l : RemoteOf(l)' = RemoteOf(l)
  BY <1>1 DEF Node, Arcs, SegmentOf, RemoteOf
<1>5. Near' = Near
  BY <1>2, <1>3 DEF Near
<1>6. SegmentOf(src)' = SegmentOf(src)
  BY <1>1 DEF SegmentOf, Node
<1>7. \A r : \A l \in Arcs(r) : SegmentOf(RemoteOf(l))' = SegmentOf(RemoteOf(l))
  BY <1>1 DEF SegmentOf, RemoteOf, Node
<1>8. WithSRv6(Node(Dst))' = WithSRv6(Node(Dst))
  BY <1>1 DEF Node, Dst, Hop, WithSRv6
<1> QED
  BY <1>2, <1>3, <1>4, <1>5, <1>6, <1>7, <1>8 DEF Justifies

(* The router whose links are looked at is not farther than the            *)
(* destination, and its cost is its distance.                              *)
LEMMA AtIsNear ==
    ASSUME Typed, Settled, WithinReach, DestinationIsOpen, pc = "relax", ~wrapped
    PROVE  at \in Near
<1>1. /\ Running /\ IsNearest(at) /\ at \in DOMAIN dist /\ at \in Routers /\ at # Dst
      /\ LinksTo(at) = Cardinality(DoneRouters) /\ src \in Routers
      /\ TEDTypeOK /\ LinksPointIntoTED
  BY DEF Settled, Running, InProgress, LinksTo, Typed, TypeOK, DestinationIsOpen
<1>2. Distances[at] <= dist[at].cost
  BY <1>1, DistancesBelow DEF IsNearest
<1>3. Distances \in [Routers -> Nat]
  BY <1>1, LastRound
<1>4. dist[at].cost \in Nat /\ dist[at].cost < Infinity /\ Infinity \in Nat
  <2>1. dist[at].cost \in Nat /\ dist[at].cost < UintSpace /\ UintSpace \in Nat
    BY <1>1, TEDAssumption DEF Typed, TypeOK, Uint
  <2>2. Infinity \in Nat /\ Infinity >= UintSpace
    BY <1>1, InfinityIsFar
  <2> QED
    BY <2>1, <2>2
<1>5. Distances[at] < Infinity
  BY <1>1, <1>2, <1>3, <1>4
<1>6. ASSUME Dst \in Routers PROVE Distances[at] <= Distances[Dst]
  <2>1. ~(Dst \in DOMAIN dist /\ dist[Dst].cost < dist[at].cost)
    <3>1. Dst \in DOMAIN dist => ~Done(Dst)
      BY <1>1 DEF DestinationIsOpen, DoneRouters
    <3> QED
      BY <1>1, <1>4, <3>1, CostTyped DEF IsNearest
  <2>2. Cut(at)[Dst] = dist[at].cost
    BY <1>6, <2>1 DEF Cut
  <2>3. Cut(at)[Dst] <= Distances[Dst]
    BY <1>1, <1>6, DistancesAbove
  <2> QED
    BY <1>1, <1>2, <1>3, <1>4, <1>6, <2>2, <2>3
<1> QED
  BY <1>1, <1>3, <1>4, <1>5, <1>6 DEF Near

(* When no router is open, those known have no link that leads on.         *)
LEMMA NothingLeadsOn ==
    ASSUME Typed, Settled, DestinationIsOpen, NextNodeNotFound, ~wrapped, Dst \in Routers
    PROVE  Distances[Dst] = Infinity
<1>1. /\ pc = "select" /\ Running /\ Open = {}
      /\ SourceIsZero /\ DoneAreRelaxed /\ src \in DOMAIN dist /\ src \in Routers
      /\ DOMAIN dist \subseteq Routers /\ TEDTypeOK /\ LinksPointIntoTED
  BY DEF NextNodeNotFound, Settled, Running, Typed, TypeOK
<1>2. \A r \in DOMAIN dist : Done(r)
  BY <1>1 DEF Open, Done
<1>3. Dst \notin DOMAIN dist
  BY <1>1, <1>2 DEF DestinationIsOpen, DoneRouters
<1> DEFINE b == [r \in Routers |-> IF r \in DOMAIN dist THEN 0 ELSE Infinity]
<1>4. Infinity \in Nat
  BY <1>1, InfinityIsFar
<1>5. b \in [Routers -> Nat] /\ \A r \in Routers : b[r] <= Infinity
  BY <1>4
<1>6. Feasible(b)
  <2>1. b[src] = 0
    BY <1>1
  <2>2. ASSUME NEW r \in Routers, NEW l \in Arcs(r)
        PROVE  b[RemoteOf(l)] <= b[r] + Cost(l)
    <3>1. PICK k \in 1 .. Degree(r) : l = LinksOf(r)[k] /\ HasArc(r, k)
      BY <1>1, ArcOf
    <3>2. Cost(l) \in Nat /\ RemoteOf(l) \in Routers
      BY <1>1, ArcOf
    <3>3. PICK q \in Routers : q = RemoteOf(l)
      BY <3>2
    <3>4. CASE r \in DOMAIN dist
      <4>1. LinkIsRelaxed(r, k)
        BY <1>1, <1>2, <3>1, <3>4 DEF DoneAreRelaxed
      <4>2. q \in DOMAIN dist
        BY <3>1, <3>3, <4>1 DEF LinkIsRelaxed, EndOf
      <4>3. b[q] = 0 /\ b[r] = 0
        BY <3>4, <4>2
      <4> HIDE DEF b
      <4> QED
        BY <3>2, <3>3, <4>3
    <3>5. CASE r \notin DOMAIN dist
      <4>1. b[r] = Infinity /\ b[q] \in Nat /\ b[q] <= Infinity
        BY <1>5, <3>5
      <4> HIDE DEF b
      <4> QED
        BY <1>4, <3>2, <3>3, <4>1
    <3> QED
      BY <3>4, <3>5
  <2> HIDE DEF b
  <2> QED
    BY <2>1, <2>2 DEF Feasible
<1>7. b[Dst] = Infinity
  BY <1>3
<1> HIDE DEF b
<1> DEFINE N == Cardinality(Routers) - 1
<1>8. N \in Nat /\ Distances \in [Routers -> Nat] /\ Distances = DistanceWithin[N]
  BY <1>1, LastRound DEF Distances
<1>9. Infinity <= Distances[Dst]
  BY <1>1, <1>5, <1>6, <1>7, <1>8, BoundIsBelow
<1>10. Distances[Dst] <= Infinity
  <2>1. PICK d : Rounds(d) /\ \A k \in Nat : d[k] = DistanceWithin[k]
    BY <1>1, DistancesAreRounds
  <2>2. d \in [Nat -> [Routers -> Nat]] /\ \A k \in Nat : \A v \in Routers : d[k + 1][v] <= d[k][v]
    BY <2>1 DEF Rounds
  <2> HIDE DEF N
  <2>3. d[N][Dst] <= d[0][Dst]
    <3>1. 0 \in Nat /\ 0 <= N
      BY <1>8
    <3> QED
      BY <1>8, <2>2, <3>1, RoundsDescend
  <2>4. d[0][Dst] = Infinity /\ d[N] = Distances
    BY <1>1, <1>3, <1>8, <2>1, DistanceRounds DEF Start
  <2> QED
    BY <2>3, <2>4
<1> QED
  BY <1>4, <1>8, <1>9, <1>10

LEMMA FailJustifies ==
    ASSUME Typed, Settled, WithinReach, DestinationIsOpen, ~wrapped,
           \/ SourceWithoutSID \/ NextNodeNotFound \/ LinkWithoutMetric
           \/ RemoteWithoutSID \/ WaypointWithoutSRv6
    PROVE  Justifies(failure')
<1>1. CASE SourceWithoutSID
  BY <1>1 DEF SourceWithoutSID, Fail, Justifies, SegmentOf
<1>2. CASE NextNodeNotFound
  BY <1>2, NothingLeadsOn DEF NextNodeNotFound, Fail, Justifies
<1>3. CASE LinkWithoutMetric
  <2>1. pc = "relax" /\ Relaxing /\ ~HasMetric /\ failure' = "metric not defined"
    BY <1>3 DEF LinkWithoutMetric, Relaxing, Fail
  <2>2. at \in Near
    BY <2>1, AtIsNear
  <2>3. CurrentLink \in Range(Node(at).links)
    <3>1. link \in 1 .. Len(LinksOf(at)) /\ CurrentLink = LinksOf(at)[link] /\ at \in Routers
      BY <2>1, LinkAtHand
    <3>2. LinksOf(at) \in Seq(LsLinks)
      BY <3>1, RouterNode DEF Typed, TypeOK
    <3> QED
      BY <3>1, <3>2 DEF Range, LinksOf
  <2>4. CurrentLink \notin Arcs(at)
    BY <2>1 DEF HasMetric, Arcs
  <2> QED
    BY <2>1, <2>2, <2>3, <2>4 DEF Justifies
<1>4. CASE RemoteWithoutSID
  <2>1. /\ pc = "relax" /\ Relaxing /\ HasMetric /\ failure' = "remote without SID"
        /\ NodeSegment(ted.heap[CurrentLink.remote]) = NoSegment
    BY <1>4 DEF RemoteWithoutSID, Relaxing, Fail
  <2>2. at \in Near
    BY <2>1, AtIsNear
  <2>3. CurrentLink \in Arcs(at)
    <3>1. link \in 1 .. Len(LinksOf(at)) /\ CurrentLink = LinksOf(at)[link] /\ at \in Routers
      BY <2>1, LinkAtHand
    <3>2. LinksOf(at) \in Seq(LsLinks)
      BY <3>1, RouterNode DEF Typed, TypeOK
    <3>3. CurrentLink \in Range(Node(at).links)
      BY <3>1, <3>2 DEF Range, LinksOf
    <3> HIDE DEF CurrentLink
    <3> QED
      BY <2>1, <3>3 DEF HasMetric, Arcs
  <2>4. SegmentOf(RemoteOf(CurrentLink)) = NoSegment
    BY <2>1, LinkAtHand DEF SegmentOf, Remote
  <2> QED
    BY <2>1, <2>2, <2>3, <2>4 DEF Justifies
<1>5. CASE WaypointWithoutSRv6
  <2>1. /\ pc = "back" /\ WaypointSegment = NoSegment
        /\ failure' = "waypoint without SRv6 SID"
    BY <1>5 DEF WaypointWithoutSRv6, EndOfSection, Fail
  <2>2. SegmentOf(Dst) # NoSegment
    BY <2>1 DEF Typed, TypeOK, KnownHaveSIDs, Running
  <2>3. Hop.sid # NoSID
    BY <2>1, <2>2 DEF WaypointSegment
  <2>4. WithSRv6(Node(Dst)) = {}
    <3>1. SRv6(Hop.sid, SRv6Address(Node(Dst))) # NoSegment
      <4>1. \A s, a : SRv6(s, a).family = "srv6"
        BY DEF SRv6
      <4>2. NoSegment.family = "none"
        BY DEF NoSegment
      <4> QED
        BY <4>1, <4>2
    <3> QED
      BY <2>1, <2>3, <3>1 DEF WaypointSegment
  <2> QED
    BY <2>1, <2>3, <2>4 DEF Justifies
<1> QED
  BY <1>1, <1>2, <1>3, <1>4, <1>5

LEMMA JustifiedStep ==
    ASSUME Typed, Settled, WithinReach, DestinationIsOpen, Justified, [Next]_vars
    PROVE  Justified'
<1> SUFFICES ASSUME pc' = "failed", ~wrapped' PROVE Justifies(failure)'
  BY DEF Justified
<1>1. CASE /\ \/ SourceWithoutSID \/ NextNodeNotFound \/ LinkWithoutMetric
              \/ RemoteWithoutSID \/ WaypointWithoutSRv6
  <2>1. UNCHANGED <<ted, goal, section, src, wrapped>>
    BY <1>1 DEF SourceWithoutSID, NextNodeNotFound, LinkWithoutMetric, RemoteWithoutSID,
                WaypointWithoutSRv6, Fail, spfVars, tedVars
  <2>2. PICK f : f = failure'
    OBVIOUS
  <2>3. Justifies(f)
    BY <1>1, <2>1, <2>2, FailJustifies
  <2>4. Justifies(f)'
    BY <2>1, <2>3, JustifiesFrame
  <2> QED
    BY <2>2, <2>4 DEF Justifies
<1>2. CASE UNCHANGED vars
  <2>1. UNCHANGED <<ted, goal, section, src, wrapped, pc, failure>>
    BY <1>2 DEF vars, tedVars, spfVars, callVars
  <2>2. PICK f : f = failure
    OBVIOUS
  <2>3. Justifies(f)
    BY <2>1, <2>2 DEF Justified
  <2>4. Justifies(f)'
    BY <2>1, <2>3, JustifiesFrame
  <2> QED
    BY <2>1, <2>2, <2>4 DEF Justifies
<1>3. \/ SourceWithoutSID \/ NextNodeNotFound \/ LinkWithoutMetric
      \/ RemoteWithoutSID \/ WaypointWithoutSRv6 \/ UNCHANGED vars
  <2>1. CASE UpdateTED /\ UNCHANGED <<pc, spfVars, callVars, path>>
    <3>1. applied < Len(listing)
      BY <2>1 DEF UpdateTED, UpdateNode, UpdateLink, UpdatePrefix, UpdateSRv6SID,
                  IgnoreForeign, Applying
    <3>2. Len(listing) \in Nat
      BY TEDAssumption DEF Typed
    <3>3. pc = "idle"
      BY <3>1, <3>2 DEF Typed, TypeOK, Published
    <3> QED
      BY <2>1, <3>3
  <2>2. CASE \E from, to \in Routers, m \in Asked :
                (\E w \in Waypoints : Request(from, to, w, m)) \/ Recompute(from, to, m)
    BY <2>2 DEF Request, Recompute, Submit
  <2>3. CASE Compute
    BY <2>3 DEF Compute, InitNodeMap, Select, Arrive, RelaxKnown, RelaxNew, Relaxed, Relaxing,
                Calculated, StepBack, Found, NextSection, EndOfSection
  <2> QED
    BY <2>1, <2>2, <2>3 DEF Next
<1> QED
  BY <1>1, <1>2, <1>3

(* The inductive invariant of the search.                                  *)
PInv == IInv /\ WithinReach /\ DestinationIsOpen /\ PathLeadsBack /\ Justified

LEMMA InitSearch == Init => PInv
BY InitTyped, InitSettled
   DEF PInv, IInv, Init, WithinReach, DestinationIsOpen, PathLeadsBack, Justified, Running

LEMMA SearchStep == PInv /\ [Next]_vars => PInv'
BY TypedStep, SettledStep, ReachStep, OpenStep, PathStep, JustifiedStep DEF PInv, IInv

(* A section that buildSegmentListFromPath walks back (cspf.go 83-105)     *)
(* leads from its source to its end over links of the TED, and each link   *)
(* is one of a shortest path: on every TED, for every metric and in every  *)
(* order of nodes of equal cost, unless a sum did not fit into 32 bits.    *)
THEOREM PathsAreShortest == Spec => []PathIsShortest
<1>1. PInv => PathIsShortest
  BY PathIsShort DEF PInv, IInv
<1> QED
  BY <1>1, InitSearch, SearchStep, PTL DEF Spec

(* spf gives up (cspf.go 129-184) only when there is no path, or over a    *)
(* router no farther than the destination that has a link without the      *)
(* metric or a neighbour without a SID: what lies beyond the destination   *)
(* fails nothing.  A sum that did not fit into 32 bits voids it.           *)
THEOREM FailuresAreJustified == Spec => []FailureIsJustified
<1>1. PInv => FailureIsJustified
  BY JustifiedIsJustified DEF PInv
<1> QED
  BY <1>1, InitSearch, SearchStep, PTL DEF Spec

------------------------------------------------------------------------------
(* Computed paths pass validation *)

(* The segment that NodeSegment makes for some router.                     *)
Leads(s) == \E r \in Routers : s = SegmentOf(r) /\ s # NoSegment

(* Without SIDs of its own in the request, every segment of the list is    *)
(* the one of a router.                                                    *)
ListLeads ==
    /\ pc = "idle" => list = <<>>
    /\ (\A h \in Range(goal.hops) : h.sid = NoSID) => \A i \in 1 .. Len(list) : Leads(list[i])

LEMMA SectionLeads ==
    ASSUME Typed, pc = "back"
    PROVE  /\ SectionSegments \in Seq(Segment)
           /\ \A i \in 1 .. Len(SectionSegments) : Leads(SectionSegments[i])
<1>1. /\ path \in Seq(DOMAIN dist) /\ path # <<>>
      /\ \A r \in DOMAIN dist : r \in Routers /\ SegmentOf(r) # NoSegment
  BY DEF Typed, TypeOK, PathIsKnown, KnownHaveSIDs, Running
<1>2. Len(path) \in Nat \ {0}
  BY <1>1, EmptySeq
<1>3. /\ Len(SectionSegments) = Len(path) - 1
      /\ \A i \in 1 .. Len(path) - 1 : SectionSegments[i] = SegmentOf(path[i + 1])
  BY <1>2 DEF SectionSegments
<1>4. ASSUME NEW i \in 1 .. Len(path) - 1 PROVE Leads(SectionSegments[i])
  <2>1. i + 1 \in 1 .. Len(path)
    BY <1>2
  <2>2. path[i + 1] \in DOMAIN dist
    BY <1>1, <2>1, ElementOfSeq
  <2> QED
    BY <1>1, <1>3, <2>2 DEF Leads
<1> QED
  BY <1>3, <1>4, SectionTyped

(* Where the segments of the longer list come from.                        *)
LEMMA JoinElements ==
    ASSUME NEW t \in Seq(Segment), NEW s \in Seq(Segment), NEW w \in Segment, list = t
    PROVE  LET j == AppendIfNotDuplicate(t \o RemoveDuplicateFirst(s), w)
           IN  \A i \in 1 .. Len(j) :
                  \/ \E k \in 1 .. Len(t) : j[i] = t[k]
                  \/ \E k \in 1 .. Len(s) : j[i] = s[k]
                  \/ j[i] = w
<1>1. PICK u : u = RemoveDuplicateFirst(s)
  OBVIOUS
<1>2. u \in Seq(Segment) /\ \A i \in 1 .. Len(u) : \E k \in 1 .. Len(s) : u[i] = s[k]
  <2>1. CASE u = s
    BY <2>1
  <2>2. CASE s # <<>> /\ u = Tail(s)
    <3>1. /\ u \in Seq(Segment) /\ Len(u) = Len(s) - 1 /\ Len(s) \in Nat
          /\ \A i \in 1 .. Len(u) : u[i] = s[i + 1]
      BY <2>2, HeadTailProperties, LenProperties
    <3>2. \A i \in 1 .. Len(u) : i + 1 \in 1 .. Len(s)
      BY <3>1
    <3> QED
      BY <3>1, <3>2
  <2> QED
    BY <1>1, <2>1, <2>2 DEF RemoveDuplicateFirst
<1>3. PICK c : c = t \o u
  OBVIOUS
<1>4. /\ c \in Seq(Segment)
      /\ \A i \in 1 .. Len(c) : (\E k \in 1 .. Len(t) : c[i] = t[k]) \/ (\E k \in 1 .. Len(u) : c[i] = u[k])
  <2>1. /\ c \in Seq(Segment) /\ Len(c) = Len(t) + Len(u)
        /\ \A i \in 1 .. Len(t) + Len(u) : c[i] = IF i <= Len(t) THEN t[i] ELSE u[i - Len(t)]
        /\ Len(t) \in Nat /\ Len(u) \in Nat
    BY <1>2, <1>3, ConcatProperties, LenProperties
  <2>2. ASSUME NEW i \in 1 .. Len(t) + Len(u)
        PROVE  (\E k \in 1 .. Len(t) : c[i] = t[k]) \/ (\E k \in 1 .. Len(u) : c[i] = u[k])
    <3>1. CASE i <= Len(t)
      BY <2>1, <3>1
    <3>2. CASE ~(i <= Len(t))
      <4>1. i - Len(t) \in 1 .. Len(u)
        BY <2>1, <3>2
      <4> QED
        BY <2>1, <3>2, <4>1
    <3> QED
      BY <3>1, <3>2
  <2> QED
    BY <2>1, <2>2
<1>5. PICK j : j = AppendIfNotDuplicate(c, w)
  OBVIOUS
<1>6. \A i \in 1 .. Len(j) : (\E k \in 1 .. Len(c) : j[i] = c[k]) \/ j[i] = w
  <2>1. CASE j = c
    BY <2>1
  <2>2. CASE j = Append(c, w)
    <3>1. /\ Len(j) = Len(c) + 1 /\ j[Len(c) + 1] = w /\ Len(c) \in Nat
          /\ \A i \in 1 .. Len(c) : j[i] = c[i]
      BY <1>4, <2>2, AppendProperties, LenProperties
    <3>2. \A i \in 1 .. Len(j) : i \in 1 .. Len(c) \/ i = Len(c) + 1
      BY <3>1
    <3> QED
      BY <3>1, <3>2
  <2> QED
    BY <1>5, <2>1, <2>2 DEF AppendIfNotDuplicate
<1>7. \A i \in 1 .. Len(j) :
         \/ \E k \in 1 .. Len(t) : j[i] = t[k]
         \/ \E k \in 1 .. Len(s) : j[i] = s[k]
         \/ j[i] = w
  BY <1>2, <1>4, <1>6
<1> QED
  BY <1>1, <1>3, <1>5, <1>7

LEMMA LeadsFrame ==
    ASSUME UNCHANGED ted, NEW s, Leads(s)
    PROVE  Leads(s)'
<1>1. Routers' = Routers /\ \A r : SegmentOf(r)' = SegmentOf(r)
  BY DEF Routers, SegmentOf, Node
<1> QED
  BY <1>1 DEF Leads

LEMMA LeadsStep ==
    ASSUME Typed, ListLeads, [Next]_vars
    PROVE  ListLeads'
<1>1. CASE UpdateTED /\ UNCHANGED <<pc, spfVars, callVars, path>>
  <2>1. applied < Len(listing)
    BY <1>1 DEF UpdateTED, UpdateNode, UpdateLink, UpdatePrefix, UpdateSRv6SID,
                IgnoreForeign, Applying
  <2>2. Len(listing) \in Nat
    BY TEDAssumption DEF Typed
  <2>3. pc = "idle"
    BY <2>1, <2>2 DEF Typed, TypeOK, Published
  <2>4. list' = <<>>
    BY <1>1, <2>3 DEF ListLeads, callVars
  <2> QED
    BY <2>4 DEF ListLeads
<1>2. CASE \E from, to \in Routers, m \in Asked :
              (\E w \in Waypoints : Request(from, to, w, m)) \/ Recompute(from, to, m)
  <2>1. pc = "idle" /\ pc' = "init" /\ list' = list
    BY <1>2 DEF Request, Recompute, Submit
  <2>2. list' = <<>>
    BY <2>1 DEF ListLeads
  <2> QED
    BY <2>2 DEF ListLeads
<1>3. CASE Found \/ NextSection
  <2>1. /\ pc = "back" /\ pc' # "idle" /\ UNCHANGED <<ted, goal>>
    BY <1>3 DEF Found, NextSection, EndOfSection, tedVars
  <2> SUFFICES ASSUME \A h \in Range(goal.hops) : h.sid = NoSID, NEW i \in 1 .. Len(list')
               PROVE  Leads(list'[i])
    <3>1. \A s : Leads(s) => Leads(s)'
      BY <2>1, LeadsFrame
    <3> QED
      BY <2>1, <3>1 DEF ListLeads
  <2>2. /\ SectionSegments \in Seq(Segment) /\ list \in Seq(Segment)
        /\ \A k \in 1 .. Len(SectionSegments) : Leads(SectionSegments[k])
        /\ \A k \in 1 .. Len(list) : Leads(list[k])
    BY <2>1, SectionLeads DEF ListLeads, Typed, TypeOK
  <2>3. CASE Found
    BY <2>2, <2>3 DEF Found
  <2>4. CASE NextSection
    <3>1. WaypointSegment \in Segment
      BY <2>1, <2>4, WaypointSegmentTyped DEF NextSection
    <3>2. Leads(WaypointSegment)
      <4>1. Hop.sid = NoSID
        <5>1. goal.hops \in Seq(Waypoint) /\ section \in 1 .. Len(goal.hops)
          BY <2>1 DEF Typed, TypeOK
        <5>2. Hop \in Range(goal.hops)
          BY <5>1 DEF Hop, Range
        <5> QED
          BY <5>2
      <4>2. WaypointSegment = SegmentOf(Dst) /\ WaypointSegment # NoSegment
        BY <2>4, <4>1 DEF WaypointSegment, NextSection
      <4>3. Dst \in Routers
        BY <2>1 DEF Typed, TypeOK
      <4> QED
        BY <4>2, <4>3 DEF Leads
    <3>3. PICK j : j = list'
      OBVIOUS
    <3>4. \/ \E k \in 1 .. Len(list) : j[i] = list[k]
          \/ \E k \in 1 .. Len(SectionSegments) : j[i] = SectionSegments[k]
          \/ j[i] = WaypointSegment
      <4>1. PICK t, s, w : t = list /\ s = SectionSegments /\ w = WaypointSegment
        OBVIOUS
      <4>2. j = AppendIfNotDuplicate(t \o RemoveDuplicateFirst(s), w) /\ i \in 1 .. Len(j)
        BY <2>4, <3>3, <4>1 DEF NextSection
      <4>3. t \in Seq(Segment) /\ s \in Seq(Segment) /\ w \in Segment
        BY <2>2, <3>1, <4>1
      <4>4. \/ \E k \in 1 .. Len(t) : j[i] = t[k]
            \/ \E k \in 1 .. Len(s) : j[i] = s[k]
            \/ j[i] = w
        BY <4>1, <4>2, <4>3, JoinElements
      <4> QED
        BY <4>1, <4>4
    <3> QED
      BY <2>2, <3>2, <3>3, <3>4
  <2> QED
    BY <1>3, <2>3, <2>4
<1>4. ASSUME UNCHANGED <<ted, goal, list>>, pc # "idle" \/ pc' = pc, pc' # "idle" \/ pc' = pc
      PROVE  ListLeads'
  <2>1. \A s : Leads(s) => Leads(s)'
    BY <1>4, LeadsFrame
  <2> QED
    BY <1>4, <2>1 DEF ListLeads
<1>5. CASE Compute /\ ~Found /\ ~NextSection
  <2>1. UNCHANGED <<ted, goal, list>> /\ pc # "idle" /\ pc' # "idle"
    BY <1>5 DEF Compute, InitNodeMap, SourceWithoutSID, Select, Arrive, NextNodeNotFound,
                LinkWithoutMetric, RelaxKnown, RelaxNew, Relaxed, Relaxing, RemoteWithoutSID,
                Calculated, StepBack, WaypointWithoutSRv6, EndOfSection, Fail, callVars, tedVars
  <2> QED
    BY <1>4, <2>1
<1>6. CASE UNCHANGED vars
  <2>1. UNCHANGED <<ted, goal, list, pc>>
    BY <1>6 DEF vars, callVars, tedVars
  <2> QED
    BY <1>4, <2>1
<1> QED
  BY <1>1, <1>2, <1>3, <1>5, <1>6 DEF Next

(* A router's own segment is in the SID index when its label fits.         *)
LEMMA OwnSegmentIsThere ==
    ASSUME TEDTypeOK, LinksPointIntoTED, NEW r \in Routers,
           WithSID(Node(r)) # {} => HasLabel(Node(r), PrefixIndex(Node(r))),
           SegmentOf(r) # NoSegment
    PROVE  Has(SegmentOf(r))
<1>1. PICK n \in LsNodes : n = Node(r)
  BY RouterNode
<1>2. n.begin \in Uint /\ n.prefixes \in Seq(LsPrefixes) /\ n.srv6 \in Seq(Seq(STRING))
  BY DEF LsNodes
<1>3. CASE WithSID(n) # {}
  <2>1. WithSID(n) \in SUBSET (1 .. Len(n.prefixes))
    BY DEF WithSID
  <2> DEFINE m == Min(WithSID(n))
             p == n.prefixes[m]
  <2>2. m \in WithSID(n) /\ p \in LsPrefixes
    BY <1>2, <1>3, <2>1, FirstOf
  <2>3. p.hasSID /\ p \in Range(n.prefixes)
    <3>1. p.hasSID /\ m \in 1 .. Len(n.prefixes)
      BY <2>2, Zenon DEF WithSID
    <3>2. DOMAIN n.prefixes = 1 .. Len(n.prefixes)
      BY <1>2
    <3> QED
      BY <3>1, <3>2, Zenon DEF Range
  <2>4. p.index \in Uint /\ PrefixIndex(n) = p.index
    BY <2>2 DEF LsPrefixes, PrefixIndex
  <2> HIDE DEF m, p
  <2>5. HasLabel(n, p.index)
    BY <1>1, <1>3, <2>4
  <2>6. n.begin + p.index < UintSpace /\ n.begin + p.index \in Nat
    <3>1. UintSpace \in Nat \ {0} /\ MPLSLabelMax \in Nat /\ MPLSLabelMax < UintSpace
      BY TEDAssumption DEF Uint
    <3>2. n.begin \in Nat /\ p.index \in Nat /\ n.begin + p.index <= MPLSLabelMax
      BY <1>2, <2>4, <2>5, <3>1 DEF HasLabel, Uint
    <3> QED
      BY <3>1, <3>2
  <2>7. (n.begin + p.index) % UintSpace = n.begin + p.index
    BY <2>6, TEDAssumption
  <2>8. SegmentOf(r) = MPLS(n.begin + p.index)
    BY <1>1, <1>3, <2>4, <2>7 DEF SegmentOf, NodeSegment
  <2>9. n.begin + p.index \in MPLSSIDs(n)
    BY <2>3, <2>5 DEF MPLSSIDs
  <2> QED
    BY <1>1, <2>8, <2>9 DEF Has, MPLS
<1>4. CASE WithSID(n) = {}
  <2>1. WithSRv6(n) # {} /\ SegmentOf(r) = SRv6(SRv6Address(n), SRv6Address(n))
    BY <1>1, <1>4 DEF SegmentOf, NodeSegment
  <2>2. WithSRv6(n) \in SUBSET (1 .. Len(n.srv6))
    BY DEF WithSRv6
  <2> DEFINE m == Min(WithSRv6(n))
             sids == n.srv6[m]
  <2>3. m \in WithSRv6(n) /\ sids \in Seq(STRING)
    BY <1>2, <2>1, <2>2, FirstOf
  <2>4. sids # <<>> /\ sids \in Range(n.srv6)
    <3>1. sids # <<>> /\ m \in 1 .. Len(n.srv6)
      BY <2>3, Zenon DEF WithSRv6
    <3>2. DOMAIN n.srv6 = 1 .. Len(n.srv6)
      BY <1>2
    <3> QED
      BY <3>1, <3>2, Zenon DEF Range
  <2>5. SRv6Address(n) = sids[1]
    BY DEF SRv6Address
  <2> HIDE DEF m, sids
  <2>6. sids[1] \in Range(sids)
    <3>1. Len(sids) \in Nat \ {0}
      BY <2>3, <2>4, EmptySeq
    <3>2. 1 \in 1 .. Len(sids) /\ DOMAIN sids = 1 .. Len(sids)
      BY <2>3, <3>1
    <3> QED
      BY <3>2, Zenon DEF Range
  <2>7. SRv6Address(n) \in SRv6SIDs(n)
    BY <2>4, <2>5, <2>6 DEF SRv6SIDs
  <2> QED
    BY <1>1, <2>1, <2>7 DEF Has, SRv6
<1> QED
  BY <1>3, <1>4

LEMMA ListValidates == Typed /\ ListLeads => ComputedPathsValidate
<1> SUFFICES ASSUME Typed, ListLeads, IndexesFitSRGBs,
                    \A h \in Range(goal.hops) : h.sid = NoSID
             PROVE  MissingSegments(list) = {}
  BY DEF ComputedPathsValidate
<1>1. \A i \in 1 .. Len(list) : \E r \in Routers : list[i] = SegmentOf(r) /\ list[i] # NoSegment
  BY DEF ListLeads, Leads
<1>2. \A r \in Routers : SegmentOf(r) # NoSegment => Has(SegmentOf(r))
  BY OwnSegmentIsThere DEF IndexesFitSRGBs, Typed, TypeOK
<1> QED
  BY <1>1, <1>2 DEF MissingSegments

LEMMA InitLeads == Init => ListLeads
<1> SUFFICES ASSUME Init PROVE ListLeads
  OBVIOUS
<1>1. list = <<>> /\ Len(list) = 0
  BY DEF Init
<1> QED
  BY <1>1 DEF ListLeads

(* The two readings of the TED agree: without SIDs of its own in the       *)
(* request, what CSPF returns has no segment that validateSegmentList      *)
(* would miss, wherever every Prefix-SID index fits its router's SRGB      *)
(* (grpc_server.go 339 checks explicit paths only).                        *)
THEOREM ComputedPathsAreValid == Spec => []ComputedPathsValidate
<1>1. Init => Typed /\ ListLeads
  BY InitTyped, InitLeads
<1>2. (Typed /\ ListLeads) /\ [Next]_vars => (Typed /\ ListLeads)'
  BY TypedStep, LeadsStep
<1> QED
  BY <1>1, <1>2, ListValidates, PTL DEF Spec

------------------------------------------------------------------------------
(* The TED is the merge of what was applied *)

(* The inductive invariant of the TED.                                     *)
TEDMerged == Merged(ted, applied)

LEMMA MergedStep == Typed /\ TEDMerged /\ [Next]_vars => TEDMerged'
<1> SUFFICES ASSUME Typed, TEDMerged, [Next]_vars PROVE TEDMerged'
  OBVIOUS
<1>1. CASE UNCHANGED tedVars
  <2>1. PICK t, a : t = ted /\ a = applied
    OBVIOUS
  <2>2. listing' = listing /\ ted' = t /\ applied' = a
    BY <1>1, <2>1 DEF tedVars
  <2>3. Merged(t, a)'
    BY <2>1, <2>2, MergedFrame DEF TEDMerged
  <2> QED
    BY <2>2, <2>3 DEF TEDMerged, Merged, Contents
<1>2. CASE UpdateTED
  <2>1. PICK t, a, e, u : t = ted /\ a = applied /\ e = listing[a + 1] /\ u = ted'
    OBVIOUS
  <2>2. WellFormed(t) /\ a \in Nat /\ Merged(t, a)
    BY <2>1, WellFormedTED DEF Typed, TypeOK, TEDMerged, TEDTypeOK
  <2>3. applied < Len(listing) /\ applied' = a + 1 /\ listing' = listing
    BY <1>2, <2>1 DEF UpdateTED, UpdateNode, UpdateLink, UpdatePrefix, UpdateSRv6SID,
                      IgnoreForeign, Applying
  <2>4. IsElem(e)
    <3>1. listing \in Listings /\ Len(listing) \in Nat
      BY TEDAssumption DEF Typed
    <3>2. a + 1 \in 1 .. Len(listing)
      BY <2>1, <2>2, <2>3, <3>1
    <3> QED
      BY <2>1, <3>1, <3>2, TEDAssumption
  <2>5. Merged(u, a + 1)
    <3>1. CASE UpdateNode
      BY <2>1, <2>2, <2>4, <3>1, MergeNodeMerges DEF UpdateNode, Applying
    <3>2. CASE UpdateLink
      BY <2>1, <2>2, <2>4, <3>2, AddLinkMerges DEF UpdateLink, Applying
    <3>3. CASE UpdatePrefix
      BY <2>1, <2>2, <2>4, <3>3, AddPrefixMerges DEF UpdatePrefix, Applying
    <3>4. CASE UpdateSRv6SID
      BY <2>1, <2>2, <2>4, <3>4, AddSRv6SIDMerges DEF UpdateSRv6SID, Applying
    <3>5. CASE IgnoreForeign
      BY <2>1, <2>2, <3>5, ForeignMerges DEF IgnoreForeign
    <3> QED
      BY <1>2, <3>1, <3>2, <3>3, <3>4, <3>5 DEF UpdateTED
  <2>6. PICK b : b = a + 1
    OBVIOUS
  <2>7. Merged(u, b)'
    BY <2>3, <2>5, <2>6, MergedFrame
  <2> QED
    BY <2>1, <2>3, <2>6, <2>7 DEF TEDMerged, Merged, Contents
<1>3. UNCHANGED tedVars \/ UpdateTED
  BY DEF Next, Request, Recompute, Submit, Compute, InitNodeMap, SourceWithoutSID, Select, Arrive,
         NextNodeNotFound, LinkWithoutMetric, RelaxKnown, RelaxNew, Relaxed, RemoteWithoutSID,
         Calculated, StepBack, Found, NextSection, WaypointWithoutSRv6, Fail, vars
<1> QED
  BY <1>1, <1>2, <1>3

LEMMA InitMerged == Init => TEDMerged
<1> SUFFICES ASSUME Init PROVE TEDMerged
  OBVIOUS
<1>1. applied = 0 /\ ted.heap = <<>> /\ ted.nodes = <<>>
  BY DEF Init, TEDInit, EmptyTED
<1>2. Len(ted.heap) = 0 /\ DOMAIN ted.nodes = {}
  BY <1>1
<1>3. Mine(applied) = {}
  BY <1>1 DEF Mine
<1>4. Named(applied) = {}
  BY <1>3 DEF Named
<1> QED
  BY <1>2, <1>4 DEF TEDMerged, Merged, Contents

LEMMA MergedIsMerge == Typed /\ TEDMerged => TEDIsMerge
<1> SUFFICES ASSUME Typed, TEDMerged PROVE TEDIsMerge
  OBVIOUS
<1>1. WellFormed(ted) /\ Contents(ted, applied) /\ Routers = Named(applied)
  BY WellFormedTED DEF Typed, TypeOK, TEDMerged, Merged, Routers
<1>2. Routers = {listing[i].router : i \in {j \in 1 .. applied : ~Foreign(listing[j])}}
                \cup {listing[i].remote : i \in Own("link")}
  BY <1>1 DEF Named, Mine, Own
<1>3. ASSUME NEW r \in Routers, NEW n, n = Node(r)
      PROVE  LET of(kind) == {i \in Own(kind) : listing[i].router = r}
             IN  /\ IF of("node") = {} THEN <<n.begin, n.end>> = <<0, 0>>
                    ELSE \E i \in of("node") : <<n.begin, n.end>> = <<listing[i].begin, listing[i].end>>
                 /\ Len(n.links) = Cardinality(of("link"))
                 /\ {<<RemoteOf(l), l.metrics, l.adjSID, l.endX>> : l \in Range(n.links)} =
                       {<<listing[i].remote, listing[i].link.metrics, listing[i].link.adjSID,
                             listing[i].link.endX>> : i \in of("link")}
                 /\ Range(n.prefixes) \subseteq {listing[i].prefix : i \in of("prefix")}
                 /\ Len(n.prefixes) = Cardinality({listing[i].prefix.prefix : i \in of("prefix")})
                 /\ Range(n.srv6) = {listing[i].sids : i \in of("srv6SID")}
  <2> DEFINE of(kind) == {i \in Own(kind) : listing[i].router = r}
  <2>1. \A kind : of(kind) = Of(applied, kind, r)
    BY DEF Of, Own, Mine
  <2>2. /\ n \in LsNodes
        /\ \A k \in 1 .. Len(n.links) : n.links[k].remote \in 1 .. Len(ted.heap)
        /\ RangeFrom(n, Of(applied, "node", r))
        /\ LinksFrom(NamesIn(ted.heap), n, Of(applied, "link", r))
        /\ PrefixesFrom(n, Of(applied, "prefix", r))
        /\ SIDsFrom(n, Of(applied, "srv6SID", r))
    BY <1>1, <1>3, AboutNode DEF Routers, Node
  <2>3. \A l \in Range(n.links) : NamesIn(ted.heap)[l.remote] = RemoteOf(l)
    <3>1. DOMAIN n.links = 1 .. Len(n.links)
      BY <2>2 DEF LsNodes
    <3>2. \A i \in 1 .. Len(ted.heap) : NamesIn(ted.heap)[i] = ted.heap[i].router
      BY DEF NamesIn
    <3> QED
      BY <2>2, <3>1, <3>2 DEF Range, RemoteOf
  <2>4. {<<NamesIn(ted.heap)[l.remote], l.metrics, l.adjSID, l.endX>> : l \in Range(n.links)} =
           {<<RemoteOf(l), l.metrics, l.adjSID, l.endX>> : l \in Range(n.links)}
    BY <2>3
  <2> HIDE DEF of
  <2>5. /\ IF of("node") = {} THEN <<n.begin, n.end>> = <<0, 0>>
           ELSE \E i \in of("node") : <<n.begin, n.end>> = <<listing[i].begin, listing[i].end>>
        /\ Len(n.links) = Cardinality(of("link"))
        /\ Range(n.prefixes) \subseteq {listing[i].prefix : i \in of("prefix")}
        /\ Len(n.prefixes) = Cardinality({listing[i].prefix.prefix : i \in of("prefix")})
        /\ Range(n.srv6) = {listing[i].sids : i \in of("srv6SID")}
    BY <2>1, <2>2 DEF RangeFrom, LinksFrom, PrefixesFrom, SIDsFrom
  <2>6. {<<RemoteOf(l), l.metrics, l.adjSID, l.endX>> : l \in Range(n.links)} =
           {<<listing[i].remote, listing[i].link.metrics, listing[i].link.adjSID,
                 listing[i].link.endX>> : i \in of("link")}
    BY <2>1, <2>2, <2>4 DEF LinksFrom
  <2> QED
    BY <2>5, <2>6 DEF of
<1> QED
  BY <1>2, <1>3 DEF TEDIsMerge

(* Whatever GoBGP lists, in whatever order, the UpdateTED methods leave    *)
(* every router with what the elements applied so far say of it: no link   *)
(* is lost or doubled, no SRv6 SID is lost, each prefix is there once, the *)
(* SRGB is that of a node element if one came (ted.go).                    *)
THEOREM TEDIsTheMerge == Spec => []TEDIsMerge
<1>1. Init => Typed /\ TEDMerged
  BY InitTyped, InitMerged
<1>2. (Typed /\ TEDMerged) /\ [Next]_vars => (Typed /\ TEDMerged)'
  BY TypedStep, MergedStep
<1> QED
  BY <1>1, <1>2, MergedIsMerge, PTL DEF Spec

------------------------------------------------------------------------------
(* Requests with waypoints *)

(* A known router other than the source was reached over a link with the   *)
(* metric, whatever the costs.                                             *)
PrevIsBefore ==
    Running => /\ SourceIsZero
               /\ \A r \in DOMAIN dist \ {src} :
                     /\ dist[r].prev \in DOMAIN dist
                     /\ \E k \in 1 .. Degree(dist[r].prev) :
                           HasArc(dist[r].prev, k) /\ EndOf(dist[r].prev, k) = r

LEMMA PrevStep ==
    ASSUME Typed, PrevIsBefore, [Next]_vars
    PROVE  PrevIsBefore'
<1> SUFFICES ASSUME Running'
             PROVE  /\ SourceIsZero'
                    /\ \A r \in DOMAIN dist' \ {src'} :
                          /\ dist'[r].prev \in DOMAIN dist'
                          /\ \E k \in 1 .. Degree(dist[r].prev)' :
                                HasArc(dist[r].prev, k)' /\ EndOf(dist[r].prev, k)' = r
  BY DEF PrevIsBefore
<1>1. CASE InitNodeMap
  BY <1>1, StartEffect DEF SourceIsZero
<1>2. ASSUME Running, UNCHANGED <<ted, goal, src>>, DOMAIN dist \subseteq DOMAIN dist',
             dist'[src].cost = 0,
             NEW r \in DOMAIN dist' \ {src'},
             r \in DOMAIN dist /\ dist'[r].prev = dist[r].prev
      PROVE  /\ dist'[r].prev \in DOMAIN dist'
             /\ \E k \in 1 .. Degree(dist[r].prev)' :
                   HasArc(dist[r].prev, k)' /\ EndOf(dist[r].prev, k)' = r
  <2>1. PICK p : p = dist[r].prev
    OBVIOUS
  <2>2. p \in DOMAIN dist /\ \E k \in 1 .. Degree(p) : HasArc(p, k) /\ EndOf(p, k) = r
    BY <1>2, <2>1 DEF PrevIsBefore
  <2>3. \E k \in 1 .. Degree(p)' : HasArc(p, k)' /\ EndOf(p, k)' = r
    BY <1>2, <2>2, GraphFrame
  <2> QED
    BY <1>2, <2>1, <2>2, <2>3 DEF Degree, HasArc, EndOf, LinksOf
<1>3. CASE Calculated
  <2>1. /\ UNCHANGED <<ted, goal, src>> /\ Running /\ DOMAIN dist' = DOMAIN dist
        /\ \A r \in DOMAIN dist : dist'[r].cost = dist[r].cost /\ dist'[r].prev = dist[r].prev
        /\ src \in DOMAIN dist
    BY <1>3, CalculatedEffect DEF Running, Typed, TypeOK
  <2>2. dist'[src].cost = 0
    BY <2>1 DEF PrevIsBefore, SourceIsZero
  <2> QED
    BY <1>2, <2>1, <2>2 DEF SourceIsZero
<1>4. CASE Arrive \/ StepBack \/ (\E q \in DOMAIN dist : Select(q)) \/ UNCHANGED vars
  <2>1. UNCHANGED <<ted, goal, src, dist>> /\ Running /\ src \in DOMAIN dist
    BY <1>4, MoveEffect DEF Running, Typed, TypeOK
  <2>2. dist'[src].cost = 0
    BY <2>1 DEF PrevIsBefore, SourceIsZero
  <2> QED
    BY <1>2, <2>1, <2>2 DEF SourceIsZero
<1>5. CASE RelaxKnown \/ RelaxNew
  <2>1. /\ UNCHANGED <<ted, goal, src>> /\ Running /\ src \in DOMAIN dist
        /\ at \in DOMAIN dist /\ link \in 1 .. Degree(at) /\ HasArc(at, link)
    BY <1>5, RelaxEffect DEF Running, Typed, TypeOK
  <2>2. Relaxing /\ HasMetric /\ Remote = EndOf(at, link)
    BY <1>5, LinkAtHand DEF RelaxKnown, RelaxNew, Remote, EndOf
  <2>3. DOMAIN dist \subseteq DOMAIN dist'
    BY <1>5, RelaxKnownDist, RelaxNewDist
  <2>4. dist'[src].cost = 0
    <3>1. dist[src].cost = 0 /\ Sum % UintSpace \in Nat
      BY <2>1, <2>2, LinkAtHand, TEDAssumption DEF PrevIsBefore, SourceIsZero, Uint
    <3> HIDE DEF Sum, Remote
    <3>2. CASE RelaxKnown
      BY <2>1, <3>1, <3>2, RelaxKnownDist
    <3>3. CASE RelaxNew
      BY <2>1, <3>1, <3>3, RelaxNewDist
    <3> QED
      BY <1>5, <3>2, <3>3
  <2>5. ASSUME NEW r \in DOMAIN dist'
        PROVE  \/ r \in DOMAIN dist /\ dist'[r].prev = dist[r].prev
               \/ r = EndOf(at, link) /\ dist'[r].prev = at
    <3> HIDE DEF Sum, Remote
    <3>1. CASE RelaxKnown
      BY <2>2, <2>5, <3>1, RelaxKnownDist
    <3>2. CASE RelaxNew
      BY <2>2, <2>5, <3>2, RelaxNewDist
    <3> QED
      BY <1>5, <3>1, <3>2
  <2>6. ASSUME NEW r \in DOMAIN dist' \ {src'}, r = EndOf(at, link), dist'[r].prev = at
        PROVE  /\ dist'[r].prev \in DOMAIN dist'
               /\ \E k \in 1 .. Degree(dist[r].prev)' :
                     HasArc(dist[r].prev, k)' /\ EndOf(dist[r].prev, k)' = r
    <3>1. PICK p, i : p = at /\ i = link
      OBVIOUS
    <3>2. i \in 1 .. Degree(p)' /\ HasArc(p, i)' /\ EndOf(p, i)' = r
      BY <2>1, <2>6, <3>1, GraphFrame
    <3> QED
      BY <2>1, <2>3, <2>6, <3>1, <3>2 DEF Degree, HasArc, EndOf, LinksOf
  <2> QED
    BY <1>2, <2>1, <2>3, <2>4, <2>5, <2>6 DEF SourceIsZero
<1> QED
  BY <1>1, <1>3, <1>4, <1>5, StepsOfLoop

(* A way back that reached the source never stood still.                   *)
LEMMA PathMoves ==
    ASSUME Typed, PathLeadsBack, EndOfSection
    PROVE  \A i \in 1 .. Len(path) - 1 : path[i] # path[i + 1]
<1>1. /\ pc = "back" /\ path[1] = src /\ Len(path) \in Nat
      /\ \A i \in 1 .. Len(path) - 1 : path[i + 1] # src /\ path[i] = dist[path[i + 1]].prev
  BY LenProperties DEF EndOfSection, PathLeadsBack, Typed, PathIsKnown
<1> SUFFICES ASSUME NEW j \in 1 .. Len(path) - 1, path[j] = path[j + 1]
             PROVE  FALSE
  OBVIOUS
<1> DEFINE S == {m \in Nat : m < j => path[j - m] = path[j + 1]}
<1>2. j \in Nat /\ j - 0 = j
  BY <1>1
<1>3. 0 \in S
  BY <1>2
<1>4. ASSUME NEW m \in Nat, m \in S PROVE m + 1 \in S
  <2> SUFFICES ASSUME m + 1 < j PROVE path[j - (m + 1)] = path[j + 1]
    OBVIOUS
  <2>1. PICK i \in Nat : i = j - (m + 1) /\ i + 1 = j - m /\ i \in 1 .. Len(path) - 1
    BY <1>1, <1>2
  <2>2. path[i + 1] = path[j + 1]
    BY <1>2, <1>4, <2>1
  <2>3. path[i] = dist[path[j + 1]].prev /\ path[j] = dist[path[j + 1]].prev
    BY <1>1, <2>1, <2>2
  <2> QED
    BY <2>1, <2>3
<1> HIDE DEF S
<1>5. \A m \in Nat : m \in S
  BY <1>3, <1>4, InductionOverSet
<1>6. j - 1 \in Nat /\ j - 1 < j /\ j - (j - 1) = 1
  BY <1>2
<1>7. path[1] = path[j + 1]
  BY <1>5, <1>6 DEF S
<1> QED
  BY <1>1, <1>7

(* What a section's path is: arcs from its source to its end.              *)
LEMMA PathIsTravelled ==
    ASSUME Typed, PrevIsBefore, PathLeadsBack, EndOfSection
    PROVE  /\ Len(path) \in Nat \ {0} /\ path[1] = src /\ path[Len(path)] = Dst
           /\ \A i \in 1 .. Len(path) : path[i] \in Routers
           /\ \A i \in 1 .. Len(path) - 1 :
                 /\ path[i + 1] # src /\ path[i] # path[i + 1]
                 /\ \E l \in Arcs(path[i]) : RemoteOf(l) = path[i + 1]
<1>1. /\ pc = "back" /\ Running /\ path[1] = src /\ path \in Seq(DOMAIN dist) /\ path # <<>>
      /\ path[Len(path)] = Dst
      /\ DOMAIN dist \subseteq Routers /\ TEDTypeOK /\ LinksPointIntoTED
      /\ \A i \in 1 .. Len(path) - 1 : path[i + 1] # src /\ path[i] = dist[path[i + 1]].prev
  BY DEF EndOfSection, PathLeadsBack, Typed, TypeOK, PathIsKnown, Running
<1>2. Len(path) \in Nat \ {0}
  BY <1>1, EmptySeq
<1>3. \A i \in 1 .. Len(path) : path[i] \in DOMAIN dist
  BY <1>1, ElementOfSeq
<1>4. ASSUME NEW i \in 1 .. Len(path) - 1
      PROVE  \E l \in Arcs(path[i]) : RemoteOf(l) = path[i + 1]
  <2>1. PICK q, r : q = path[i] /\ r = path[i + 1]
    OBVIOUS
  <2>2. q \in DOMAIN dist /\ r \in DOMAIN dist /\ r # src /\ q = dist[r].prev
    <3>1. i \in 1 .. Len(path) /\ i + 1 \in 1 .. Len(path)
      BY <1>2
    <3> QED
      BY <1>1, <1>3, <2>1, <3>1
  <2>3. PICK k \in 1 .. Degree(q) : HasArc(q, k) /\ EndOf(q, k) = r
    BY <1>1, <2>2 DEF PrevIsBefore
  <2>4. LinksOf(q)[k] \in Arcs(q)
    BY <1>1, <2>2, <2>3, ArcOf
  <2> QED
    BY <2>1, <2>3, <2>4 DEF EndOf
<1> QED
  BY <1>1, <1>2, <1>3, <1>4, PathMoves

(* A tour T for the list L: the routers that its segments lead to, from    *)
(* the source of the request to the router `end'.                          *)
Tour(L, T, end) ==
    /\ T \in [1 .. Len(L) + 1 -> Routers]
    /\ T[1] = goal.from /\ T[Len(L) + 1] = end
    /\ \A i \in 1 .. Len(L) :
          /\ LeadsTo(L[i], T[i + 1])
          /\ T[i] = T[i + 1] \/ \E l \in Arcs(T[i]) : RemoteOf(l) = T[i + 1]
    /\ \A i \in 1 .. Len(L) - 1 : L[i] # L[i + 1]

(* The first m hops of the request are visited, in order, at places f.     *)
Visits(L, T, f, m) ==
    /\ f \in [1 .. m -> 1 .. Len(L) + 1]
    /\ \A h \in 1 .. m :
          /\ T[f[h]] = goal.hops[h].router
          /\ goal.hops[h].sid # NoSID => f[h] > 1 /\ L[f[h] - 1].sid = goal.hops[h].sid
    /\ \A h \in 1 .. m - 1 : f[h] <= f[h + 1]

(* DistinctSIDs, of any list.                                              *)
Unique(L) ==
    \A i \in 1 .. Len(L) : \E r \in Routers :
        LeadsTo(L[i], r) /\ \A q \in Routers \ {r} : ~LeadsTo(L[i], q)

(* Between sections the list is a tour to where the next one starts.       *)
WaypointsToured ==
    goal.loose /\ Unique(list) =>
        /\ pc \in {"init", "select", "relax", "back"} =>
              \E T, f : Tour(list, T, src) /\ Visits(list, T, f, section - 1)
        /\ pc = "found" =>
              \E T, f : /\ Tour(list, T, Dst) /\ Visits(list, T, f, Len(goal.hops))
                        /\ f[Len(goal.hops)] = Len(list) + 1

(* A tour goes on: L is the beginning of M and T the one of U.             *)
LEMMA VisitsStay ==
    ASSUME NEW L, NEW M, NEW T, NEW U, NEW f, NEW m \in Nat,
           Len(L) \in Nat, Len(M) \in Nat, Len(L) <= Len(M),
           \A i \in 1 .. Len(L) : M[i] = L[i],
           \A i \in 1 .. Len(L) + 1 : U[i] = T[i],
           Visits(L, T, f, m)
    PROVE  Visits(M, U, f, m)
<1>1. f \in [1 .. m -> 1 .. Len(M) + 1]
  BY DEF Visits
<1>2. ASSUME NEW h \in 1 .. m
      PROVE  /\ U[f[h]] = goal.hops[h].router
             /\ goal.hops[h].sid # NoSID => f[h] > 1 /\ M[f[h] - 1].sid = goal.hops[h].sid
  <2>1. PICK p : p = f[h]
    OBVIOUS
  <2>2. /\ p \in 1 .. Len(L) + 1 /\ T[p] = goal.hops[h].router
        /\ goal.hops[h].sid # NoSID => p > 1 /\ L[p - 1].sid = goal.hops[h].sid
    BY <2>1 DEF Visits
  <2>3. p > 1 => p - 1 \in 1 .. Len(L)
    BY <2>2
  <2> QED
    BY <2>1, <2>2, <2>3
<1> QED
  BY <1>1, <1>2 DEF Visits

(* One more hop, at the end.                                               *)
LEMMA VisitsGrow ==
    ASSUME NEW L, NEW T, NEW f, NEW m \in Nat, Len(L) \in Nat,
           Visits(L, T, f, m),
           T[Len(L) + 1] = goal.hops[m + 1].router,
           goal.hops[m + 1].sid # NoSID =>
               Len(L) > 0 /\ L[Len(L)].sid = goal.hops[m + 1].sid
    PROVE  \E g : Visits(L, T, g, m + 1) /\ g[m + 1] = Len(L) + 1
<1> DEFINE e == Len(L) + 1
           g == [h \in 1 .. m + 1 |-> IF h = m + 1 THEN e ELSE f[h]]
<1>1. e \in 1 .. Len(L) + 1 /\ e - 1 = Len(L) /\ (Len(L) > 0 => e > 1)
  OBVIOUS
<1>2. f \in [1 .. m -> 1 .. Len(L) + 1] /\ \A h \in 1 .. m - 1 : f[h] <= f[h + 1]
  BY DEF Visits
<1>3. g \in [1 .. m + 1 -> 1 .. Len(L) + 1] /\ g[m + 1] = e /\ \A h \in 1 .. m : g[h] = f[h]
  BY <1>1, <1>2
<1> HIDE DEF g
<1>4. ASSUME NEW h \in 1 .. m + 1
      PROVE  /\ T[g[h]] = goal.hops[h].router
             /\ goal.hops[h].sid # NoSID => g[h] > 1 /\ L[g[h] - 1].sid = goal.hops[h].sid
  <2>1. CASE h \in 1 .. m
    BY <1>3, <2>1 DEF Visits
  <2>2. CASE h = m + 1
    BY <1>1, <1>3, <2>2
  <2> QED
    BY <2>1, <2>2
<1>5. ASSUME NEW h \in 1 .. (m + 1) - 1 PROVE g[h] <= g[h + 1]
  <2>1. h \in 1 .. m
    OBVIOUS
  <2>2. CASE h = m
    <3>1. f[h] \in 1 .. Len(L) + 1
      BY <1>2, <2>1
    <3> QED
      BY <1>3, <2>1, <2>2, <3>1
  <2>3. CASE h # m
    <3>1. h \in 1 .. m - 1 /\ h + 1 \in 1 .. m
      BY <2>1, <2>3
    <3> QED
      BY <1>2, <1>3, <2>1, <3>1
  <2> QED
    BY <2>2, <2>3
<1> QED
  BY <1>3, <1>4, <1>5 DEF Visits

(* One more segment.                                                       *)
LEMMA TourGrows ==
    ASSUME NEW L \in Seq(Segment), NEW s \in Segment, NEW T, NEW end, NEW r \in Routers,
           Tour(L, T, end), LeadsTo(s, r),
           end = r \/ \E l \in Arcs(end) : RemoteOf(l) = r,
           L = <<>> \/ L[Len(L)] # s
    PROVE  \E U : /\ Tour(Append(L, s), U, r)
                  /\ \A i \in 1 .. Len(L) + 1 : U[i] = T[i]
<1>1. PICK n, M : n = Len(L) /\ M = Append(L, s)
  OBVIOUS
<1>2. n \in Nat /\ Len(M) = n + 1 /\ M[n + 1] = s /\ \A i \in 1 .. n : M[i] = L[i]
  BY <1>1, AppendProperties, LenProperties
<1>3. n = 0 \/ L[n] # s
  <2>1. L = <<>> => Len(L) = 0
    OBVIOUS
  <2> QED
    BY <1>1, <2>1
<1>4. /\ T \in [1 .. n + 1 -> Routers] /\ T[1] = goal.from /\ T[n + 1] = end
      /\ \A i \in 1 .. n : /\ LeadsTo(L[i], T[i + 1])
                           /\ T[i] = T[i + 1] \/ \E l \in Arcs(T[i]) : RemoteOf(l) = T[i + 1]
      /\ \A i \in 1 .. n - 1 : L[i] # L[i + 1]
  BY <1>1 DEF Tour
<1> DEFINE U == [i \in 1 .. n + 2 |-> IF i = n + 2 THEN r ELSE T[i]]
<1>5. /\ U \in [1 .. n + 2 -> Routers] /\ U[n + 2] = r
      /\ \A i \in 1 .. n + 1 : U[i] = T[i]
  BY <1>2, <1>4
<1>6. (n + 1) + 1 = n + 2 /\ U[1] = T[1]
  BY <1>2, <1>5
<1> HIDE DEF U
<1>7. ASSUME NEW i \in 1 .. n + 1
      PROVE  /\ LeadsTo(M[i], U[i + 1])
             /\ U[i] = U[i + 1] \/ \E l \in Arcs(U[i]) : RemoteOf(l) = U[i + 1]
  <2>1. CASE i \in 1 .. n
    <3>1. M[i] = L[i] /\ U[i] = T[i] /\ U[i + 1] = T[i + 1]
      BY <1>2, <1>5, <2>1
    <3> QED
      BY <1>4, <2>1, <3>1
  <2>2. CASE i = n + 1
    <3>1. M[i] = s /\ U[i] = end /\ U[i + 1] = r
      BY <1>2, <1>4, <1>5, <1>6, <2>2
    <3> QED
      BY <3>1
  <2> QED
    BY <1>2, <2>1, <2>2
<1>8. ASSUME NEW i \in 1 .. (n + 1) - 1 PROVE M[i] # M[i + 1]
  <2>1. i \in 1 .. n
    BY <1>2
  <2>2. CASE i = n
    BY <1>2, <1>3, <2>1, <2>2
  <2>3. CASE i # n
    <3>1. i \in 1 .. n - 1 /\ i + 1 \in 1 .. n
      BY <1>2, <2>1, <2>3
    <3> QED
      BY <1>2, <1>4, <2>1, <3>1
  <2> QED
    BY <2>2, <2>3
<1>9. Tour(M, U, r)
  BY <1>2, <1>4, <1>5, <1>6, <1>7, <1>8 DEF Tour
<1> QED
  BY <1>1, <1>5, <1>9

(* The segments of a section, when every segment leads to one router only. *)
LEMMA SectionTours ==
    ASSUME NEW L \in Seq(Segment), NEW P, NEW S \in Seq(Segment), NEW T,
           Tour(L, T, P[1]), Len(P) \in Nat \ {0}, Len(S) = Len(P) - 1,
           \A i \in 1 .. Len(P) : P[i] \in Routers,
           \A i \in 1 .. Len(S) : S[i] = SegmentOf(P[i + 1]),
           \A i \in 1 .. Len(S) :
              P[i] # P[i + 1] /\ \E l \in Arcs(P[i]) : RemoteOf(l) = P[i + 1],
           Unique(L \o S)
    PROVE  \E U : /\ Tour(L \o S, U, P[Len(P)])
                  /\ \A i \in 1 .. Len(L) + 1 : U[i] = T[i]
<1>1. PICK n, k, M : n = Len(L) /\ k = Len(S) /\ M = L \o S
  OBVIOUS
<1>2. /\ n \in Nat /\ k \in Nat /\ Len(M) = n + k /\ Len(P) = k + 1
      /\ \A i \in 1 .. n : M[i] = L[i]
      /\ \A i \in 1 .. k : M[n + i] = S[i]
  <2>1. /\ n \in Nat /\ k \in Nat /\ Len(M) = n + k
        /\ \A i \in 1 .. n + k : M[i] = IF i <= n THEN L[i] ELSE S[i - n]
    <3>1. Len(L) \in Nat /\ Len(S) \in Nat
      BY LenProperties
    <3>2. /\ Len(L \o S) = Len(L) + Len(S)
          /\ \A i \in 1 .. Len(L) + Len(S) :
                (L \o S)[i] = IF i <= Len(L) THEN L[i] ELSE S[i - Len(L)]
      BY ConcatProperties
    <3> QED
      BY <1>1, <3>1, <3>2
  <2>2. \A i \in 1 .. k : M[n + i] = S[i]
    <3> SUFFICES ASSUME NEW i \in 1 .. k PROVE M[n + i] = S[i]
      OBVIOUS
    <3>1. n + i \in 1 .. n + k /\ ~(n + i <= n) /\ (n + i) - n = i
      BY <2>1
    <3> QED
      BY <2>1, <3>1
  <2> QED
    BY <1>1, <2>1, <2>2
<1>3. /\ T \in [1 .. n + 1 -> Routers] /\ T[1] = goal.from /\ T[n + 1] = P[1]
      /\ \A i \in 1 .. n : /\ LeadsTo(L[i], T[i + 1])
                           /\ T[i] = T[i + 1] \/ \E l \in Arcs(T[i]) : RemoteOf(l) = T[i + 1]
      /\ \A i \in 1 .. n - 1 : L[i] # L[i + 1]
  BY <1>1 DEF Tour
<1> DEFINE U == [i \in 1 .. n + k + 1 |-> IF i <= n + 1 THEN T[i] ELSE P[i - n]]
<1>4. U \in [1 .. n + k + 1 -> Routers]
  <2> SUFFICES ASSUME NEW i \in 1 .. n + k + 1, ~(i <= n + 1) PROVE P[i - n] \in Routers
    BY <1>2, <1>3
  <2>1. i - n \in 1 .. Len(P)
    BY <1>2
  <2> QED
    BY <2>1
<1>5. \A i \in 1 .. n + 1 : U[i] = T[i]
  BY <1>2
<1>6. \A i \in 1 .. k + 1 : U[n + i] = P[i]
  <2> SUFFICES ASSUME NEW i \in 1 .. k + 1 PROVE U[n + i] = P[i]
    OBVIOUS
  <2>1. n + i \in 1 .. n + k + 1 /\ (n + i) - n = i /\ (n + i <= n + 1 => i = 1)
    BY <1>2
  <2>2. U[n + i] = IF n + i <= n + 1 THEN T[n + i] ELSE P[(n + i) - n]
    BY <2>1
  <2> HIDE DEF U
  <2>3. CASE i = 1
    BY <1>2, <1>3, <2>2, <2>3
  <2>4. CASE i # 1
    BY <2>1, <2>2, <2>4
  <2> QED
    BY <2>3, <2>4
<1> HIDE DEF U
<1>7. U[1] = goal.from /\ U[n + k + 1] = P[Len(P)]
  <2>1. 1 \in 1 .. n + 1 /\ k + 1 \in 1 .. k + 1 /\ n + (k + 1) = n + k + 1
    BY <1>2
  <2> QED
    BY <1>2, <1>3, <1>5, <1>6, <2>1
<1>8. ASSUME NEW i \in 1 .. k
      PROVE  /\ LeadsTo(M[n + i], U[(n + i) + 1])
             /\ \E l \in Arcs(U[n + i]) : RemoteOf(l) = U[(n + i) + 1]
             /\ P[i] \in Routers /\ P[i + 1] \in Routers /\ P[i] # P[i + 1]
             /\ LeadsTo(M[n + i], P[i + 1])
  <2>1. i \in 1 .. k + 1 /\ i + 1 \in 1 .. k + 1 /\ n + (i + 1) = (n + i) + 1
    BY <1>2
  <2>2. U[n + i] = P[i] /\ U[(n + i) + 1] = P[i + 1]
    <3>1. U[n + (i + 1)] = P[i + 1]
      BY <1>6, <2>1
    <3> QED
      BY <1>6, <2>1, <3>1
  <2>3. LeadsTo(M[n + i], P[i + 1])
    <3>1. M[n + i] = SegmentOf(P[i + 1])
      BY <1>1, <1>2
    <3> QED
      BY <3>1 DEF LeadsTo
  <2>4. P[i] \in Routers /\ P[i + 1] \in Routers
    BY <1>2, <2>1
  <2>5. P[i] # P[i + 1] /\ \E l \in Arcs(P[i]) : RemoteOf(l) = P[i + 1]
    BY <1>1
  <2> QED
    BY <2>2, <2>3, <2>4, <2>5
<1>9. ASSUME NEW i \in 1 .. n + k
      PROVE  /\ LeadsTo(M[i], U[i + 1])
             /\ U[i] = U[i + 1] \/ \E l \in Arcs(U[i]) : RemoteOf(l) = U[i + 1]
  <2>1. CASE i \in 1 .. n
    <3>1. i \in 1 .. n + 1 /\ i + 1 \in 1 .. n + 1
      BY <1>2, <2>1
    <3>2. U[i] = T[i] /\ U[i + 1] = T[i + 1]
      BY <1>5, <3>1
    <3>3. M[i] = L[i]
      BY <1>2, <2>1
    <3> QED
      BY <1>3, <2>1, <3>2, <3>3
  <2>2. CASE i > n
    <3>1. PICK j : j = i - n
      OBVIOUS
    <3>2. j \in 1 .. k /\ i = n + j
      BY <1>2, <2>2, <3>1
    <3> QED
      BY <1>8, <3>2
  <2> QED
    BY <1>2, <2>1, <2>2
<1>10. ASSUME NEW i \in 1 .. (n + k) - 1 PROVE M[i] # M[i + 1]
  <2>1. CASE i + 1 \in 1 .. n
    <3>1. i \in 1 .. n - 1 /\ i \in 1 .. n
      <4>1. n \in Nat
        BY <1>2
      <4> QED
        BY <2>1, <4>1
    <3> QED
      BY <1>2, <1>3, <2>1, <3>1
  <2>2. CASE i + 1 > n
    <3>1. PICK j : j = (i + 1) - n
      OBVIOUS
    <3>2. j \in 1 .. k /\ i + 1 = n + j
      BY <1>2, <2>2, <3>1
    <3>3. /\ LeadsTo(M[i + 1], P[j + 1]) /\ P[j] # P[j + 1]
          /\ P[j] \in Routers /\ P[j + 1] \in Routers
      BY <1>8, <3>2
    <3>4. LeadsTo(M[i], P[j])
      <4>1. i \in 1 .. n + k /\ j \in 1 .. k + 1
        BY <1>2, <3>2
      <4>2. U[i + 1] = P[j]
        BY <1>6, <3>2, <4>1
      <4> QED
        BY <1>9, <4>1, <4>2
    <3>5. i \in 1 .. Len(M)
      BY <1>2
    <3>6. PICK r \in Routers : LeadsTo(M[i], r) /\ \A q \in Routers \ {r} : ~LeadsTo(M[i], q)
      BY <1>1, <3>5 DEF Unique
    <3> QED
      BY <3>3, <3>4, <3>6
  <2> QED
    BY <1>2, <2>1, <2>2
<1>11. Tour(M, U, P[Len(P)])
  BY <1>2, <1>4, <1>7, <1>9, <1>10 DEF Tour
<1> QED
  BY <1>1, <1>5, <1>11

LEMMA UniquePrefix ==
    ASSUME NEW L, NEW M, Len(L) \in Nat, Len(M) \in Nat, Len(L) <= Len(M),
           \A i \in 1 .. Len(L) : M[i] = L[i], Unique(M)
    PROVE  Unique(L)
<1> SUFFICES ASSUME NEW i \in 1 .. Len(L)
             PROVE  \E r \in Routers :
                       LeadsTo(L[i], r) /\ \A q \in Routers \ {r} : ~LeadsTo(L[i], q)
  BY DEF Unique
<1>1. i \in 1 .. Len(M) /\ M[i] = L[i]
  OBVIOUS
<1> QED
  BY <1>1 DEF Unique

(* The waypoint's own segment leads to it, over the SID asked for.         *)
LEMMA WaypointIsLed ==
    ASSUME Typed, pc = "back", WaypointSegment # NoSegment
    PROVE  /\ LeadsTo(WaypointSegment, Dst)
           /\ Hop.sid # NoSID => WaypointSegment.sid = Hop.sid
<1>1. goal.hops \in Seq(Waypoint) /\ section \in 1 .. Len(goal.hops) /\ Hop \in Waypoint
  BY HopTyped DEF Typed, TypeOK
<1>2. CASE Hop.sid = NoSID
  BY <1>2 DEF WaypointSegment, LeadsTo
<1>3. CASE Hop.sid # NoSID
  <2>1. WaypointSegment = SRv6(Hop.sid, SRv6Address(Node(Dst)))
    BY <1>3 DEF WaypointSegment
  <2>2. WaypointSegment.family = "srv6" /\ WaypointSegment.sid = Hop.sid
    BY <2>1 DEF SRv6
  <2>3. Hop \in Range(goal.hops)
    <3>1. DOMAIN goal.hops = 1 .. Len(goal.hops) /\ Hop = goal.hops[section]
      BY <1>1 DEF Hop
    <3> QED
      BY <1>1, <3>1, Zenon DEF Range
  <2>4. [router |-> Dst, sid |-> Hop.sid] = Hop
    BY <1>1 DEF Waypoint, Dst
  <2> QED
    BY <2>2, <2>3, <2>4 DEF LeadsTo
<1> QED
  BY <1>2, <1>3

(* A section after a tour: nothing was dropped as a duplicate, for the     *)
(* last segment leads to the source of the section and the first one away. *)
LEMMA NothingDropped ==
    ASSUME NEW T, Typed, Tour(list, T, src), Unique(list), pc = "back",
           Len(path) \in Nat \ {0}, path[1] = src,
           \A i \in 1 .. Len(path) : path[i] \in Routers,
           \A i \in 1 .. Len(path) - 1 : path[i + 1] # src
    PROVE  RemoveDuplicateFirst(SectionSegments) = SectionSegments
<1> SUFFICES ASSUME list # <<>>, SectionSegments # <<>>, Last(list) = Head(SectionSegments)
             PROVE  FALSE
  BY DEF RemoveDuplicateFirst
<1>1. list \in Seq(Segment) /\ SectionSegments \in Seq(Segment)
  BY SectionTyped DEF Typed, TypeOK
<1>2. Len(SectionSegments) = Len(path) - 1 /\ Len(SectionSegments) \in Nat \ {0}
  <2>1. Len(SectionSegments) = Len(path) - 1
    BY DEF SectionSegments
  <2> QED
    BY <1>1, <2>1, EmptySeq
<1>3. Head(SectionSegments) = SegmentOf(path[2])
  <2>1. 1 \in 1 .. Len(path) - 1 /\ 1 + 1 = 2
    BY <1>2
  <2>2. SectionSegments[1] = SegmentOf(path[2])
    BY <2>1 DEF SectionSegments
  <2> QED
    BY <1>1, <2>2
<1>4. path[2] \in Routers /\ path[2] # src
  <2>1. 2 \in 1 .. Len(path) /\ 1 \in 1 .. Len(path) - 1 /\ 1 + 1 = 2
    BY <1>2
  <2> QED
    BY <2>1
<1>5. PICK n : n = Len(list)
  OBVIOUS
<1>6. n \in Nat \ {0} /\ n \in 1 .. n
  BY <1>1, <1>5, EmptySeq
<1>7. LeadsTo(list[n], src) /\ src \in Routers
  <2>1. LeadsTo(list[n], T[n + 1]) /\ T[n + 1] = src
    BY <1>5, <1>6 DEF Tour
  <2> QED
    BY <2>1 DEF Typed, TypeOK
<1>8. LeadsTo(list[n], path[2])
  BY <1>3, <1>5 DEF LeadsTo, Last
<1> QED
  BY <1>4, <1>5, <1>6, <1>7, <1>8 DEF Unique

(* What NextSection makes of a tour.                                       *)
LEMMA SectionToured ==
    ASSUME Typed, PrevIsBefore, PathLeadsBack, WaypointsToured, NextSection, Unique(list')
    PROVE  \E T, f : /\ Tour(list', T, Dst) /\ Visits(list', T, f, section)
                     /\ f[section] = Len(list') + 1
<1>1. /\ EndOfSection /\ pc = "back" /\ goal.loose /\ WaypointSegment # NoSegment
      /\ list' = AppendIfNotDuplicate(list \o RemoveDuplicateFirst(SectionSegments),
                                      WaypointSegment)
  BY DEF NextSection, EndOfSection
<1>2. /\ list \in Seq(Segment) /\ SectionSegments \in Seq(Segment)
      /\ WaypointSegment \in Segment /\ Dst \in Routers
      /\ section \in 1 .. Len(goal.hops)
  BY <1>1, SectionTyped, WaypointSegmentTyped DEF Typed, TypeOK
<1>3. /\ Len(path) \in Nat \ {0} /\ path[1] = src /\ path[Len(path)] = Dst
      /\ \A i \in 1 .. Len(path) : path[i] \in Routers
      /\ \A i \in 1 .. Len(path) - 1 :
            /\ path[i + 1] # src /\ path[i] # path[i + 1]
            /\ \E l \in Arcs(path[i]) : RemoteOf(l) = path[i + 1]
  BY <1>1, PathIsTravelled
<1>4. PICK L, S, w, M : L = list /\ S = SectionSegments /\ w = WaypointSegment /\ M = list'
  OBVIOUS
<1>5. PICK u : u = RemoveDuplicateFirst(SectionSegments)
  OBVIOUS
<1>6. u \in Seq(Segment)
  BY <1>2, <1>5, HeadTailProperties DEF RemoveDuplicateFirst
<1>7. PICK c : c = L \o u
  OBVIOUS
<1>8. /\ c \in Seq(Segment) /\ Len(L) \in Nat /\ Len(u) \in Nat /\ Len(c) = Len(L) + Len(u)
      /\ \A i \in 1 .. Len(L) : c[i] = L[i]
  <2>1. L \in Seq(Segment)
    BY <1>2, <1>4
  <2>2. Len(L) \in Nat /\ Len(u) \in Nat
    BY <1>6, <2>1, LenProperties
  <2>3. /\ L \o u \in Seq(Segment) /\ Len(L \o u) = Len(L) + Len(u)
        /\ \A i \in 1 .. Len(L) + Len(u) : (L \o u)[i] = IF i <= Len(L) THEN L[i] ELSE u[i - Len(L)]
    BY <1>6, <2>1, ConcatProperties
  <2> QED
    BY <1>7, <2>2, <2>3
<1>9. M = AppendIfNotDuplicate(c, w)
  BY <1>1, <1>4, <1>5, <1>7
<1>10. \/ M = c /\ c # <<>> /\ Last(c) = w
       \/ M = Append(c, w) /\ (c = <<>> \/ Last(c) # w)
  <2>1. CASE c = <<>> \/ Last(c) # w
    BY <1>9, <2>1 DEF AppendIfNotDuplicate
  <2>2. CASE ~(c = <<>> \/ Last(c) # w)
    BY <1>9, <2>2 DEF AppendIfNotDuplicate
  <2> QED
    BY <2>1, <2>2
<1>11. Unique(c)
  <2>1. Unique(M)
    BY <1>4
  <2>2. CASE M = c
    BY <2>1, <2>2
  <2>3. CASE M = Append(c, w)
    <3>1. w \in Segment
      BY <1>2, <1>4
    <3>2. /\ Len(c) \in Nat /\ Len(M) = Len(c) + 1 /\ \A i \in 1 .. Len(c) : M[i] = c[i]
      BY <1>8, <2>3, <3>1, AppendProperties, LenProperties
    <3> QED
      BY <2>1, <3>2, UniquePrefix
  <2> QED
    BY <1>10, <2>2, <2>3
<1>12. Unique(L)
  BY <1>8, <1>11, UniquePrefix
<1>13. PICK T, f : Tour(L, T, src) /\ Visits(L, T, f, section - 1)
  BY <1>1, <1>4, <1>12 DEF WaypointsToured
<1>14. u = S
  <2>1. Tour(list, T, src) /\ Unique(list)
    BY <1>4, <1>12, <1>13
  <2> QED
    BY <1>1, <1>3, <1>4, <1>5, <2>1, NothingDropped
<1>15. PICK P : P = path
  OBVIOUS
<1>16. PICK U : Tour(c, U, Dst) /\ \A i \in 1 .. Len(L) + 1 : U[i] = T[i]
  <2>1. Len(S) = Len(P) - 1 /\ \A i \in 1 .. Len(S) : S[i] = SegmentOf(P[i + 1])
    BY <1>3, <1>4, <1>15 DEF SectionSegments
  <2>2. L \in Seq(Segment) /\ S \in Seq(Segment) /\ Tour(L, T, P[1])
    BY <1>2, <1>3, <1>4, <1>13, <1>15
  <2>3. Unique(L \o S)
    BY <1>7, <1>11, <1>14
  <2>4. /\ Len(P) \in Nat \ {0} /\ \A i \in 1 .. Len(P) : P[i] \in Routers
        /\ \A i \in 1 .. Len(S) :
              P[i] # P[i + 1] /\ \E l \in Arcs(P[i]) : RemoteOf(l) = P[i + 1]
    BY <1>3, <1>15, <2>1
  <2>5. \E U : /\ Tour(L \o S, U, P[Len(P)])
               /\ \A i \in 1 .. Len(L) + 1 : U[i] = T[i]
    BY <2>1, <2>2, <2>3, <2>4, SectionTours, SMTT(30)
  <2> QED
    BY <1>3, <1>7, <1>14, <1>15, <2>5
<1>17. LeadsTo(w, Dst) /\ (Hop.sid # NoSID => w.sid = Hop.sid) /\ w \in Segment
  BY <1>1, <1>2, <1>4, WaypointIsLed
<1>18. PICK V : Tour(M, V, Dst) /\ \A i \in 1 .. Len(L) + 1 : V[i] = T[i]
  <2>1. CASE M = c
    BY <1>16, <2>1
  <2>2. CASE M = Append(c, w) /\ (c = <<>> \/ Last(c) # w)
    <3>1. c = <<>> \/ c[Len(c)] # w
      BY <2>2 DEF Last
    <3>2. PICK V : Tour(Append(c, w), V, Dst) /\ \A i \in 1 .. Len(c) + 1 : V[i] = U[i]
      <4>1. PICK d : d = Dst
        OBVIOUS
      <4>2. /\ c \in Seq(Segment) /\ w \in Segment /\ d \in Routers
            /\ Tour(c, U, d) /\ LeadsTo(w, d)
        BY <1>2, <1>8, <1>16, <1>17, <4>1
      <4>3. \E V : Tour(Append(c, w), V, d) /\ \A i \in 1 .. Len(c) + 1 : V[i] = U[i]
        BY <3>1, <4>2, TourGrows
      <4> QED
        BY <4>1, <4>3
    <3>3. \A i \in 1 .. Len(L) + 1 : i \in 1 .. Len(c) + 1
      BY <1>8
    <3>4. \A i \in 1 .. Len(L) + 1 : V[i] = T[i]
      BY <1>16, <3>2, <3>3
    <3> QED
      BY <2>2, <3>2, <3>4
  <2> QED
    BY <1>10, <2>1, <2>2
<1>19. /\ Len(M) \in Nat \ {0} /\ M[Len(M)] = w /\ Len(L) <= Len(M)
       /\ \A i \in 1 .. Len(L) : M[i] = L[i]
  <2>1. CASE M = c /\ c # <<>> /\ Last(c) = w
    BY <1>8, <2>1, EmptySeq DEF Last
  <2>2. CASE M = Append(c, w)
    <3>1. /\ Len(c) \in Nat /\ Len(M) = Len(c) + 1 /\ M[Len(c) + 1] = w
          /\ \A i \in 1 .. Len(c) : M[i] = c[i]
      BY <1>8, <1>17, <2>2, AppendProperties, LenProperties
    <3> QED
      BY <1>8, <3>1
  <2> QED
    BY <1>10, <2>1, <2>2
<1>20. PICK m : m = section - 1
  OBVIOUS
<1>21. /\ m \in Nat /\ m + 1 = section
  BY <1>2, <1>20
<1>22. Visits(M, V, f, m)
  BY <1>8, <1>13, <1>18, <1>19, <1>20, <1>21, VisitsStay
<1>23. V[Len(M) + 1] = goal.hops[m + 1].router
  BY <1>18, <1>21 DEF Tour, Dst, Hop
<1>24. goal.hops[m + 1].sid # NoSID => Len(M) > 0 /\ M[Len(M)].sid = goal.hops[m + 1].sid
  BY <1>17, <1>19, <1>21 DEF Hop
<1>25. \E g : Visits(M, V, g, m + 1) /\ g[m + 1] = Len(M) + 1
  BY <1>19, <1>21, <1>22, <1>23, <1>24, VisitsGrow
<1> QED
  BY <1>4, <1>18, <1>21, <1>25

LEMMA TourFrame ==
    ASSUME UNCHANGED <<ted, goal>>
    PROVE  /\ \A L, T, r : Tour(L, T, r)' = Tour(L, T, r)
           /\ \A L, T, f, m : Visits(L, T, f, m)' = Visits(L, T, f, m)
           /\ \A L : Unique(L)' = Unique(L)
<1> QED
  BY DEF Tour, Visits, Unique, LeadsTo, Arcs, RemoteOf, SegmentOf, NodeSegment, Node, Routers,
         Cost

LEMMA InitToured == Init => PrevIsBefore /\ WaypointsToured
BY DEF Init, PrevIsBefore, Running, WaypointsToured

LEMMA SubmitToured ==
    ASSUME Typed, ListLeads, pc = "idle", UNCHANGED <<section, list>>, pc' = "init",
           src' \in Routers', goal'.from = src'
    PROVE  WaypointsToured'
<1>1. list' = <<>> /\ section' = 1 /\ Len(list') = 0
  BY DEF ListLeads, Typed, IdleIsFresh
<1> DEFINE T == [i \in 1 .. 1 |-> src']
           f == [h \in 1 .. 0 |-> 1]
<1>2. T \in [1 .. 0 + 1 -> Routers'] /\ T[1] = src' /\ f \in [1 .. 0 -> 1 .. 0 + 1]
  OBVIOUS
<1>3. PICK U, g : U = T /\ g = f
  OBVIOUS
<1> HIDE DEF T, f
<1>4. Tour(list, U, src)'
  BY <1>1, <1>2, <1>3 DEF Tour
<1>5. Visits(list, U, g, section - 1)'
  BY <1>1, <1>2, <1>3 DEF Visits
<1> QED
  BY <1>4, <1>5 DEF WaypointsToured

(* A step between that changes neither the list nor the section.           *)
LEMMA TouredFrame ==
    ASSUME WaypointsToured, UNCHANGED <<ted, goal, list, section, src>>,
           \/ pc' = pc
           \/ /\ pc \in {"init", "select", "relax", "back"}
              /\ pc' \in {"init", "select", "relax", "back", "failed"}
    PROVE  WaypointsToured'
<1>1. Unique(list)' = Unique(list)
  BY TourFrame
<1>2. PICK r, s : r = Dst /\ s = src
  OBVIOUS
<1>3. Dst' = r /\ src' = s
  BY <1>2 DEF Dst, Hop
<1>4. PICK L, m, n : L = list /\ m = section - 1 /\ n = Len(goal.hops)
  OBVIOUS
<1>5. list' = L /\ section' - 1 = m /\ Len(goal'.hops) = n
  BY <1>4
<1>6. \A T, f : /\ Tour(list, T, src)' = Tour(L, T, s)
                /\ Tour(list, T, Dst)' = Tour(L, T, r)
                /\ Visits(list, T, f, section - 1)' = Visits(L, T, f, m)
                /\ Visits(list, T, f, Len(goal.hops))' = Visits(L, T, f, n)
  BY <1>3, <1>5
     DEF Tour, Visits, LeadsTo, Arcs, RemoteOf, SegmentOf, NodeSegment, Node, Routers
<1> SUFFICES ASSUME goal'.loose /\ Unique(list)'
             PROVE  /\ pc' \in {"init", "select", "relax", "back"} =>
                          \E T, f : Tour(L, T, s) /\ Visits(L, T, f, m)
                    /\ pc' = "found" =>
                          \E T, f : Tour(L, T, r) /\ Visits(L, T, f, n) /\ f[n] = Len(L) + 1
  BY <1>5, <1>6 DEF WaypointsToured
<1>7. goal.loose /\ Unique(list)
  BY <1>1
<1>8. pc \in {"init", "select", "relax", "back"} =>
          \E T, f : Tour(L, T, s) /\ Visits(L, T, f, m)
  BY <1>2, <1>4, <1>7 DEF WaypointsToured
<1>9. pc = "found" => \E T, f : Tour(L, T, r) /\ Visits(L, T, f, n) /\ f[n] = Len(L) + 1
  BY <1>2, <1>4, <1>7 DEF WaypointsToured
<1> QED
  BY <1>8, <1>9

LEMMA TouredStep ==
    ASSUME Typed, ListLeads, PrevIsBefore, PathLeadsBack, WaypointsToured, [Next]_vars
    PROVE  WaypointsToured'
<1>1. CASE UpdateTED /\ UNCHANGED <<pc, spfVars, callVars, path>>
  <2>1. applied < Len(listing)
    BY <1>1 DEF UpdateTED, UpdateNode, UpdateLink, UpdatePrefix, UpdateSRv6SID,
                IgnoreForeign, Applying
  <2>2. Len(listing) \in Nat
    BY TEDAssumption DEF Typed
  <2>3. pc' = "idle"
    BY <1>1, <2>1, <2>2 DEF Typed, TypeOK, Published
  <2> QED
    BY <2>3 DEF WaypointsToured
<1>2. ASSUME NEW from \in Routers, NEW to, NEW w, NEW m, Submit(from, to, w, m)
      PROVE  WaypointsToured'
  <2>1. /\ pc = "idle" /\ pc' = "init" /\ UNCHANGED <<section, list, ted>>
        /\ src' = from /\ goal'.from = from
    BY <1>2 DEF Submit, tedVars
  <2>2. Routers' = Routers
    BY <2>1 DEF Routers
  <2> QED
    BY <2>1, <2>2, SubmitToured
<1>3. CASE NextSection
  <2>1. /\ pc = "back" /\ UNCHANGED <<ted, goal>> /\ goal.hops \in Seq(Waypoint)
        /\ section \in 1 .. Len(goal.hops)
    BY <1>3 DEF NextSection, EndOfSection, tedVars, Typed, TypeOK
  <2> SUFFICES ASSUME goal'.loose /\ Unique(list)'
               PROVE  /\ pc' \in {"init", "select", "relax", "back"} =>
                            \E T, f : Tour(list, T, src)' /\ Visits(list, T, f, section - 1)'
                      /\ pc' = "found" =>
                            \E T, f : /\ Tour(list, T, Dst)'
                                      /\ Visits(list, T, f, Len(goal.hops))'
                                      /\ f[Len(goal'.hops)] = Len(list') + 1
    BY DEF WaypointsToured
  <2>2. PICK M, d, m, n : M = list' /\ d = Dst /\ m = section /\ n = Len(goal.hops)
    OBVIOUS
  <2>3. Unique(M)
    <3>1. Unique(M)'
      BY <2>2 DEF Unique, LeadsTo
    <3> QED
      BY <2>1, <3>1, TourFrame
  <2>4. PICK T, f : Tour(M, T, d) /\ Visits(M, T, f, m) /\ f[m] = Len(M) + 1
    <3>1. Unique(list')
      BY <2>2, <2>3
    <3>2. \E T, f : /\ Tour(list', T, Dst) /\ Visits(list', T, f, section)
                    /\ f[section] = Len(list') + 1
      BY <1>3, <3>1, SectionToured
    <3> QED
      BY <2>2, <3>2
  <2>5. \A e : Tour(M, T, e)' = Tour(M, T, e)
    BY <2>1 DEF Tour, LeadsTo, Arcs, RemoteOf, SegmentOf, NodeSegment, Node, Routers
  <2>6. \A h : Visits(M, T, f, h)' = Visits(M, T, f, h)
    BY <2>1 DEF Visits
  <2>7. CASE MoreSections
    <3>1. pc' = "init" /\ section' - 1 = m /\ src' = d
      BY <1>3, <2>1, <2>2, <2>7 DEF NextSection
    <3>2. Tour(list, T, src)'
      <4>1. Tour(M, T, d)'
        BY <2>4, <2>5
      <4> QED
        BY <2>2, <3>1, <4>1 DEF Tour, LeadsTo, Arcs, RemoteOf, SegmentOf, NodeSegment, Node,
                                Routers
    <3>3. Visits(list, T, f, section - 1)'
      BY <2>1, <2>2, <2>4, <3>1 DEF Visits
    <3> QED
      BY <3>1, <3>2, <3>3
  <2>8. CASE ~MoreSections
    <3>1. /\ pc' = "found" /\ UNCHANGED <<section, src>> /\ m = n
      BY <1>3, <2>1, <2>2, <2>8 DEF NextSection, MoreSections
    <3>2. Dst' = d
      BY <2>1, <2>2, <3>1 DEF Dst, Hop
    <3>3. Tour(list, T, Dst)'
      BY <2>1, <2>2, <2>4, <3>2
         DEF Tour, LeadsTo, Arcs, RemoteOf, SegmentOf, NodeSegment, Node, Routers
    <3>4. Visits(list, T, f, Len(goal.hops))' /\ f[Len(goal'.hops)] = Len(list') + 1
      BY <2>1, <2>2, <2>4, <3>1 DEF Visits
    <3> QED
      BY <3>1, <3>3, <3>4
  <2> QED
    BY <2>7, <2>8
<1>4. CASE Found
  BY <1>4 DEF Found, WaypointsToured
<1>5. CASE Compute /\ ~Found /\ ~NextSection
  <2>1. /\ UNCHANGED <<ted, goal, list, section, src>>
        /\ pc \in {"init", "select", "relax", "back"}
        /\ pc' \in {"init", "select", "relax", "back", "failed"}
    BY <1>5 DEF Compute, InitNodeMap, SourceWithoutSID, Select, Arrive, NextNodeNotFound,
                LinkWithoutMetric, RelaxKnown, RelaxNew, Relaxed, Relaxing, RemoteWithoutSID,
                Calculated, StepBack, WaypointWithoutSRv6, EndOfSection, Fail, callVars, tedVars
  <2> QED
    BY <2>1, TouredFrame
<1>6. CASE UNCHANGED vars
  BY <1>6, TouredFrame DEF vars, callVars, tedVars
<1> QED
  BY <1>1, <1>2, <1>3, <1>4, <1>5, <1>6 DEF Next, Request, Recompute

LEMMA TouredIsVisited == Typed /\ WaypointsToured => ListVisitsWaypoints
<1> DEFINE tour == <<goal.from>> \o [i \in 1 .. Len(list) |-> CHOOSE r \in Routers : LeadsTo(list[i], r)]
           visit(i, h) == /\ tour[i] = h.router
                          /\ h.sid # NoSID => i > 1 /\ list[i - 1].sid = h.sid
<1> SUFFICES ASSUME Typed, WaypointsToured, pc = "found", goal.loose, DistinctSIDs
             PROVE  /\ \A i \in 1 .. Len(list) :
                          \/ tour[i] = tour[i + 1]
                          \/ \E l \in Arcs(tour[i]) : RemoteOf(l) = tour[i + 1]
                    /\ \A i \in 1 .. Len(list) - 1 : list[i] # list[i + 1]
                    /\ \E f \in [1 .. Len(goal.hops) -> 1 .. Len(tour)] :
                          /\ \A h \in 1 .. Len(goal.hops) : visit(f[h], goal.hops[h])
                          /\ \A h \in 1 .. Len(goal.hops) - 1 : f[h] <= f[h + 1]
                          /\ f[Len(goal.hops)] = Len(tour)
  BY DEF ListVisitsWaypoints
<1>1. PICK L, n : L = list /\ n = Len(L)
  OBVIOUS
<1>2. n \in Nat /\ L \in Seq(Segment) /\ Len(list) = n /\ goal.from \in Names
  BY <1>1, LenProperties DEF Typed, TypeOK
<1>3. PICK T, f : /\ Tour(L, T, Dst) /\ Visits(L, T, f, Len(goal.hops))
                  /\ f[Len(goal.hops)] = n + 1
  BY <1>1 DEF WaypointsToured, DistinctSIDs, Unique
<1>4. /\ T \in [1 .. n + 1 -> Routers] /\ T[1] = goal.from
      /\ \A i \in 1 .. n : /\ LeadsTo(L[i], T[i + 1])
                           /\ T[i] = T[i + 1] \/ \E l \in Arcs(T[i]) : RemoteOf(l) = T[i + 1]
      /\ \A i \in 1 .. n - 1 : L[i] # L[i + 1]
  BY <1>1, <1>3 DEF Tour
<1> DEFINE ends == [i \in 1 .. Len(list) |-> CHOOSE r \in Routers : LeadsTo(list[i], r)]
<1>5. \A i \in 1 .. n : ends[i] = T[i + 1]
  <2> SUFFICES ASSUME NEW i \in 1 .. n PROVE ends[i] = T[i + 1]
    OBVIOUS
  <2>1. T[i + 1] \in Routers /\ LeadsTo(L[i], T[i + 1])
    BY <1>2, <1>4
  <2>2. PICK r \in Routers : LeadsTo(L[i], r) /\ \A q \in Routers \ {r} : ~LeadsTo(L[i], q)
    BY <1>1 DEF DistinctSIDs
  <2>3. (CHOOSE q \in Routers : LeadsTo(L[i], q)) \in Routers
        /\ LeadsTo(L[i], CHOOSE q \in Routers : LeadsTo(L[i], q))
    BY <2>1
  <2>4. ends[i] = CHOOSE q \in Routers : LeadsTo(L[i], q)
    BY <1>1
  <2> QED
    BY <2>1, <2>2, <2>3, <2>4
<1>6. ends \in Seq(Routers) /\ Len(ends) = n
  <2>1. DOMAIN ends = 1 .. n
    BY <1>2
  <2>2. \A i \in 1 .. n : ends[i] \in Routers
    <3> SUFFICES ASSUME NEW i \in 1 .. n PROVE ends[i] \in Routers
      OBVIOUS
    <3>1. i + 1 \in 1 .. n + 1
      BY <1>2
    <3> QED
      BY <1>4, <1>5, <3>1
  <2>3. ends \in [1 .. n -> Routers]
    BY <2>1, <2>2
  <2> QED
    BY <1>2, <2>3
<1> HIDE DEF ends
<1>7. Len(tour) = n + 1 /\ \A i \in 1 .. n + 1 : tour[i] = T[i]
  <2>1. PICK e, a : e = ends /\ a = <<goal.from>>
    OBVIOUS
  <2>2. tour = a \o e
    BY <2>1 DEF ends
  <2> HIDE DEF tour
  <2>3. PICK s : s = tour
    OBVIOUS
  <2>4. /\ Len(a) = 1 /\ a[1] = goal.from /\ a \in Seq(Names) /\ e \in Seq(Routers) /\ Len(e) = n
    BY <1>2, <1>6, <2>1
  <2>5. Len(a \o e) = n + 1 /\ \A i \in 1 .. n + 1 : (a \o e)[i] = IF i <= 1 THEN a[i] ELSE e[i - 1]
    <3>1. a \in Seq(Names \cup Routers) /\ e \in Seq(Names \cup Routers)
      BY <2>4
    <3>2. /\ Len(a \o e) = Len(a) + Len(e)
          /\ \A i \in 1 .. Len(a) + Len(e) :
                (a \o e)[i] = IF i <= Len(a) THEN a[i] ELSE e[i - Len(a)]
      BY <3>1, ConcatProperties
    <3> QED
      BY <1>2, <2>4, <3>2
  <2>6. ASSUME NEW i \in 1 .. n + 1 PROVE s[i] = T[i]
    <3>1. CASE i = 1
      BY <1>4, <2>2, <2>3, <2>4, <2>5, <3>1
    <3>2. CASE i # 1
      <4>1. i - 1 \in 1 .. n /\ (i - 1) + 1 = i /\ ~(i <= 1)
        BY <1>2, <3>2
      <4>2. e[i - 1] = T[(i - 1) + 1]
        BY <1>5, <2>1, <4>1
      <4> QED
        BY <2>2, <2>3, <2>5, <4>1, <4>2
    <3> QED
      BY <3>1, <3>2
  <2> QED
    BY <2>2, <2>3, <2>5, <2>6
<1>8. \A i \in 1 .. n : i \in 1 .. n + 1 /\ i + 1 \in 1 .. n + 1
  BY <1>2
<1> HIDE DEF tour
<1>9. \A i \in 1 .. Len(list) :
         \/ tour[i] = tour[i + 1]
         \/ \E l \in Arcs(tour[i]) : RemoteOf(l) = tour[i + 1]
  BY <1>2, <1>4, <1>7, <1>8
<1>10. f \in [1 .. Len(goal.hops) -> 1 .. Len(tour)]
  BY <1>1, <1>3, <1>7 DEF Visits
<1>11. \A h \in 1 .. Len(goal.hops) : visit(f[h], goal.hops[h])
  BY <1>1, <1>3, <1>7, <1>10 DEF Visits
<1> QED
  BY <1>1, <1>2, <1>3, <1>4, <1>7, <1>9, <1>10, <1>11 DEF Visits

(* What CSPFWithLooseSourceRouting joins from its sections (cspf.go        *)
(* 41-81, 107-121) is one tour over links of the TED that visits the       *)
(* waypoints in order, over the SID given for one, and ends at the         *)
(* destination.  When no two routers share a SID, removeDuplicateFirst     *)
(* finds nothing to drop and no segment is there twice in a row.  Costs do *)
(* not matter: this holds when sums did not fit into 32 bits, too.         *)
THEOREM WaypointsAreVisited == Spec => []ListVisitsWaypoints
<1> DEFINE Inv == PInv /\ PrevIsBefore /\ ListLeads /\ WaypointsToured
<1>1. Init => Inv
  BY InitSearch, InitLeads, InitToured
<1>2. Inv /\ [Next]_vars => Inv'
  BY SearchStep, LeadsStep, PrevStep, TouredStep DEF PInv, IInv
<1>3. Inv => ListVisitsWaypoints
  BY TouredIsVisited DEF PInv, IInv
<1> HIDE DEF Inv
<1> QED
  BY <1>1, <1>2, <1>3, PTL DEF Spec
=============================================================================
