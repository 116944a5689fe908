-------------------------------- MODULE CSPF ---------------------------------
(***************************************************************************)
(* Path computation, pkg/cspf/cspf.go, on a published TED: CSPF for one    *)
(* section, CSPFWithLooseSourceRouting for a request with waypoints.       *)
(*                                                                         *)
(* The iteration over a Go map in nextNode takes nodes of equal cost in    *)
(* any order; links are relaxed one at a time in the order of the node's   *)
(* list.  A router that nextNode returned is "calculated" when its links   *)
(* are done.  Costs are 32-bit sums.                                       *)
(***************************************************************************)
EXTENDS LsTED

CONSTANTS
    Waypoints,      \* the waypoint lists of requests
    Asked           \* the metrics requests ask for

NoSID == ""         \* a waypoint without a SID of its own

(* Names, and the empty one that stands for none.                          *)
Names == STRING \cup {""}
Waypoint == [router : STRING, sid : Names]

ASSUME RequestAssumption == Waypoints \subseteq Seq(Waypoint) /\ Asked \subseteq STRING

VARIABLES
    pc,         \* where the computation stands
    goal,       \* what is asked: from, metric, hops (waypoints, destination), loose
    section,    \* the hop the current section ends at
    src,        \* the router the current section starts at
    dist,       \* calculatingNodes: router -> [cost, prev, calculated]
    at,         \* the router whose links are relaxed
    link,       \* the next of its links
    path,       \* the routers of the section found so far, from its end
    list,       \* the segment list
    failure,    \* the error that ended the computation
    wrapped     \* history: a cost did not fit into 32 bits

spfVars  == <<dist, at, link, wrapped>>
callVars == <<goal, section, src, list, failure>>
vars == <<tedVars, pc, spfVars, callVars, path>>

------------------------------------------------------------------------------
(* Starting *)

Init ==
    /\ TEDInit
    /\ pc = "idle"
    /\ goal = [from |-> "", metric |-> "", hops |-> <<>>, loose |-> FALSE]
    /\ section = 1 /\ src = ""
    /\ dist = <<>> /\ at = "" /\ link = 1 /\ path = <<>>
    /\ list = <<>> /\ failure = "" /\ wrapped = FALSE

HasLoopback(r) == \E i \in 1 .. Len(Node(r).prefixes) : Node(r).prefixes[i].host

Submit(from, to, waypoints, metric) ==
    /\ pc = "idle" /\ Published
    /\ pc' = "init"
    /\ src' = from
    /\ goal' = [from |-> from, metric |-> metric, loose |-> waypoints # <<>>,
                hops |-> Append(waypoints, [router |-> to, sid |-> NoSID])]
    /\ UNCHANGED <<tedVars, section, spfVars, list, failure, path>>

(* CreateSRPolicy looks both ends up by router ID and needs a loopback     *)
(* address of each.  Without waypoints it calls CSPF, with them            *)
(* CSPFWithLooseSourceRouting, to which the destination is one more        *)
(* waypoint.                                                               *)
Request(from, to, waypoints, metric) ==
    /\ HasLoopback(from) /\ HasLoopback(to)
    /\ Submit(from, to, waypoints, metric)

(* A session that got a report without a path finds both ends by address:  *)
(* a router ID that is one, or the address of any prefix.                  *)
Recompute(from, to, metric) == Submit(from, to, <<>>, metric)

Hop == goal.hops[section]
Dst == Hop.router

Fail(reason) ==
    /\ pc' = "failed"
    /\ failure' = reason
    /\ UNCHANGED <<tedVars, goal, section, src, list, path>>

(* initNodeMap *)
InitNodeMap ==
    /\ pc = "init"
    /\ NodeSegment(Node(src)) # NoSegment
    /\ pc' = "select"
    /\ dist' = [r \in {src} |-> [cost |-> 0, prev |-> "", calculated |-> FALSE]]
    /\ UNCHANGED <<tedVars, callVars, at, link, wrapped, path>>

SourceWithoutSID ==
    /\ pc = "init"
    /\ NodeSegment(Node(src)) = NoSegment
    /\ Fail("source without SID")
    /\ UNCHANGED spfVars

------------------------------------------------------------------------------
(* The loop of spf *)

Open == {r \in DOMAIN dist : ~dist[r].calculated}
AnyOpen == Open            \* mutant: nextNode ignores the costs
Nearest == {r \in Open : \A q \in Open : dist[r].cost <= dist[q].cost}

(* nextNode returns a router other than the destination.                   *)
SelectAny(r) ==            \* mutant: the destination's own links are relaxed
    /\ pc = "select"
    /\ r \in Nearest
    /\ pc' = "relax"
    /\ at' = r
    /\ link' = 1
    /\ UNCHANGED <<tedVars, callVars, dist, wrapped, path>>
Select(r) ==
    /\ pc = "select"
    /\ r \in Nearest \ {Dst}
    /\ pc' = "relax"
    /\ at' = r
    /\ link' = 1
    /\ UNCHANGED <<tedVars, callVars, dist, wrapped, path>>

(* nextNode returns the destination.                                       *)
Arrive ==
    /\ pc = "select"
    /\ Dst \in Nearest
    /\ pc' = "back"
    /\ path' = <<Dst>>
    /\ UNCHANGED <<tedVars, callVars, spfVars>>

NextNodeNotFound ==
    /\ pc = "select"
    /\ Open = {}
    /\ Fail("next node not found")
    /\ UNCHANGED spfVars

(* updateNeighborCosts, for one link of the router at hand.                *)
CurrentLink == Node(at).links[link]
Remote == RemoteOf(CurrentLink)
Relaxing == pc = "relax" /\ link <= Len(Node(at).links)
HasMetric == goal.metric \in DOMAIN CurrentLink.metrics
Sum == dist[at].cost + CurrentLink.metrics[goal.metric]

Reached(r, cost) == [cost |-> cost, prev |-> at, calculated |-> FALSE]

LinkWithoutMetric ==
    /\ Relaxing /\ ~HasMetric
    /\ Fail("metric not defined")
    /\ UNCHANGED spfVars

Relaxed ==
    /\ wrapped' = (wrapped \/ Sum >= UintSpace)
    /\ link' = link + 1
    /\ UNCHANGED <<tedVars, pc, callVars, at, path>>

(* The remote router is known: it is reached at a lower cost, or not.      *)
WithCost(r, cost) ==
    [dist EXCEPT ![r].cost = cost, ![r].prev = at]

KeepKnown ==               \* mutant: the first way to a router stays
    /\ Relaxing /\ HasMetric
    /\ Remote \in DOMAIN dist
    /\ UNCHANGED dist
    /\ Relaxed
RelaxKnown ==
    /\ Relaxing /\ HasMetric
    /\ Remote \in DOMAIN dist
    /\ dist' = IF Sum % UintSpace < dist[Remote].cost
               THEN WithCost(Remote, Sum % UintSpace) ELSE dist
    /\ Relaxed

(* It is not: it joins the map, unless it has no SID.                      *)
RelaxNew ==
    /\ Relaxing /\ HasMetric
    /\ Remote \notin DOMAIN dist
    /\ NodeSegment(ted.heap[CurrentLink.remote]) # NoSegment
    /\ dist' = [r \in DOMAIN dist \cup {Remote} |->
                   IF r = Remote THEN Reached(r, Sum % UintSpace) ELSE dist[r]]
    /\ Relaxed

RemoteWithoutSID ==
    /\ Relaxing /\ HasMetric
    /\ Remote \notin DOMAIN dist
    /\ NodeSegment(ted.heap[CurrentLink.remote]) = NoSegment
    /\ Fail("remote without SID")
    /\ UNCHANGED spfVars

NotCalculated ==           \* mutant: a router's turn never ends
    /\ pc = "relax"
    /\ link > Len(Node(at).links)
    /\ pc' = "select"
    /\ UNCHANGED <<tedVars, callVars, spfVars, path>>
Calculated ==
    /\ pc = "relax"
    /\ link > Len(Node(at).links)
    /\ pc' = "select"
    /\ dist' = [dist EXCEPT ![at].calculated = TRUE]
    /\ UNCHANGED <<tedVars, callVars, at, link, wrapped, path>>

------------------------------------------------------------------------------
(* The path back, and the sections of a request with waypoints *)

(* buildSegmentListFromPath follows prevNode.                              *)
StepBack ==
    /\ pc = "back"
    /\ path[1] # src
    /\ path' = <<dist[path[1]].prev>> \o path
    /\ UNCHANGED <<tedVars, pc, spfVars, callVars>>

SegmentOf(r) == NodeSegment(Node(r))

(* The segments of the section, without one for its source.                *)
SectionSegments == [i \in 1 .. Len(path) - 1 |-> SegmentOf(path[i + 1])]

RemoveDuplicateFirst(segments) ==
    IF list # <<>> /\ segments # <<>> /\ Last(list) = Head(segments)
    THEN Tail(segments) ELSE segments
AppendAlways(segments, s) == Append(segments, s)   \* mutant: duplicates stay
AppendIfNotDuplicate(segments, s) ==
    IF segments = <<>> \/ Last(segments) # s THEN Append(segments, s) ELSE segments

(* buildWaypointSegment: an explicit SID is an SRv6 SID and takes the      *)
(* local address from the router's first SRv6 SID.                         *)
WaypointSegment ==
    IF Hop.sid = NoSID THEN SegmentOf(Dst)
    ELSE IF WithSRv6(Node(Dst)) = {} THEN NoSegment
    ELSE SRv6(Hop.sid, SRv6Address(Node(Dst)))

EndOfSection == pc = "back" /\ path[1] = src

(* CSPF without waypoints returns the section's segments.                  *)
Found ==
    /\ EndOfSection /\ ~goal.loose
    /\ pc' = "found"
    /\ list' = SectionSegments
    /\ UNCHANGED <<tedVars, spfVars, goal, section, src, failure, path>>

OneMoreSection == section <= Len(goal.hops)   \* mutant: one section too many
MoreSections == section < Len(goal.hops)

(* CSPFWithLooseSourceRouting goes on from the waypoint it reached.        *)
NextSection ==
    /\ EndOfSection /\ goal.loose
    /\ WaypointSegment # NoSegment
    /\ list' = AppendIfNotDuplicate(list \o RemoveDuplicateFirst(SectionSegments),
                                    WaypointSegment)
    /\ IF MoreSections
       THEN pc' = "init" /\ section' = section + 1 /\ src' = Dst
       ELSE pc' = "found" /\ UNCHANGED <<section, src>>
    /\ UNCHANGED <<tedVars, spfVars, goal, failure, path>>

WaypointWithoutSRv6 ==
    /\ EndOfSection /\ goal.loose
    /\ WaypointSegment = NoSegment
    /\ Fail("waypoint without SRv6 SID")
    /\ UNCHANGED spfVars

Compute ==
    \/ InitNodeMap \/ SourceWithoutSID
    \/ \E r \in DOMAIN dist : Select(r)
    \/ Arrive \/ NextNodeNotFound
    \/ LinkWithoutMetric \/ RelaxKnown \/ RelaxNew \/ RemoteWithoutSID \/ Calculated
    \/ StepBack \/ Found \/ NextSection \/ WaypointWithoutSRv6

Next ==
    \/ UpdateTED /\ UNCHANGED <<pc, spfVars, callVars, path>>
    \/ \E from, to \in Routers, m \in Asked :
          \/ \E w \in Waypoints : Request(from, to, w, m)
          \/ Recompute(from, to, m)
    \/ Compute

Spec == Init /\ [][Next]_vars

(* A computation runs on the goroutine of its caller and waits for nobody. *)
FairSpec == Spec /\ WF_vars(Compute)

------------------------------------------------------------------------------
(* Properties *)

Failures ==
    {"", "source without SID", "next node not found", "metric not defined",
     "remote without SID", "waypoint without SRv6 SID"}
Segment == [family : {"mpls"}, sid : Uint] \cup [family : {"srv6"}, sid : STRING, local : STRING]

(* The types of all variables; the loop only looks at routers and links    *)
(* that the TED has and a way back leads along known routers.              *)
TypeOK ==
    /\ TEDTypeOK
    /\ pc \in {"idle", "init", "select", "relax", "back", "found", "failed"}
    /\ goal \in [from : Names, metric : Names, hops : Seq(Waypoint), loose : BOOLEAN]
    /\ pc # "idle" => Published /\ section \in 1 .. Len(goal.hops) /\ src \in Routers
    /\ section \in Nat \ {0} /\ src \in Names
    /\ DOMAIN dist \subseteq Routers
    /\ dist \in [DOMAIN dist -> [cost : Uint, prev : Names, calculated : BOOLEAN]]
    /\ pc \in {"select", "relax", "back"} =>
          /\ src \in DOMAIN dist
          /\ \A r \in DOMAIN dist \ {src} : dist[r].prev \in DOMAIN dist
    /\ pc = "relax" => at \in DOMAIN dist
    /\ pc = "back" => path # <<>> /\ Dst \in DOMAIN dist /\ path[1] \in DOMAIN dist
    /\ at \in Names /\ link \in Nat \ {0}
    /\ path \in Seq(STRING) /\ list \in Seq(Segment)
    /\ failure \in Failures /\ wrapped \in BOOLEAN

(* The links of a router that have the metric asked for.                   *)
Arcs(r) == {l \in Range(Node(r).links) : goal.metric \in DOMAIN l.metrics}
Cost(l) == l.metrics[goal.metric]

(* A lower bound on distances: no link is shorter than the difference of   *)
(* the values at its ends.  Summed along a path from the source, it says   *)
(* that no path to a router costs less than the router's value.            *)
Feasible(bound) ==
    /\ bound[src] = 0
    /\ \A r \in Routers : \A l \in Arcs(r) : bound[RemoteOf(l)] <= bound[r] + Cost(l)

(* Costs beyond the destination's, and routers never reached, count as far *)
(* as the destination.                                                     *)
Bound ==
    [r \in Routers |->
        IF r \in DOMAIN dist /\ dist[r].cost < dist[Dst].cost THEN dist[r].cost
        ELSE dist[Dst].cost]

(* Every known router but the source was reached over a link from the      *)
(* router before it, at the cost of both.                                  *)
Tight ==
    \A r \in DOMAIN dist \ {src} :
        /\ dist[r].prev \in DOMAIN dist
        /\ \E l \in Arcs(dist[r].prev) :
              RemoteOf(l) = r /\ dist[r].cost = dist[dist[r].prev].cost + Cost(l)

(* When the destination is taken (cspf.go 135), its cost is optimal: the   *)
(* routers before it add up to it, and it is a lower bound for all paths.  *)
(* Costs that did not fit into 32 bits void this.                          *)
CostsAreOptimal ==
    pc = "back" /\ ~wrapped => Tight /\ Feasible(Bound)

(* Reference: distances from the source over paths of at most k links.     *)
Infinity == UintSpace * (Cardinality(Routers) + 1)
DistanceWithin[k \in Nat] ==
    IF k = 0 THEN [r \in Routers |-> IF r = src THEN 0 ELSE Infinity]
    ELSE LET before == DistanceWithin[k - 1]
             over(r) == UNION {{before[q] + Cost(l) : l \in {a \in Arcs(q) : RemoteOf(a) = r}} :
                                  q \in Routers}
         IN  [r \in Routers |-> Min({before[r]} \cup over(r))]
Distances == DistanceWithin[Cardinality(Routers) - 1]

(* The section that buildSegmentListFromPath returns goes from source to   *)
(* destination over links of the TED and is a shortest path.               *)
PathIsShortest ==
    EndOfSection /\ ~wrapped =>
        LET distance == Distances
        IN  /\ Last(path) = Dst
            /\ \A i \in 1 .. Len(path) - 1 : \E l \in Arcs(path[i]) :
                  /\ RemoteOf(l) = path[i + 1]
                  /\ distance[path[i + 1]] = distance[path[i]] + Cost(l)

(* A computation fails only for a reason: there is no path, or a router no *)
(* farther than the destination has a link without the metric, or a        *)
(* neighbour without a SID (cspf.go 129-184).  What lies beyond the        *)
(* destination is never looked at.                                         *)
FailureIsJustified ==
    pc = "failed" /\ ~wrapped =>
        LET distance == Distances
            limit    == IF Dst \in Routers THEN distance[Dst] ELSE Infinity
            near     == {r \in Routers \ {Dst} : distance[r] < Infinity /\ distance[r] <= limit}
        IN  \/ failure = "next node not found" /\ limit = Infinity
            \/ failure = "source without SID" /\ SegmentOf(src) = NoSegment
            \/ /\ failure = "metric not defined"
               /\ \E r \in near : Range(Node(r).links) # Arcs(r)
            \/ /\ failure = "remote without SID"
               /\ \E r \in near : \E l \in Arcs(r) : SegmentOf(RemoteOf(l)) = NoSegment
            \/ /\ failure = "waypoint without SRv6 SID"
               /\ Hop.sid # NoSID /\ WithSRv6(Node(Dst)) = {}

(* The router a segment leads to: a SID of its own, or one that the        *)
(* request gives for it.                                                   *)
LeadsTo(segment, r) ==
    \/ segment = SegmentOf(r)
    \/ segment.family = "srv6" /\ [router |-> r, sid |-> segment.sid] \in Range(goal.hops)
DistinctSIDs ==
    \A i \in 1 .. Len(list) : \E r \in Routers :
        LeadsTo(list[i], r) /\ \A q \in Routers \ {r} : ~LeadsTo(list[i], q)

(* What a request with waypoints is answered with, when no two routers     *)
(* share a SID: consecutive segments lead to neighbours, or to one router  *)
(* by different SIDs; the waypoints are visited in order, over the SID     *)
(* given for one; the last segment leads to the destination.  The sections *)
(* overlap in the waypoints (cspf.go 61-62, 107-121).                      *)
ListVisitsWaypoints ==
    pc = "found" /\ goal.loose /\ DistinctSIDs =>
        LET tour == <<goal.from>> \o
                    [i \in 1 .. Len(list) |-> CHOOSE r \in Routers : LeadsTo(list[i], r)]
            visit(i, h) == /\ tour[i] = h.router
                           /\ h.sid # NoSID => i > 1 /\ list[i - 1].sid = h.sid
        IN  /\ \A i \in 1 .. Len(list) :
                  \/ tour[i] = tour[i + 1]
                  \/ \E l \in Arcs(tour[i]) : RemoteOf(l) = tour[i + 1]
            /\ \A i \in 1 .. Len(list) - 1 : list[i] # list[i + 1]
            /\ \E f \in [1 .. Len(goal.hops) -> 1 .. Len(tour)] :
                  /\ \A h \in 1 .. Len(goal.hops) : visit(f[h], goal.hops[h])
                  /\ \A h \in 1 .. Len(goal.hops) - 1 : f[h] <= f[h + 1]
                  /\ f[Len(goal.hops)] = Len(tour)

(* Path computation and SID validation read the TED in two ways that must  *)
(* agree: where every Prefix-SID index fits its router's SRGB, a path that *)
(* is computed passes the check that explicit paths have to pass           *)
(* (grpc_server.go 339 spares it that check).                              *)
IndexesFitSRGBs ==
    \A r \in Routers : WithSID(Node(r)) # {} => HasLabel(Node(r), PrefixIndex(Node(r)))
ComputedPathsValidate ==
    /\ pc = "found" /\ IndexesFitSRGBs
    /\ \A h \in Range(goal.hops) : h.sid = NoSID
    => MissingSegments(list) = {}

(* A computation returns, on every TED: the loop of spf and the walk back  *)
(* along prevNode end, unless a cost did not fit into 32 bits.             *)
ComputationEnds == pc = "init" ~> (pc \in {"found", "failed"} \/ wrapped)
=============================================================================
