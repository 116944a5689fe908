------------------------------ MODULE MCPolaAPI ------------------------------
(* Instances of PolaAPI: GoBGP tables, sessions and requests.              *)
EXTENDS PolaAPI, TLC

AS == 65000

Node4(r, begin, end) ==
    Destination("node", 1, "node", NodeBody(r, AS, <<[begin |-> begin, end |-> end]>>))
PlainNode(r) == Destination("node", 1, "node", PlainBody(r, AS))
Host(name) == [prefix |-> name, host |-> TRUE, parses |-> TRUE]
Net(name) == [prefix |-> name, host |-> FALSE, parses |-> TRUE]
PrefixDst(reach, sids, sid) == Destination("prefix", 1, "prefix", PrefixBody(reach, sids, sid))
SID(algorithm, sid) == [algorithm |-> algorithm, sid |-> sid]
Arc(r, q, te, delay, adjSID, endX) ==
    Destination("link", 1, "link", LinkBody(r, q, AS, AS, 1, te, delay, adjSID, endX, TRUE))
Unattributed(d) == [d EXCEPT !.attr = "none"]

(* Router a announces a loopback and a network in one update, of which two *)
(* destinations are made; its Prefix-SID has index 0, and another of a     *)
(* flexible algorithm goes before it.  Router b has an SRv6 SID as well,   *)
(* announced in an update of two NLRIs.                                    *)
ReachA == <<PrefixNLRI("a", AS, <<Host("pa")>>), PrefixNLRI("a", AS, <<Net("na")>>)>>
ReachB == <<PrefixNLRI("b", AS, <<Host("pb")>>)>>
SRv6B == <<SRv6NLRI("b", AS, <<"s1">>), SRv6NLRI("b", AS + 1, <<"s9">>)>>
SRv6Destination == Destination("srv6SID", 1, "srv6SID", SRv6Body(SRv6B))

Full ==
    <<Arc("a", "b", 0, 3, 30, {"s2"}), Node4("a", 16, 24),
      PrefixDst(ReachA, <<SID(1, 5), SID(0, 0)>>, 7), PrefixDst(ReachA, <<SID(1, 5), SID(0, 0)>>, 7),
      PrefixDst(ReachB, <<>>, 3), Node4("b", 16, 20), SRv6Destination, SRv6Destination,
      Destination("link", 1, "link", LinkBody("b", "x", AS, AS + 1, 1, 1, 0, 31, {}, TRUE)),
      Unattributed(PlainNode("y"))>>

(* After a change: another loopback first, SIDs only of other algorithms,  *)
(* one label for b.                                                        *)
Changed ==
    <<PlainNode("a"), PrefixDst(ReachA, <<SID(1, 5)>>, 7),
      Arc("b", "a", 2, 0, 0, {}), Arc("a", "b", 2, 0, 0, {}), Node4("b", 20, 30),
      PrefixDst(<<PrefixNLRI("b", AS, <<Host("pb2")>>)>>, <<SID(0, 4)>>, 0), PrefixDst(ReachB, <<>>, 2)>>

(* Tables with a destination that cannot be converted.                     *)
Ambiguous(d) == [d EXCEPT !.paths = 2]
Unconverted ==
    {Ambiguous(PlainNode("c")), Destination("other", 1, "node", PlainBody("c", AS)),
     Destination("none", 1, "none", <<>>),
     Destination("node", 1, "node", NodeBody("c", AS, <<>>)),
     Destination("link", 1, "link", LinkBody("b", "c", AS, AS, 1, 1, 0, 0, {}, FALSE)),
     Destination("prefix", 1, "prefix", PrefixBody(NoReach, <<>>, 1)),
     PrefixDst(<<OtherNLRI>>, <<>>, 1),
     PrefixDst(<<PrefixNLRI("b", AS, <<>>)>>, <<>>, 1),
     PrefixDst(<<PrefixNLRI("b", AS, <<[Host("pc") EXCEPT !.parses = FALSE]>>)>>, <<>>, 1)}
OneUnconverted == CHOOSE d \in Unconverted : d.nlri = "link"

MCTables == {Full, Changed, Append(Changed, OneUnconverted)}
MCListings == {<<>>} \cup {GetBGPlsNLRIs(t) : t \in {x \in MCTables : Fetches(x)}}

(* SID s3 is a uSID in the locator of s1.                                  *)
MCLocators == [sid \in {"s1"} |-> [prefix |-> "loc1", bits |-> 48]]
MCUnder == {<<"s1", "loc1">>, <<"s3", "loc1">>}
MCSegments ==
    {GivenMPLS(label) : label \in {19, 29, 30, 45}}
    \cup {GivenSRv6("s3", declared) : declared \in {40, 64}} \cup {NotASID}

NoIntent == [type |-> "", metric |-> ""]
Held(key, label) == LSP(key, <<GivenMPLS(label)>>, NoIntent, {})
HeldByP == <<[Held(<<2, "pa">>, 16) EXCEPT !.state = "active"], [Held(<<1, "pb">>, 19) EXCEPT !.state = "down"]>>
MCSessionLists ==
    {<<[peer |-> "p", synced |-> FALSE, held |-> <<>>]>>,
     <<[peer |-> "p", synced |-> FALSE, held |-> <<>>],
       [peer |-> "p", synced |-> TRUE, held |-> HeldByP]>>}

(* With uSIDs, without, and without a TED.                                 *)
MCConfigurations == {<<TRUE, TRUE>>, <<TRUE, FALSE>>, <<FALSE, FALSE>>}
CallsAreAlike == Permutations(Calls)

------------------------------------------------------------------------------
(* Files of the command, and requests of other clients *)

File(session, color, asn) ==
    [session |-> session, srcAddr |-> "", dstAddr |-> "", srcRouter |-> "", dstRouter |-> "",
     name |-> "n", color |-> color, type |-> "", metric |-> "", segments |-> <<>>,
     waypoints |-> <<>>, asn |-> asn]
DynamicFile == [File("p", 1, AS) EXCEPT !.srcRouter = "a", !.dstRouter = "b",
                                        !.type = "dynamic", !.metric = "igp"]
ExplicitFile(list) == [File("p", 2, AS) EXCEPT !.srcRouter = "a", !.dstRouter = "b",
                                               !.type = "explicit", !.segments = list]
AddressFile(list) == [File("p", 1, 0) EXCEPT !.srcAddr = "pa", !.dstAddr = "pb",
                                             !.segments = list]

Added ==
    {addSRPolicyRequest(f, FALSE) :
        f \in {DynamicFile, ExplicitFile(<<GivenMPLS(19)>>),
               AddressFile(<<GivenSRv6("s3", 40)>>), AddressFile(<<GivenSRv6("s3", 64)>>)}}
    \cup {addSRPolicyRequest(AddressFile(<<GivenMPLS(30), GivenMPLS(45)>>), TRUE)}
(* A given list called dynamic, a SID that is none, and no color: none of  *)
(* them comes from the command.                                            *)
Other(f) == addSRPolicyRequest(f, FALSE)
MCCreateRequests ==
    Added \cup {[Other(AddressFile(<<GivenMPLS(29)>>)) EXCEPT !.type = "dynamic"],
                Other(AddressFile(<<NotASID>>)), Other([DynamicFile EXCEPT !.color = 0])}
MCDeleteRequests == {deleteSRPolicyRequest(AddressFile(<<>>))}
=============================================================================
