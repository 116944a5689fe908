------------------------------- MODULE MCCSPF --------------------------------
(* Instances of CSPF: the lists of elements GoBGP hands over.              *)
EXTENDS CSPF

AS == 65000
Loopback(r) == LsPrefix(r, TRUE, TRUE, 1)

(* Two routers with a link, in every order of the elements, one of them    *)
(* listed twice and one of another AS.                                     *)
Small ==
    <<NodeElem("a", AS, 4, 8), NodeElem("b", AS, 0, 0),
      PrefixElem("a", AS, LsPrefix("pa", TRUE, TRUE, 1)),
      PrefixElem("a", AS, LsPrefix("pa", TRUE, TRUE, 1)),
      PrefixElem("b", AS, LsPrefix("pb", TRUE, TRUE, 2)),
      LinkElem("a", "b", AS, AS, Link([te |-> 1], 3, {})),
      LinkElem("b", "x", AS, AS + 1, Link([te |-> 1], 0, {}))>>
Permuted(s) == {[i \in 1 .. Len(s) |-> s[p[i]]] : p \in SetToSeqs(1 .. Len(s))}

(* Four routers; te metrics of five links vary, 9 stands for none.         *)
Te(m) == IF m = 9 THEN [igp |-> 1] ELSE [igp |-> 1, te |-> m]
Arc(r, q, m) == LinkElem(r, q, AS, AS, Link(Te(m), 0, {}))
Labelled(r, index, begin) ==
    <<NodeElem(r, AS, begin, 0), PrefixElem(r, AS, LsPrefix(r, TRUE, TRUE, index))>>
Unlabelled(r) == <<PrefixElem(r, AS, LsPrefix(r, FALSE, FALSE, 0))>>
WithSRv6SID(r, sid) ==
    <<PrefixElem(r, AS, LsPrefix(r, TRUE, FALSE, 0)),
      SRv6Elem(r, AS, <<>>), SRv6Elem(r, AS, <<sid>>)>>

Mesh(m, c, d) ==
    Labelled("a", 1, 1) \o Labelled("b", 2, 1) \o c \o d
    \o <<Arc("a", "b", m[1]), Arc("a", "c", m[2]), Arc("b", "c", m[3]),
         Arc("c", "d", m[4]), Arc("b", "d", m[5]), Arc("d", "a", 1)>>

(* Besides the metrics: routers that share a label, have no SID, have an   *)
(* SRv6 SID or no SRGB; costs that do not fit.  The one without a SID has  *)
(* no loopback address either.                                             *)
Meshes ==
    {Mesh(<<m1, m2, m3, m4, m5>>, Labelled("c", 3, 1), Labelled("d", 4, 1)) :
        m1, m3 \in {0, 1, 5}, m2, m4 \in {1, 5}, m5 \in {1, 5, 9}}
    \cup {Mesh(<<1, 5, 1, 1, 5>>, c, d) :
        c \in {Labelled("c", 3, 1), Labelled("c", 2, 1), Unlabelled("c"), WithSRv6SID("c", "c1")},
        d \in {Labelled("d", 4, 1), Labelled("d", 3, 0), WithSRv6SID("d", "d1")}}
    \cup {Mesh(<<15, 5, 1, 15, m>>, Labelled("c", 3, 1), Labelled("d", 4, 1)) : m \in {5, 15}}

MCListings == Permuted(Small) \cup Meshes
MCWaypoints ==
    {<<>>, <<[router |-> "b", sid |-> ""]>>, <<[router |-> "d", sid |-> "d2"]>>,
     <<[router |-> "c", sid |-> ""], [router |-> "b", sid |-> ""]>>,
     <<[router |-> "x", sid |-> ""]>>}
=============================================================================
