----------------------------- MODULE LsTEDProofs -----------------------------
(***************************************************************************)
(* What the UpdateTED methods make of a TED, element by element: it stays  *)
(* well formed, and it holds what the elements so far say (Merged).        *)
(***************************************************************************)
EXTENDS LsTED, FiniteSetsExt, WellFoundedInduction, SequenceTheorems, FiniteSetTheorems, TLAPS

(* A set of naturals that has a member has a least one.                    *)
LEMMA MinIsLeast ==
    ASSUME NEW S \in SUBSET Nat, S # {}
    PROVE  Min(S) \in S /\ \A n \in S : Min(S) <= n
<1> DEFINE R == OpToRel(<, Nat)
<1>1. IsWellFoundedOn(R, Nat)
  BY NatLessThanWellFounded
<1>2. \A x, y \in Nat : y < x => <<y, x>> \in R
  BY DEF OpToRel
<1> HIDE DEF R
<1>3. PICK x \in S : \A y \in S : ~(<<y, x>> \in R)
  BY <1>1, WFMin
<1>4. \A y \in S : x <= y
  <2> SUFFICES ASSUME NEW y \in S PROVE x <= y
    OBVIOUS
  <2>1. x \in Nat /\ y \in Nat /\ ~(y < x)
    BY <1>2, <1>3
  <2> QED
    BY <2>1
<1> QED
  BY <1>4 DEF Min

(* Induction over a set: what holds of 0 and of every successor holds of   *)
(* every natural.                                                          *)
LEMMA InductionOverSet ==
    ASSUME NEW S, 0 \in S, \A n \in Nat : n \in S => n + 1 \in S
    PROVE  \A n \in Nat : n \in S
<1> DEFINE T == {n \in Nat : n \notin S}
<1> SUFFICES ASSUME T # {} PROVE FALSE
  OBVIOUS
<1>1. Min(T) \in T /\ \A n \in T : Min(T) <= n
  BY MinIsLeast
<1>2. PICK m \in T : \A n \in T : m <= n
  BY <1>1
<1>3. m \in Nat /\ m \notin S /\ m # 0
  BY <1>2
<1>4. m - 1 \in Nat /\ m - 1 \notin T /\ (m - 1) + 1 = m
  BY <1>2, <1>3
<1>5. m - 1 \in S
  BY <1>4
<1> QED
  BY <1>3, <1>4, <1>5

(* A function can be iterated.                                             *)
LEMMA Iteration ==
    ASSUME NEW V, NEW start \in V, NEW next \in [V -> V]
    PROVE  \E f \in [Nat -> V] : f[0] = start /\ \A n \in Nat : f[n + 1] = next[f[n]]
<1> DEFINE Starts(n, h) == /\ h \in [0 .. n -> V] /\ h[0] = start
                           /\ \A k \in 0 .. (n - 1) : h[k + 1] = next[h[k]]
<1>1. \A n \in Nat : \E h : Starts(n, h)
  <2> DEFINE S == {n \in Nat : \E h : Starts(n, h)}
  <2>1. 0 \in S
    <3>1. Starts(0, [k \in 0 .. 0 |-> start])
      OBVIOUS
    <3> QED
      BY <3>1
  <2>2. ASSUME NEW n \in Nat, n \in S PROVE n + 1 \in S
    <3>1. PICK h : Starts(n, h)
      BY <2>2
    <3> DEFINE g == [k \in 0 .. (n + 1) |-> IF k = n + 1 THEN next[h[n]] ELSE h[k]]
    <3>2. h[n] \in V /\ \A k \in 0 .. n : h[k] \in V
      BY <3>1
    <3>3. g \in [0 .. (n + 1) -> V]
      BY <3>2
    <3>4. g[0] = start
      BY <3>1
    <3>5. ASSUME NEW k \in 0 .. n PROVE g[k + 1] = next[g[k]]
      <4>1. CASE k = n
        BY <4>1
      <4>2. CASE k # n
        <5>1. k \in 0 .. (n - 1)
          BY <4>2
        <5>2. g[k] = h[k] /\ g[k + 1] = h[k + 1]
          BY <4>2
        <5> QED
          BY <3>1, <5>1, <5>2
      <4> QED
        BY <4>1, <4>2
    <3>6. Starts(n + 1, g)
      <4>1. \A k \in 0 .. ((n + 1) - 1) : g[k + 1] = next[g[k]]
        BY <3>5
      <4> QED
        BY <3>3, <3>4, <4>1
    <3> QED
      <4>1. \E k : Starts(n + 1, k)
        BY <3>6, Zenon
      <4> HIDE DEF Starts
      <4> QED
        BY <4>1
  <2> HIDE DEF S
  <2>3. \A n \in Nat : n \in S
    BY <2>1, <2>2, InductionOverSet
  <2> QED
    BY <2>3 DEF S
<1>2. ASSUME NEW n \in Nat, NEW g, Starts(n, g), NEW m \in Nat, NEW h, Starts(m, h)
      PROVE  \A k \in Nat : k <= n /\ k <= m => g[k] = h[k]
  <2> DEFINE S == {k \in Nat : k <= n /\ k <= m => g[k] = h[k]}
  <2>1. 0 \in S
    BY <1>2
  <2>2. ASSUME NEW k \in Nat, k \in S PROVE k + 1 \in S
    <3> SUFFICES ASSUME k + 1 <= n, k + 1 <= m PROVE g[k + 1] = h[k + 1]
      OBVIOUS
    <3>1. g[k] = h[k] /\ k \in 0 .. (n - 1) /\ k \in 0 .. (m - 1)
      BY <2>2
    <3> QED
      BY <1>2, <3>1
  <2> HIDE DEF S
  <2>3. \A k \in Nat : k \in S
    BY <2>1, <2>2, InductionOverSet
  <2> QED
    BY <2>3 DEF S
<1> DEFINE f == [n \in Nat |-> (CHOOSE h : Starts(n, h))[n]]
<1>3. \A n \in Nat : Starts(n, CHOOSE h : Starts(n, h))
  BY <1>1
<1>4. ASSUME NEW n \in Nat, NEW h, Starts(n, h) PROVE f[n] = h[n]
  <2>1. PICK g : g = CHOOSE x : Starts(n, x)
    OBVIOUS
  <2>2. Starts(n, g) /\ f[n] = g[n]
    BY <1>3, <2>1
  <2> HIDE DEF Starts, f
  <2>3. \A k \in Nat : k <= n /\ k <= n => g[k] = h[k]
    BY <1>2, <1>4, <2>2
  <2> QED
    BY <2>2, <2>3
<1> HIDE DEF f
<1>5. \A n \in Nat : f[n] \in V
  BY <1>1, <1>4
<1>6. f \in [Nat -> V]
  BY <1>5 DEF f
<1>7. f[0] = start
  BY <1>1, <1>4
<1>8. ASSUME NEW n \in Nat PROVE f[n + 1] = next[f[n]]
  <2>1. PICK h : Starts(n + 1, h)
    BY <1>1
  <2> DEFINE g == [k \in 0 .. n |-> h[k]]
  <2>2. Starts(n, g)
    <3>1. \A k \in 0 .. n : k \in 0 .. (n + 1) /\ h[k] \in V
      BY <2>1
    <3>2. \A k \in 0 .. (n - 1) : k \in 0 .. n /\ k + 1 \in 0 .. n /\ k \in 0 .. ((n + 1) - 1)
      OBVIOUS
    <3>3. g \in [0 .. n -> V] /\ g[0] = h[0]
      BY <3>1
    <3>4. \A k \in 0 .. (n - 1) : g[k + 1] = next[g[k]]
      BY <2>1, <3>2
    <3> QED
      BY <2>1, <3>3, <3>4
  <2>3. f[n] = h[n] /\ f[n + 1] = h[n + 1]
    <3>1. f[n + 1] = h[n + 1]
      <4> HIDE DEF Starts
      <4> QED
        BY <1>4, <2>1
    <3>2. f[n] = g[n]
      <4> HIDE DEF Starts, g
      <4> QED
        BY <1>4, <2>2
    <3>3. g[n] = h[n]
      OBVIOUS
    <3> QED
      BY <3>1, <3>2, <3>3
  <2>4. h[n + 1] = next[h[n]]
    <3>1. n \in 0 .. ((n + 1) - 1)
      OBVIOUS
    <3> QED
      BY <2>1, <3>1
  <2> QED
    BY <2>3, <2>4
<1> QED
  BY <1>6, <1>7, <1>8

(* TEDTypeOK and LinksPointIntoTED, of any TED.                            *)
WellFormed(t) ==
    /\ t = [heap |-> t.heap, nodes |-> t.nodes]
    /\ t.heap \in Seq(LsNodes)
    /\ DOMAIN t.nodes \subseteq STRING
    /\ t.nodes = [r \in DOMAIN t.nodes |-> t.nodes[r]]
    /\ \A r \in DOMAIN t.nodes :
          t.nodes[r] \in 1 .. Len(t.heap) /\ t.heap[t.nodes[r]].router = r
    /\ \A i \in 1 .. Len(t.heap) :
          /\ t.heap[i].router \in DOMAIN t.nodes
          /\ t.nodes[t.heap[i].router] = i
          /\ \A k \in 1 .. Len(t.heap[i].links) :
                t.heap[i].links[k].remote \in 1 .. Len(t.heap)

LEMMA WellFormedTED ==
    WellFormed(ted) /\ applied \in 0 .. Len(listing) <=> TEDTypeOK /\ LinksPointIntoTED
BY DEF WellFormed, TEDTypeOK, LinksPointIntoTED, Node, Routers

(* A new node, without links, under a router ID that is not there yet.     *)
LEMMA AddNodeKeeps ==
    ASSUME NEW t, WellFormed(t), NEW n \in LsNodes, n.links = <<>>,
           n.router \notin DOMAIN t.nodes
    PROVE  /\ WellFormed(AddNode(t, n))
           /\ DOMAIN AddNode(t, n).nodes = DOMAIN t.nodes \cup {n.router}
<1> DEFINE u == AddNode(t, n)
           N == Len(t.heap)
<1>1. N \in Nat /\ t.heap \in Seq(LsNodes) /\ n.router \in STRING
  BY DEF WellFormed, LsNodes
<1>2. u.heap = Append(t.heap, n) /\ u = [heap |-> u.heap, nodes |-> u.nodes]
  BY DEF AddNode
<1>3. /\ u.nodes = [r \in DOMAIN t.nodes \cup {n.router} |->
                       IF r = n.router THEN N + 1 ELSE t.nodes[r]]
      /\ DOMAIN u.nodes = DOMAIN t.nodes \cup {n.router}
  BY DEF AddNode
<1>4. /\ u.heap \in Seq(LsNodes) /\ Len(u.heap) = N + 1
      /\ u.heap[N + 1] = n
      /\ \A i \in 1 .. N : u.heap[i] = t.heap[i]
  BY <1>1, <1>2, AppendProperties
<1> HIDE DEF u, N
<1>5. \A r \in DOMAIN u.nodes :
         u.nodes[r] \in 1 .. Len(u.heap) /\ u.heap[u.nodes[r]].router = r
  <2> SUFFICES ASSUME NEW r \in DOMAIN u.nodes
               PROVE  u.nodes[r] \in 1 .. Len(u.heap) /\ u.heap[u.nodes[r]].router = r
    OBVIOUS
  <2>1. CASE r = n.router
    BY <2>1, <1>1, <1>3, <1>4
  <2>2. CASE r # n.router
    <3>1. t.nodes[r] \in 1 .. N /\ t.heap[t.nodes[r]].router = r
      BY <2>2, <1>3 DEF WellFormed, N
    <3> QED
      BY <3>1, <2>2, <1>1, <1>3, <1>4
  <2> QED
    BY <2>1, <2>2
<1>6. \A i \in 1 .. Len(u.heap) :
         /\ u.heap[i].router \in DOMAIN u.nodes
         /\ u.nodes[u.heap[i].router] = i
         /\ \A k \in 1 .. Len(u.heap[i].links) :
               u.heap[i].links[k].remote \in 1 .. Len(u.heap)
  <2> SUFFICES ASSUME NEW i \in 1 .. Len(u.heap)
               PROVE  /\ u.heap[i].router \in DOMAIN u.nodes
                      /\ u.nodes[u.heap[i].router] = i
                      /\ \A k \in 1 .. Len(u.heap[i].links) :
                            u.heap[i].links[k].remote \in 1 .. Len(u.heap)
    OBVIOUS
  <2>1. CASE i = N + 1
    BY <2>1, <1>1, <1>3, <1>4
  <2>2. CASE i \in 1 .. N
    <3>1. /\ t.heap[i].router \in DOMAIN t.nodes
          /\ t.nodes[t.heap[i].router] = i
          /\ \A k \in 1 .. Len(t.heap[i].links) : t.heap[i].links[k].remote \in 1 .. N
      BY <2>2 DEF WellFormed, N
    <3> QED
      <4>1. u.heap[i] = t.heap[i]
        BY <2>2, <1>4
      <4>2. /\ u.heap[i].router \in DOMAIN u.nodes
            /\ t.heap[i].router # n.router
        BY <1>3, <3>1, <4>1
      <4>3. u.nodes[u.heap[i].router] = i
        BY <1>3, <3>1, <4>1, <4>2
      <4>4. \A k \in 1 .. N : k \in 1 .. Len(u.heap)
        BY <1>1, <1>4
      <4> QED
        BY <3>1, <4>1, <4>2, <4>3, <4>4, Zenon
  <2> QED
    BY <2>1, <2>2, <1>1, <1>4
<1>7. DOMAIN u.nodes \subseteq STRING
  BY <1>1, <1>3 DEF WellFormed
<1> QED
  <2>1. u.nodes = [r \in DOMAIN u.nodes |-> u.nodes[r]]
    BY <1>3
  <2>2. WellFormed(u)
    BY <1>2, <1>4, <1>5, <1>6, <1>7, <2>1, Zenon DEF WellFormed
  <2> QED
    BY <1>3, <2>2, Zenon DEF u

LEMMA WithNodeKeeps ==
    ASSUME NEW t, WellFormed(t), NEW r \in STRING
    PROVE  /\ WellFormed(WithNode(t, r))
           /\ DOMAIN WithNode(t, r).nodes = DOMAIN t.nodes \cup {r}
<1>1. CASE r \in DOMAIN t.nodes
  BY <1>1 DEF WithNode
<1>2. CASE r \notin DOMAIN t.nodes
  <2>1. 0 \in Uint
    BY TEDAssumption DEF Uint
  <2>2. NewLsNode(r) \in LsNodes /\ NewLsNode(r).links = <<>> /\ NewLsNode(r).router = r
    BY <2>1 DEF NewLsNode, LsNodes
  <2> QED
    BY <1>2, <2>2, AddNodeKeeps DEF WithNode
<1> QED
  BY <1>1, <1>2

(* A node changed in place.                                                *)
LEMMA ChangeKeeps ==
    ASSUME NEW t, WellFormed(t), NEW i \in 1 .. Len(t.heap), NEW n \in LsNodes,
           n.router = t.heap[i].router,
           \A k \in 1 .. Len(n.links) : n.links[k].remote \in 1 .. Len(t.heap)
    PROVE  WellFormed([t EXCEPT !.heap[i] = n])
<1> DEFINE u == [t EXCEPT !.heap[i] = n]
<1>1. /\ u.heap = [t.heap EXCEPT ![i] = n]
      /\ u.nodes = t.nodes
      /\ u = [heap |-> u.heap, nodes |-> u.nodes]
  <2>1. PICK h, g : t = [heap |-> h, nodes |-> g]
    BY DEF WellFormed
  <2> QED
    BY <2>1
<1>2. /\ u.heap \in Seq(LsNodes) /\ Len(u.heap) = Len(t.heap)
      /\ \A j \in 1 .. Len(t.heap) : u.heap[j] = IF j = i THEN n ELSE t.heap[j]
  BY <1>1, ExceptSeq DEF WellFormed
<1> HIDE DEF u
<1>3. \A r \in DOMAIN u.nodes :
         u.nodes[r] \in 1 .. Len(u.heap) /\ u.heap[u.nodes[r]].router = r
  BY <1>1, <1>2 DEF WellFormed
<1>4. \A j \in 1 .. Len(u.heap) :
         /\ u.heap[j].router \in DOMAIN u.nodes
         /\ u.nodes[u.heap[j].router] = j
         /\ \A k \in 1 .. Len(u.heap[j].links) :
               u.heap[j].links[k].remote \in 1 .. Len(u.heap)
  BY <1>1, <1>2 DEF WellFormed
<1>5. WellFormed(u)
  BY <1>1, <1>2, <1>3, <1>4 DEF WellFormed
<1> QED
  BY <1>5 DEF u

------------------------------------------------------------------------------
(* The UpdateTED methods keep the TED well-formed *)

LEMMA FoundNode ==
    ASSUME NEW t, WellFormed(t), NEW r \in DOMAIN t.nodes
    PROVE  /\ t.nodes[r] \in 1 .. Len(t.heap)
           /\ t.heap[t.nodes[r]] \in LsNodes
           /\ t.heap[t.nodes[r]].router = r
           /\ LET n == t.heap[t.nodes[r]]
              IN  \A k \in 1 .. Len(n.links) : n.links[k].remote \in 1 .. Len(t.heap)
<1>1. t.nodes[r] \in 1 .. Len(t.heap) /\ t.heap[t.nodes[r]].router = r
  BY DEF WellFormed
<1> QED
  BY <1>1, ElementOfSeq DEF WellFormed

LEMMA MergeNodeKeeps ==
    ASSUME NEW t, WellFormed(t), NEW e, IsElem(e), e.kind = "node"
    PROVE  WellFormed(MergeNode(t, e))
<1> DEFINE u == WithNode(t, e.router)
           i == u.nodes[e.router]
           n == [u.heap[i] EXCEPT !.begin = e.begin, !.end = e.end]
<1>1. e.router \in STRING /\ e.begin \in Uint /\ e.end \in Uint
  BY DEF IsElem
<1>2. WellFormed(u) /\ e.router \in DOMAIN u.nodes
  BY <1>1, WithNodeKeeps
<1>3. MergeNode(t, e) = [u EXCEPT !.heap[i] = n]
  BY DEF MergeNode
<1> HIDE DEF u
<1>4. /\ i \in 1 .. Len(u.heap) /\ u.heap[i] \in LsNodes
      /\ \A k \in 1 .. Len(u.heap[i].links) : u.heap[i].links[k].remote \in 1 .. Len(u.heap)
  BY <1>2, FoundNode
<1>5. n \in LsNodes /\ n.router = u.heap[i].router /\ n.links = u.heap[i].links
  BY <1>1, <1>4 DEF LsNodes
<1> HIDE DEF n, i
<1>6. WellFormed([u EXCEPT !.heap[i] = n])
  BY <1>2, <1>4, <1>5, ChangeKeeps
<1> QED
  BY <1>3, <1>6

LEMMA AddLinkKeeps ==
    ASSUME NEW t, WellFormed(t), NEW e, IsElem(e), e.kind = "link"
    PROVE  WellFormed(AddLink(t, e))
<1> DEFINE v == WithNode(t, e.router)
           u == WithNode(v, e.remote)
           i == u.nodes[e.router]
           j == u.nodes[e.remote]
           l == [remote |-> j, metrics |-> e.link.metrics,
                 adjSID |-> e.link.adjSID, endX |-> e.link.endX]
           n == [u.heap[i] EXCEPT !.links = Append(u.heap[i].links, l)]
<1>1. e.router \in STRING /\ e.remote \in STRING /\ e.link \in LinkAttrs
  BY DEF IsElem
<1>2. WellFormed(v) /\ e.router \in DOMAIN v.nodes
  BY <1>1, WithNodeKeeps
<1> HIDE DEF v
<1>3. WellFormed(u) /\ e.router \in DOMAIN u.nodes /\ e.remote \in DOMAIN u.nodes
  <2>1. WellFormed(u) /\ DOMAIN u.nodes = DOMAIN v.nodes \cup {e.remote}
    BY <1>1, <1>2, WithNodeKeeps
  <2> HIDE DEF u
  <2> QED
    BY <1>2, <2>1
<1>4. AddLink(t, e) = [u EXCEPT !.heap[i] = n]
  BY DEF AddLink, v
<1> HIDE DEF u
<1>5. /\ i \in 1 .. Len(u.heap) /\ u.heap[i] \in LsNodes
      /\ \A k \in 1 .. Len(u.heap[i].links) : u.heap[i].links[k].remote \in 1 .. Len(u.heap)
      /\ j \in 1 .. Len(u.heap)
  BY <1>3, FoundNode
<1>6. l \in LsLinks /\ l.remote = j
  <2>1. Len(u.heap) \in Nat
    BY <1>3, LenProperties DEF WellFormed
  <2> QED
    <3>1. e.link.metrics \in Metrics /\ e.link.adjSID \in Nat /\ e.link.endX \in SUBSET STRING
      BY <1>1 DEF LinkAttrs
    <3>2. j \in Nat
      BY <1>5, <2>1
    <3> HIDE DEF j
    <3> QED
      BY <3>1, <3>2 DEF LsLinks
<1> HIDE DEF i, j, l
<1>7. /\ u.heap[i].links \in Seq(LsLinks)
      /\ Append(u.heap[i].links, l) \in Seq(LsLinks)
      /\ Len(Append(u.heap[i].links, l)) = Len(u.heap[i].links) + 1
      /\ Append(u.heap[i].links, l)[Len(u.heap[i].links) + 1] = l
      /\ \A k \in 1 .. Len(u.heap[i].links) :
            Append(u.heap[i].links, l)[k] = u.heap[i].links[k]
      /\ Len(u.heap[i].links) \in Nat
  <2>1. u.heap[i].links \in Seq(LsLinks)
    BY <1>5 DEF LsNodes
  <2> QED
    <3>1. PICK s : s = u.heap[i].links
      OBVIOUS
    <3>2. s \in Seq(LsLinks) /\ l \in LsLinks
      BY <1>6, <2>1, <3>1
    <3>3. /\ Append(s, l) \in Seq(LsLinks) /\ Len(Append(s, l)) = Len(s) + 1
          /\ Append(s, l)[Len(s) + 1] = l
          /\ \A k \in 1 .. Len(s) : Append(s, l)[k] = s[k]
      BY <3>2, AppendProperties
    <3>4. Len(s) \in Nat
      BY <3>2, LenProperties
    <3> QED
      BY <3>1, <3>2, <3>3, <3>4, Zenon
<1>8. /\ n \in LsNodes /\ n.router = u.heap[i].router
      /\ n.links = Append(u.heap[i].links, l)
  BY <1>5, <1>7 DEF LsNodes
<1> HIDE DEF n
<1>9. \A k \in 1 .. Len(n.links) : n.links[k].remote \in 1 .. Len(u.heap)
  <2> DEFINE L == Len(u.heap[i].links)
  <2> SUFFICES ASSUME NEW k \in 1 .. (L + 1) PROVE n.links[k].remote \in 1 .. Len(u.heap)
    BY <1>7, <1>8
  <2>1. k = L + 1 \/ k \in 1 .. L
    BY <1>7
  <2> QED
    BY <2>1, <1>5, <1>6, <1>7, <1>8
<1>10. WellFormed([u EXCEPT !.heap[i] = n])
  BY <1>3, <1>5, <1>8, <1>9, ChangeKeeps
<1> QED
  BY <1>4, <1>10

LEMMA AddPrefixKeeps ==
    ASSUME NEW t, WellFormed(t), NEW e, IsElem(e), e.kind = "prefix"
    PROVE  WellFormed(AddPrefix(t, e))
<1> DEFINE u == WithNode(t, e.router)
           i == u.nodes[e.router]
           n == [u.heap[i] EXCEPT !.prefixes = Append(u.heap[i].prefixes, e.prefix)]
<1>1. e.router \in STRING /\ e.prefix \in LsPrefixes
  BY DEF IsElem
<1>2. WellFormed(u) /\ e.router \in DOMAIN u.nodes
  BY <1>1, WithNodeKeeps
<1>3. AddPrefix(t, e) = u \/ AddPrefix(t, e) = [u EXCEPT !.heap[i] = n]
  BY DEF AddPrefix
<1> HIDE DEF u
<1>4. /\ i \in 1 .. Len(u.heap) /\ u.heap[i] \in LsNodes
      /\ \A k \in 1 .. Len(u.heap[i].links) : u.heap[i].links[k].remote \in 1 .. Len(u.heap)
  BY <1>2, FoundNode
<1>5. n \in LsNodes /\ n.router = u.heap[i].router /\ n.links = u.heap[i].links
  <2>1. u.heap[i].prefixes \in Seq(LsPrefixes)
    BY <1>4 DEF LsNodes
  <2>2. Append(u.heap[i].prefixes, e.prefix) \in Seq(LsPrefixes)
    BY <1>1, <2>1, AppendProperties
  <2> QED
    BY <1>4, <2>2 DEF LsNodes
<1> HIDE DEF n, i
<1>6. WellFormed([u EXCEPT !.heap[i] = n])
  BY <1>2, <1>4, <1>5, ChangeKeeps
<1> QED
  BY <1>2, <1>3, <1>6

LEMMA AddSRv6SIDKeeps ==
    ASSUME NEW t, WellFormed(t), NEW e, IsElem(e), e.kind = "srv6SID"
    PROVE  WellFormed(AddSRv6SID(t, e))
<1> DEFINE u == WithNode(t, e.router)
           i == u.nodes[e.router]
           n == [u.heap[i] EXCEPT !.srv6 = Append(u.heap[i].srv6, e.sids)]
<1>1. e.router \in STRING /\ e.sids \in Seq(STRING)
  BY DEF IsElem
<1>2. WellFormed(u) /\ e.router \in DOMAIN u.nodes
  BY <1>1, WithNodeKeeps
<1>3. AddSRv6SID(t, e) = [u EXCEPT !.heap[i] = n]
  BY DEF AddSRv6SID
<1> HIDE DEF u
<1>4. /\ i \in 1 .. Len(u.heap) /\ u.heap[i] \in LsNodes
      /\ \A k \in 1 .. Len(u.heap[i].links) : u.heap[i].links[k].remote \in 1 .. Len(u.heap)
  BY <1>2, FoundNode
<1>5. n \in LsNodes /\ n.router = u.heap[i].router /\ n.links = u.heap[i].links
  <2>1. u.heap[i].srv6 \in Seq(Seq(STRING))
    BY <1>4 DEF LsNodes
  <2>2. Append(u.heap[i].srv6, e.sids) \in Seq(Seq(STRING))
    BY <1>1, <2>1, AppendProperties
  <2> QED
    BY <1>4, <2>2 DEF LsNodes
<1> HIDE DEF n, i
<1>6. WellFormed([u EXCEPT !.heap[i] = n])
  BY <1>2, <1>4, <1>5, ChangeKeeps
<1> QED
  BY <1>3, <1>6

(* One element is applied, or passed over.                                 *)
LEMMA TEDStep ==
    ASSUME listing \in Listings, TEDTypeOK, LinksPointIntoTED, UpdateTED
    PROVE  TEDTypeOK' /\ LinksPointIntoTED' /\ listing' = listing
<1> DEFINE e == listing[applied + 1]
<1>1. WellFormed(ted) /\ applied \in 0 .. Len(listing) /\ Len(listing) \in Nat
  BY WellFormedTED, TEDAssumption
<1>2. /\ applied < Len(listing) /\ applied' = applied + 1 /\ listing' = listing
      /\ IsElem(e)
  <2>1. applied < Len(listing) /\ applied' = applied + 1 /\ listing' = listing
    BY DEF UpdateTED, UpdateNode, UpdateLink, UpdatePrefix, UpdateSRv6SID, IgnoreForeign,
           Applying
  <2>2. applied + 1 \in 1 .. Len(listing)
    BY <1>1, <2>1
  <2> QED
    BY <2>1, <2>2, TEDAssumption
<1>3. WellFormed(ted')
  <2>1. CASE UpdateNode
    BY <1>1, <1>2, <2>1, MergeNodeKeeps DEF UpdateNode, Applying
  <2>2. CASE UpdateLink
    BY <1>1, <1>2, <2>2, AddLinkKeeps DEF UpdateLink, Applying
  <2>3. CASE UpdatePrefix
    BY <1>1, <1>2, <2>3, AddPrefixKeeps DEF UpdatePrefix, Applying
  <2>4. CASE UpdateSRv6SID
    BY <1>1, <1>2, <2>4, AddSRv6SIDKeeps DEF UpdateSRv6SID, Applying
  <2>5. CASE IgnoreForeign
    BY <1>1, <2>5 DEF IgnoreForeign
  <2> QED
    BY <2>1, <2>2, <2>3, <2>4, <2>5 DEF UpdateTED
<1>4. applied' \in 0 .. Len(listing')
  BY <1>1, <1>2
<1> QED
  BY <1>2, <1>3, <1>4
     DEF WellFormed, TEDTypeOK, LinksPointIntoTED, Node, Routers

------------------------------------------------------------------------------
(* What a node is made of *)

LEMMA FirstOf ==
    ASSUME NEW S, NEW s \in Seq(S), NEW I \in SUBSET (1 .. Len(s)), I # {}
    PROVE  Min(I) \in I /\ s[Min(I)] \in S
<1>1. Len(s) \in Nat
  BY LenProperties
<1>2. I \in SUBSET Nat
  BY <1>1
<1>3. Min(I) \in I
  BY <1>2, MinIsLeast
<1> QED
  BY <1>3, ElementOfSeq

LEMMA SRv6AddressTyped ==
    ASSUME NEW n \in LsNodes, WithSRv6(n) # {}
    PROVE  SRv6Address(n) \in STRING
<1>1. n.srv6 \in Seq(Seq(STRING))
  BY DEF LsNodes
<1>2. WithSRv6(n) \in SUBSET (1 .. Len(n.srv6))
  BY DEF WithSRv6
<1>3. Min(WithSRv6(n)) \in WithSRv6(n) /\ n.srv6[Min(WithSRv6(n))] \in Seq(STRING)
  BY <1>1, <1>2, FirstOf
<1>4. n.srv6[Min(WithSRv6(n))] # <<>>
  BY <1>3 DEF WithSRv6
<1> QED
  BY <1>3, <1>4, EmptySeq, ElementOfSeq DEF SRv6Address

LEMMA RoutersFinite ==
    ASSUME TEDTypeOK, LinksPointIntoTED
    PROVE  IsFiniteSet(Routers) /\ Cardinality(Routers) \in Nat
<1>1. Len(ted.heap) \in Nat
  BY LenProperties DEF TEDTypeOK
<1>2. IsFiniteSet(1 .. Len(ted.heap))
  BY <1>1, FS_Interval
<1> DEFINE f == [r \in Routers |-> ted.nodes[r]]
<1>3. f \in Injection(Routers, 1 .. Len(ted.heap))
  <2>1. f \in [Routers -> 1 .. Len(ted.heap)]
    BY DEF LinksPointIntoTED
  <2>2. \A r, q \in Routers : f[r] = f[q] => r = q
    BY DEF LinksPointIntoTED, Node
  <2> QED
    BY <2>1, <2>2 DEF Injection, IsInjective
<1>4. IsFiniteSet(Routers)
  BY <1>2, <1>3, FS_Injection DEF ExistsInjection
<1> QED
  BY <1>4, FS_CardinalityType

------------------------------------------------------------------------------
(* The TED is the merge of what was applied *)

(* Of the first a elements of the list: those that name a router, and the  *)
(* routers they name.                                                      *)
Mine(a) == {i \in 1 .. a : ~Foreign(listing[i])}
Of(a, kind, r) == {i \in Mine(a) : listing[i].kind = kind /\ listing[i].router = r}
Named(a) ==
    {listing[i].router : i \in Mine(a)}
    \cup {listing[i].remote : i \in {j \in Mine(a) : listing[j].kind = "link"}}

(* What a node holds from the elements I of a kind.  names are the router  *)
(* IDs of the objects of the heap.                                         *)
RangeFrom(n, I) ==
    IF I = {} THEN <<n.begin, n.end>> = <<0, 0>>
    ELSE \E i \in I : <<n.begin, n.end>> = <<listing[i].begin, listing[i].end>>
LinksFrom(names, n, I) ==
    /\ Len(n.links) = Cardinality(I)
    /\ {<<names[l.remote], l.metrics, l.adjSID, l.endX>> : l \in Range(n.links)} =
          {<<listing[i].remote, listing[i].link.metrics, listing[i].link.adjSID,
             listing[i].link.endX>> : i \in I}
PrefixesFrom(n, I) ==
    /\ Range(n.prefixes) \subseteq {listing[i].prefix : i \in I}
    /\ {p.prefix : p \in Range(n.prefixes)} = {listing[i].prefix.prefix : i \in I}
    /\ Len(n.prefixes) = Cardinality({listing[i].prefix.prefix : i \in I})
SIDsFrom(n, I) == Range(n.srv6) = {listing[i].sids : i \in I}

(* The node holds what the first a elements say of its router.             *)
NodeIsMerge(names, n, a) ==
    /\ RangeFrom(n, Of(a, "node", n.router))
    /\ LinksFrom(names, n, Of(a, "link", n.router))
    /\ PrefixesFrom(n, Of(a, "prefix", n.router))
    /\ SIDsFrom(n, Of(a, "srv6SID", n.router))

(* The TED t holds what the first a elements say, and no other router.     *)
NamesIn(heap) == [i \in 1 .. Len(heap) |-> heap[i].router]
Contents(t, a) ==
    /\ Named(a) \subseteq DOMAIN t.nodes
    /\ \A i \in 1 .. Len(t.heap) : NodeIsMerge(NamesIn(t.heap), t.heap[i], a)
Merged(t, a) == Contents(t, a) /\ DOMAIN t.nodes = Named(a)

LEMMA RangeOfAppend ==
    ASSUME NEW S, NEW s \in Seq(S), NEW x \in S
    PROVE  Range(Append(s, x)) = Range(s) \cup {x}
<1> DEFINE t == Append(s, x)
           N == Len(s)
<1>1. /\ t \in Seq(S) /\ Len(t) = N + 1 /\ t[N + 1] = x /\ N \in Nat
      /\ \A i \in 1 .. N : t[i] = s[i]
  BY AppendProperties, LenProperties
<1>2. DOMAIN t = 1 .. N + 1 /\ DOMAIN s = 1 .. N
  BY <1>1
<1> HIDE DEF t, N
<1>3. \A i : i \in 1 .. N + 1 <=> i \in 1 .. N \/ i = N + 1
  BY <1>1
<1>4. Range(t) = Range(s) \cup {x}
  BY <1>1, <1>2, <1>3, Zenon DEF Range
<1> QED
  BY <1>4 DEF t

LEMMA OfFinite ==
    ASSUME NEW a \in Nat, NEW kind, NEW r
    PROVE  IsFiniteSet(Of(a, kind, r)) /\ a + 1 \notin Of(a, kind, r)
<1>1. IsFiniteSet(1 .. a) /\ Of(a, kind, r) \subseteq 1 .. a
  BY FS_Interval DEF Of, Mine
<1> QED
  BY <1>1, FS_Subset

(* One more element.                                                       *)
LEMMA MineNext ==
    ASSUME NEW a \in Nat
    PROVE  Mine(a + 1) = IF Foreign(listing[a + 1]) THEN Mine(a) ELSE Mine(a) \cup {a + 1}
<1>1. 1 .. a + 1 = 1 .. a \cup {a + 1}
  OBVIOUS
<1> QED
  BY <1>1 DEF Mine

LEMMA OfNext ==
    ASSUME NEW a \in Nat, NEW kind, NEW r
    PROVE  Of(a + 1, kind, r) =
              IF /\ ~Foreign(listing[a + 1]) /\ listing[a + 1].kind = kind
                 /\ listing[a + 1].router = r
              THEN Of(a, kind, r) \cup {a + 1} ELSE Of(a, kind, r)
BY MineNext DEF Of

LEMMA NamedNext ==
    ASSUME NEW a \in Nat, ~Foreign(listing[a + 1])
    PROVE  Named(a + 1) = Named(a) \cup {listing[a + 1].router}
              \cup (IF listing[a + 1].kind = "link" THEN {listing[a + 1].remote} ELSE {})
BY MineNext DEF Named

LEMMA Unnamed ==
    ASSUME NEW a, NEW r, r \notin Named(a)
    PROVE  \A kind : Of(a, kind, r) = {}
BY DEF Of, Named

(* A node that nothing was merged into.                                    *)
LEMMA NewNodeIsMerge ==
    ASSUME NEW names, NEW a, NEW r, r \notin Named(a)
    PROVE  NodeIsMerge(names, NewLsNode(r), a)
<1>1. \A kind : Of(a, kind, r) = {}
  BY Unnamed
<1> DEFINE n == NewLsNode(r)
<1>2. /\ n.router = r /\ n.begin = 0 /\ n.end = 0
      /\ n.links = <<>> /\ n.prefixes = <<>> /\ n.srv6 = <<>>
  BY DEF NewLsNode
<1> HIDE DEF n
<1>3. Len(<<>>) = 0 /\ Range(<<>>) = {} /\ Cardinality({}) = 0
  BY FS_EmptySet DEF Range
<1>4. RangeFrom(n, {})
  BY <1>2 DEF RangeFrom
<1>5. LinksFrom(names, n, {})
  BY <1>2, <1>3 DEF LinksFrom
<1>6. PrefixesFrom(n, {})
  <2>1. {listing[i].prefix.prefix : i \in {}} = {}
    OBVIOUS
  <2> QED
    BY <1>2, <1>3, <2>1 DEF PrefixesFrom
<1>7. SIDsFrom(n, {})
  BY <1>2, <1>3 DEF SIDsFrom
<1>8. NodeIsMerge(names, n, a)
  BY <1>1, <1>2, <1>4, <1>5, <1>6, <1>7 DEF NodeIsMerge
<1> QED
  BY <1>8 DEF n

(* Links only look up names of objects that are there.                     *)
LEMMA NamesExtend ==
    ASSUME NEW names, NEW more, NEW n \in LsNodes, NEW a, NodeIsMerge(names, n, a),
           \A k \in 1 .. Len(n.links) : more[n.links[k].remote] = names[n.links[k].remote]
    PROVE  NodeIsMerge(more, n, a)
<1>1. n.links \in Seq(LsLinks)
  BY DEF LsNodes
<1>2. DOMAIN n.links = 1 .. Len(n.links)
  BY <1>1
<1>3. \A l \in Range(n.links) : more[l.remote] = names[l.remote]
  BY <1>2 DEF Range
<1>4. {<<more[l.remote], l.metrics, l.adjSID, l.endX>> : l \in Range(n.links)} =
        {<<names[l.remote], l.metrics, l.adjSID, l.endX>> : l \in Range(n.links)}
  BY <1>3
<1> QED
  BY <1>4 DEF NodeIsMerge, LinksFrom

LEMMA WithNodeContents ==
    ASSUME NEW t, WellFormed(t), NEW a, Contents(t, a), NEW r \in STRING
    PROVE  Contents(WithNode(t, r), a)
<1>1. CASE r \in DOMAIN t.nodes
  BY <1>1 DEF WithNode
<1>2. CASE r \notin DOMAIN t.nodes
  <2> DEFINE n == NewLsNode(r)
             u == AddNode(t, n)
             N == Len(t.heap)
  <2>1. u = WithNode(t, r) /\ u.heap = Append(t.heap, n)
    BY <1>2 DEF WithNode, AddNode
  <2>2. 0 \in Uint
    BY TEDAssumption DEF Uint
  <2>3. n \in LsNodes /\ n.router = r
    BY <2>2 DEF NewLsNode, LsNodes
  <2>4. DOMAIN u.nodes = DOMAIN t.nodes \cup {r}
    BY <2>3 DEF AddNode
  <2>5. t.heap \in Seq(LsNodes) /\ N \in Nat
    BY LenProperties DEF WellFormed
  <2>6. r \notin Named(a)
    BY <1>2 DEF Contents
  <2>7. \A names : NodeIsMerge(names, n, a)
    BY <2>6, NewNodeIsMerge
  <2> HIDE DEF n
  <2>8. /\ u.heap \in Seq(LsNodes) /\ Len(u.heap) = N + 1 /\ u.heap[N + 1] = n
        /\ \A i \in 1 .. N : u.heap[i] = t.heap[i]
    BY <2>1, <2>3, <2>5, AppendProperties
  <2> HIDE DEF u
  <2>9. ASSUME NEW i \in 1 .. N PROVE NodeIsMerge(NamesIn(u.heap), t.heap[i], a)
    <3> DEFINE names == NamesIn(t.heap)
               more  == NamesIn(u.heap)
    <3>1. NodeIsMerge(names, t.heap[i], a) /\ t.heap[i] \in LsNodes
      BY <2>5, ElementOfSeq DEF Contents
    <3>2. \A j \in 1 .. N : more[j] = names[j]
      BY <2>5, <2>8 DEF NamesIn
    <3>3. \A k \in 1 .. Len(t.heap[i].links) : t.heap[i].links[k].remote \in 1 .. N
      BY DEF WellFormed
    <3> HIDE DEF names, more
    <3>4. NodeIsMerge(more, t.heap[i], a)
      BY <3>1, <3>2, <3>3, NamesExtend
    <3> QED
      BY <3>4 DEF more
  <2>10. \A i \in 1 .. Len(u.heap) : NodeIsMerge(NamesIn(u.heap), u.heap[i], a)
    <3>1. \A i \in 1 .. Len(u.heap) : i \in 1 .. N \/ i = N + 1
      BY <2>5, <2>8
    <3> QED
      BY <2>7, <2>8, <2>9, <3>1
  <2> QED
    BY <2>1, <2>4, <2>10 DEF Contents
<1> QED
  BY <1>1, <1>2

(* An element is merged into the node it is about.                         *)
LEMMA ChangeContents ==
    ASSUME NEW t, WellFormed(t), NEW a \in Nat, Contents(t, a),
           ~Foreign(listing[a + 1]), Named(a + 1) = DOMAIN t.nodes,
           NEW i \in 1 .. Len(t.heap), t.heap[i].router = listing[a + 1].router,
           NEW n \in LsNodes, n.router = t.heap[i].router,
           NodeIsMerge(NamesIn(t.heap), n, a + 1)
    PROVE  Merged([t EXCEPT !.heap[i] = n], a + 1)
<1> DEFINE u == [t EXCEPT !.heap[i] = n]
           N == Len(t.heap)
<1>1. /\ u.heap = [t.heap EXCEPT ![i] = n] /\ u.nodes = t.nodes
  <2>1. PICK h, g : t = [heap |-> h, nodes |-> g]
    BY DEF WellFormed
  <2> QED
    BY <2>1
<1>2. /\ Len(u.heap) = N /\ N \in Nat
      /\ \A j \in 1 .. N : u.heap[j] = IF j = i THEN n ELSE t.heap[j]
  BY <1>1, ExceptSeq, LenProperties DEF WellFormed
<1> HIDE DEF u
<1>3. NamesIn(u.heap) = NamesIn(t.heap)
  BY <1>2 DEF NamesIn
<1>4. ASSUME NEW j \in 1 .. N, j # i PROVE NodeIsMerge(NamesIn(t.heap), t.heap[j], a + 1)
  <2>1. t.heap[j].router # t.heap[i].router
    BY <1>4 DEF WellFormed
  <2>2. \A kind : Of(a + 1, kind, t.heap[j].router) = Of(a, kind, t.heap[j].router)
    BY <2>1, OfNext
  <2>3. NodeIsMerge(NamesIn(t.heap), t.heap[j], a)
    BY DEF Contents
  <2> QED
    BY <2>2, <2>3 DEF NodeIsMerge
<1>5. \A j \in 1 .. N : NodeIsMerge(NamesIn(u.heap), u.heap[j], a + 1)
  BY <1>2, <1>3, <1>4
<1>6. Merged(u, a + 1)
  BY <1>1, <1>2, <1>5 DEF Merged, Contents
<1> QED
  BY <1>6 DEF u

(* The node an element is about, and what it was merged from.              *)
LEMMA AboutNode ==
    ASSUME NEW t, WellFormed(t), NEW a, Contents(t, a), NEW r \in DOMAIN t.nodes,
           NEW n, n = t.heap[t.nodes[r]]
    PROVE  /\ t.nodes[r] \in 1 .. Len(t.heap) /\ n \in LsNodes /\ n.router = r
           /\ \A k \in 1 .. Len(n.links) : n.links[k].remote \in 1 .. Len(t.heap)
           /\ RangeFrom(n, Of(a, "node", r))
           /\ LinksFrom(NamesIn(t.heap), n, Of(a, "link", r))
           /\ PrefixesFrom(n, Of(a, "prefix", r))
           /\ SIDsFrom(n, Of(a, "srv6SID", r))
<1>1. /\ t.nodes[r] \in 1 .. Len(t.heap) /\ n \in LsNodes /\ n.router = r
      /\ \A k \in 1 .. Len(n.links) : n.links[k].remote \in 1 .. Len(t.heap)
  BY FoundNode
<1>2. NodeIsMerge(NamesIn(t.heap), n, a)
  BY <1>1 DEF Contents
<1> QED
  BY <1>1, <1>2 DEF NodeIsMerge

LEMMA MergeNodeMerges ==
    ASSUME NEW t, WellFormed(t), NEW a \in Nat, Merged(t, a),
           NEW e, e = listing[a + 1], IsElem(e), ~Foreign(e), e.kind = "node"
    PROVE  Merged(MergeNode(t, e), a + 1)
<1> DEFINE u == WithNode(t, e.router)
           i == u.nodes[e.router]
           n == [u.heap[i] EXCEPT !.begin = e.begin, !.end = e.end]
           names == NamesIn(u.heap)
<1>1. e.router \in STRING /\ e.begin \in Uint /\ e.end \in Uint
  BY DEF IsElem
<1>2. WellFormed(u) /\ DOMAIN u.nodes = DOMAIN t.nodes \cup {e.router} /\ Contents(u, a)
  BY <1>1, WithNodeKeeps, WithNodeContents DEF Merged
<1>3. MergeNode(t, e) = [u EXCEPT !.heap[i] = n]
  BY DEF MergeNode
<1> HIDE DEF u
<1>4. /\ i \in 1 .. Len(u.heap) /\ u.heap[i] \in LsNodes /\ u.heap[i].router = e.router
      /\ LinksFrom(names, u.heap[i], Of(a, "link", e.router))
      /\ PrefixesFrom(u.heap[i], Of(a, "prefix", e.router))
      /\ SIDsFrom(u.heap[i], Of(a, "srv6SID", e.router))
  BY <1>2, AboutNode
<1>5. /\ n \in LsNodes /\ n.router = e.router /\ n.begin = e.begin /\ n.end = e.end
      /\ n.links = u.heap[i].links /\ n.prefixes = u.heap[i].prefixes
      /\ n.srv6 = u.heap[i].srv6
  BY <1>1, <1>4 DEF LsNodes
<1> HIDE DEF n, i, names
<1>6. /\ Of(a + 1, "node", e.router) = Of(a, "node", e.router) \cup {a + 1}
      /\ Of(a + 1, "link", e.router) = Of(a, "link", e.router)
      /\ Of(a + 1, "prefix", e.router) = Of(a, "prefix", e.router)
      /\ Of(a + 1, "srv6SID", e.router) = Of(a, "srv6SID", e.router)
  BY OfNext
<1>7. RangeFrom(n, Of(a + 1, "node", e.router))
  BY <1>5, <1>6 DEF RangeFrom
<1>8. NodeIsMerge(names, n, a + 1)
  BY <1>4, <1>5, <1>6, <1>7 DEF NodeIsMerge, LinksFrom, PrefixesFrom, SIDsFrom
<1>9. Named(a + 1) = DOMAIN u.nodes
  BY <1>2, NamedNext DEF Merged
<1>10. Merged([u EXCEPT !.heap[i] = n], a + 1)
  BY <1>2, <1>4, <1>5, <1>8, <1>9, ChangeContents DEF names
<1> QED
  BY <1>3, <1>10

LEMMA AddSRv6SIDMerges ==
    ASSUME NEW t, WellFormed(t), NEW a \in Nat, Merged(t, a),
           NEW e, e = listing[a + 1], IsElem(e), ~Foreign(e), e.kind = "srv6SID"
    PROVE  Merged(AddSRv6SID(t, e), a + 1)
<1> DEFINE u == WithNode(t, e.router)
           i == u.nodes[e.router]
           n == [u.heap[i] EXCEPT !.srv6 = Append(u.heap[i].srv6, e.sids)]
           names == NamesIn(u.heap)
<1>1. e.router \in STRING /\ e.sids \in Seq(STRING)
  BY DEF IsElem
<1>2. WellFormed(u) /\ DOMAIN u.nodes = DOMAIN t.nodes \cup {e.router} /\ Contents(u, a)
  BY <1>1, WithNodeKeeps, WithNodeContents DEF Merged
<1>3. AddSRv6SID(t, e) = [u EXCEPT !.heap[i] = n]
  BY DEF AddSRv6SID
<1> HIDE DEF u
<1>4. /\ i \in 1 .. Len(u.heap) /\ u.heap[i] \in LsNodes /\ u.heap[i].router = e.router
      /\ RangeFrom(u.heap[i], Of(a, "node", e.router))
      /\ LinksFrom(names, u.heap[i], Of(a, "link", e.router))
      /\ PrefixesFrom(u.heap[i], Of(a, "prefix", e.router))
      /\ SIDsFrom(u.heap[i], Of(a, "srv6SID", e.router))
  BY <1>2, AboutNode
<1>5. /\ u.heap[i].srv6 \in Seq(Seq(STRING))
      /\ Append(u.heap[i].srv6, e.sids) \in Seq(Seq(STRING))
      /\ Range(Append(u.heap[i].srv6, e.sids)) = Range(u.heap[i].srv6) \cup {e.sids}
  <2>1. u.heap[i].srv6 \in Seq(Seq(STRING))
    BY <1>4 DEF LsNodes
  <2> QED
    <3>1. PICK s : s = u.heap[i].srv6
      OBVIOUS
    <3>2. PICK V : V = Seq(STRING)
      OBVIOUS
    <3>3. s \in Seq(V) /\ e.sids \in V
      BY <1>1, <2>1, <3>1, <3>2
    <3>4. Append(s, e.sids) \in Seq(V)
      BY <3>3, AppendProperties
    <3>5. Range(Append(s, e.sids)) = Range(s) \cup {e.sids}
      BY <3>3, RangeOfAppend
    <3> QED
      BY <2>1, <3>1, <3>2, <3>4, <3>5, Zenon
<1>6. /\ n \in LsNodes /\ n.router = e.router
      /\ n.begin = u.heap[i].begin /\ n.end = u.heap[i].end
      /\ n.links = u.heap[i].links /\ n.prefixes = u.heap[i].prefixes
      /\ n.srv6 = Append(u.heap[i].srv6, e.sids)
  BY <1>4, <1>5 DEF LsNodes
<1> HIDE DEF n, i, names
<1>7. /\ Of(a + 1, "node", e.router) = Of(a, "node", e.router)
      /\ Of(a + 1, "link", e.router) = Of(a, "link", e.router)
      /\ Of(a + 1, "prefix", e.router) = Of(a, "prefix", e.router)
      /\ Of(a + 1, "srv6SID", e.router) = Of(a, "srv6SID", e.router) \cup {a + 1}
  BY OfNext
<1>8. SIDsFrom(n, Of(a + 1, "srv6SID", e.router))
  <2>1. PICK I : I = Of(a, "srv6SID", e.router)
    OBVIOUS
  <2>2. {listing[k].sids : k \in I \cup {a + 1}} = {listing[k].sids : k \in I} \cup {e.sids}
    OBVIOUS
  <2>3. Range(n.srv6) = {listing[k].sids : k \in I} \cup {e.sids}
    BY <1>4, <1>5, <1>6, <2>1 DEF SIDsFrom
  <2> QED
    BY <1>7, <2>1, <2>2, <2>3 DEF SIDsFrom
<1>9. NodeIsMerge(names, n, a + 1)
  BY <1>4, <1>6, <1>7, <1>8 DEF NodeIsMerge, RangeFrom, LinksFrom, PrefixesFrom
<1>10. Named(a + 1) = DOMAIN u.nodes
  BY <1>2, NamedNext DEF Merged
<1>11. Merged([u EXCEPT !.heap[i] = n], a + 1)
  BY <1>2, <1>4, <1>6, <1>9, <1>10, ChangeContents DEF names
<1> QED
  BY <1>3, <1>11

LEMMA AddPrefixMerges ==
    ASSUME NEW t, WellFormed(t), NEW a \in Nat, Merged(t, a),
           NEW e, e = listing[a + 1], IsElem(e), ~Foreign(e), e.kind = "prefix"
    PROVE  Merged(AddPrefix(t, e), a + 1)
<1> DEFINE u == WithNode(t, e.router)
           i == u.nodes[e.router]
           known == u.heap[i].prefixes
           there == \E k \in 1 .. Len(known) : known[k].prefix = e.prefix.prefix
           more == IF there THEN known ELSE Append(known, e.prefix)
           n == [u.heap[i] EXCEPT !.prefixes = more]
           names == NamesIn(u.heap)
           I == Of(a, "prefix", e.router)
<1>1. e.router \in STRING /\ e.prefix \in LsPrefixes
  BY DEF IsElem
<1>2. WellFormed(u) /\ DOMAIN u.nodes = DOMAIN t.nodes \cup {e.router} /\ Contents(u, a)
  BY <1>1, WithNodeKeeps, WithNodeContents DEF Merged
<1>3. AddPrefix(t, e) = IF there THEN u ELSE [u EXCEPT !.heap[i] = n]
  BY DEF AddPrefix
<1> HIDE DEF u
<1>4. /\ i \in 1 .. Len(u.heap) /\ u.heap[i] \in LsNodes /\ u.heap[i].router = e.router
      /\ RangeFrom(u.heap[i], Of(a, "node", e.router))
      /\ LinksFrom(names, u.heap[i], Of(a, "link", e.router))
      /\ PrefixesFrom(u.heap[i], I)
      /\ SIDsFrom(u.heap[i], Of(a, "srv6SID", e.router))
  BY <1>2, AboutNode
<1>5. known \in Seq(LsPrefixes) /\ DOMAIN known = 1 .. Len(known) /\ Len(known) \in Nat
  BY <1>4, LenProperties DEF LsNodes
<1> HIDE DEF i
<1>6. there <=> e.prefix.prefix \in {listing[k].prefix.prefix : k \in I}
  <2>1. there <=> e.prefix.prefix \in {p.prefix : p \in Range(known)}
    BY <1>5 DEF Range
  <2> QED
    BY <1>4, <2>1 DEF PrefixesFrom
<1> HIDE DEF there, known
<1>7. PICK J : J = I \cup {a + 1}
  OBVIOUS
<1>8. /\ {listing[k].prefix : k \in J} = {listing[k].prefix : k \in I} \cup {e.prefix}
      /\ {listing[k].prefix.prefix : k \in J} =
            {listing[k].prefix.prefix : k \in I} \cup {e.prefix.prefix}
  BY <1>7
<1>9. more \in Seq(LsPrefixes) /\ PrefixesFrom([u.heap[i] EXCEPT !.prefixes = more], J)
  <2> DEFINE w == [u.heap[i] EXCEPT !.prefixes = more]
             P == {listing[k].prefix.prefix : k \in I}
  <2>1. w.prefixes = more
    BY <1>4 DEF LsNodes
  <2>2. /\ Range(known) \subseteq {listing[k].prefix : k \in I}
        /\ {p.prefix : p \in Range(known)} = P
        /\ Len(known) = Cardinality(P)
    BY <1>4 DEF PrefixesFrom, known
  <2> HIDE DEF w, P, I
  <2>3. CASE there
    <3>1. more = known /\ {listing[k].prefix.prefix : k \in J} = P
      BY <1>6, <1>8, <2>3 DEF P
    <3> QED
      BY <1>5, <1>8, <2>1, <2>2, <3>1 DEF PrefixesFrom, w
  <2>4. CASE ~there
    <3>1. /\ more = Append(known, e.prefix) /\ more \in Seq(LsPrefixes)
          /\ Len(more) = Len(known) + 1 /\ Range(more) = Range(known) \cup {e.prefix}
      BY <1>1, <1>5, <2>4, AppendProperties, RangeOfAppend
    <3>2. IsFiniteSet(P)
      <4>1. IsFiniteSet(I)
        BY OfFinite DEF I
      <4> DEFINE f == [k \in I |-> listing[k].prefix.prefix]
      <4>2. f \in Surjection(I, P)
        BY DEF P, Surjection
      <4> QED
        BY <4>1, <4>2, FS_Surjection DEF ExistsSurjection
    <3>3. e.prefix.prefix \notin P
      BY <1>6, <2>4 DEF P
    <3>4. Cardinality(P \cup {e.prefix.prefix}) = Cardinality(P) + 1
      BY <3>2, <3>3, FS_AddElement
    <3>5. {p.prefix : p \in Range(more)} = P \cup {e.prefix.prefix}
      BY <2>2, <3>1
    <3>6. Range(more) \subseteq {listing[k].prefix : k \in J}
      BY <1>8, <2>2, <3>1
    <3> HIDE DEF more
    <3>7. {listing[k].prefix.prefix : k \in J} = P \cup {e.prefix.prefix}
      BY <1>8 DEF P
    <3>8. PrefixesFrom(w, J)
      BY <2>1, <2>2, <3>1, <3>4, <3>5, <3>6, <3>7 DEF PrefixesFrom
    <3> QED
      BY <3>1, <3>8 DEF w
  <2> QED
    BY <2>3, <2>4
<1> HIDE DEF more
<1>10. /\ n \in LsNodes /\ n.router = e.router
       /\ n.begin = u.heap[i].begin /\ n.end = u.heap[i].end
       /\ n.links = u.heap[i].links /\ n.srv6 = u.heap[i].srv6
       /\ PrefixesFrom(n, J)
  BY <1>4, <1>9 DEF LsNodes
<1> HIDE DEF n, names
<1>11. /\ Of(a + 1, "node", e.router) = Of(a, "node", e.router)
       /\ Of(a + 1, "link", e.router) = Of(a, "link", e.router)
       /\ Of(a + 1, "prefix", e.router) = J
       /\ Of(a + 1, "srv6SID", e.router) = Of(a, "srv6SID", e.router)
  BY <1>7, OfNext
<1>12. NodeIsMerge(names, n, a + 1)
  BY <1>4, <1>10, <1>11 DEF NodeIsMerge, RangeFrom, LinksFrom, SIDsFrom
<1>13. Named(a + 1) = DOMAIN u.nodes
  BY <1>2, NamedNext DEF Merged
<1>14. Merged([u EXCEPT !.heap[i] = n], a + 1)
  BY <1>2, <1>4, <1>10, <1>12, <1>13, ChangeContents DEF names
<1>15. there => u = [u EXCEPT !.heap[i] = n]
  <2> SUFFICES ASSUME there PROVE u = [u EXCEPT !.heap[i] = n]
    OBVIOUS
  <2>1. n = u.heap[i]
    BY <1>4 DEF n, more, known, LsNodes
  <2>2. u = [heap |-> u.heap, nodes |-> u.nodes] /\ u.heap \in Seq(LsNodes)
    BY <1>2 DEF WellFormed
  <2>3. [u.heap EXCEPT ![i] = u.heap[i]] = u.heap
    BY <2>2
  <2>4. PICK h, g : u = [heap |-> h, nodes |-> g]
    BY <2>2
  <2> QED
    BY <2>1, <2>3, <2>4
<1> QED
  BY <1>3, <1>14, <1>15

LEMMA AddLinkMerges ==
    ASSUME NEW t, WellFormed(t), NEW a \in Nat, Merged(t, a),
           NEW e, e = listing[a + 1], IsElem(e), ~Foreign(e), e.kind = "link"
    PROVE  Merged(AddLink(t, e), a + 1)
<1> DEFINE v == WithNode(t, e.router)
           u == WithNode(v, e.remote)
           i == u.nodes[e.router]
           j == u.nodes[e.remote]
           l == [remote |-> j, metrics |-> e.link.metrics,
                 adjSID |-> e.link.adjSID, endX |-> e.link.endX]
           n == [u.heap[i] EXCEPT !.links = Append(u.heap[i].links, l)]
           names == NamesIn(u.heap)
<1>1. e.router \in STRING /\ e.remote \in STRING /\ e.link \in LinkAttrs
  BY DEF IsElem
<1>2. WellFormed(v) /\ DOMAIN v.nodes = DOMAIN t.nodes \cup {e.router} /\ Contents(v, a)
  BY <1>1, WithNodeKeeps, WithNodeContents DEF Merged
<1> HIDE DEF v
<1>3. WellFormed(u) /\ DOMAIN u.nodes = DOMAIN v.nodes \cup {e.remote} /\ Contents(u, a)
  BY <1>1, <1>2, WithNodeKeeps, WithNodeContents
<1>4. AddLink(t, e) = [u EXCEPT !.heap[i] = n]
  BY DEF AddLink, v
<1> HIDE DEF u
<1>5. /\ i \in 1 .. Len(u.heap) /\ u.heap[i] \in LsNodes /\ u.heap[i].router = e.router
      /\ RangeFrom(u.heap[i], Of(a, "node", e.router))
      /\ LinksFrom(names, u.heap[i], Of(a, "link", e.router))
      /\ PrefixesFrom(u.heap[i], Of(a, "prefix", e.router))
      /\ SIDsFrom(u.heap[i], Of(a, "srv6SID", e.router))
  BY <1>2, <1>3, AboutNode
<1>6. j \in 1 .. Len(u.heap) /\ names[j] = e.remote /\ Len(u.heap) \in Nat
  <2>1. j \in 1 .. Len(u.heap) /\ u.heap[j].router = e.remote
    BY <1>3, FoundNode
  <2>2. Len(u.heap) \in Nat
    BY <1>3, LenProperties DEF WellFormed
  <2> QED
    BY <2>1, <2>2 DEF NamesIn
<1>7. /\ l \in LsLinks /\ l.remote = j /\ l.metrics = e.link.metrics
      /\ l.adjSID = e.link.adjSID /\ l.endX = e.link.endX
  BY <1>1, <1>6 DEF LinkAttrs, LsLinks
<1> HIDE DEF i, j, l
<1>8. /\ u.heap[i].links \in Seq(LsLinks)
      /\ Append(u.heap[i].links, l) \in Seq(LsLinks)
      /\ Len(Append(u.heap[i].links, l)) = Len(u.heap[i].links) + 1
      /\ Range(Append(u.heap[i].links, l)) = Range(u.heap[i].links) \cup {l}
  <2>1. u.heap[i].links \in Seq(LsLinks)
    BY <1>5 DEF LsNodes
  <2> QED
    BY <1>7, <2>1, AppendProperties, RangeOfAppend
<1>9. /\ n \in LsNodes /\ n.router = e.router
      /\ n.begin = u.heap[i].begin /\ n.end = u.heap[i].end
      /\ n.links = Append(u.heap[i].links, l) /\ n.prefixes = u.heap[i].prefixes
      /\ n.srv6 = u.heap[i].srv6
  BY <1>5, <1>8 DEF LsNodes
<1> HIDE DEF n, names
<1>10. /\ Of(a + 1, "node", e.router) = Of(a, "node", e.router)
       /\ Of(a + 1, "link", e.router) = Of(a, "link", e.router) \cup {a + 1}
       /\ Of(a + 1, "prefix", e.router) = Of(a, "prefix", e.router)
       /\ Of(a + 1, "srv6SID", e.router) = Of(a, "srv6SID", e.router)
  BY OfNext
<1>11. LinksFrom(names, n, Of(a + 1, "link", e.router))
  <2> DEFINE V(m) == <<names[m.remote], m.metrics, m.adjSID, m.endX>>
             W(k) == <<listing[k].remote, listing[k].link.metrics, listing[k].link.adjSID,
                       listing[k].link.endX>>
  <2>1. PICK I : I = Of(a, "link", e.router)
    OBVIOUS
  <2>2. IsFiniteSet(I) /\ a + 1 \notin I
    BY <2>1, OfFinite
  <2>3. Cardinality(I \cup {a + 1}) = Cardinality(I) + 1
    BY <2>2, FS_AddElement
  <2>4. V(l) = W(a + 1)
    BY <1>6, <1>7
  <2>5. /\ Len(u.heap[i].links) = Cardinality(I)
        /\ {V(m) : m \in Range(u.heap[i].links)} = {W(k) : k \in I}
    BY <1>5, <2>1 DEF LinksFrom
  <2>6. {V(m) : m \in Range(u.heap[i].links) \cup {l}} = {W(k) : k \in I \cup {a + 1}}
    <3> HIDE DEF V, W
    <3> QED
      BY <2>4, <2>5, Zenon
  <2> QED
    BY <1>8, <1>9, <1>10, <2>1, <2>3, <2>5, <2>6 DEF LinksFrom
<1>12. NodeIsMerge(names, n, a + 1)
  BY <1>5, <1>9, <1>10, <1>11 DEF NodeIsMerge, RangeFrom, PrefixesFrom, SIDsFrom
<1>13. Named(a + 1) = DOMAIN u.nodes
  BY <1>2, <1>3, NamedNext DEF Merged
<1>14. Merged([u EXCEPT !.heap[i] = n], a + 1)
  BY <1>3, <1>5, <1>9, <1>12, <1>13, ChangeContents DEF names
<1> QED
  BY <1>4, <1>14

(* An element of another AS adds nothing.                                  *)
LEMMA ForeignMerges ==
    ASSUME NEW t, NEW a \in Nat, Merged(t, a), Foreign(listing[a + 1])
    PROVE  Merged(t, a + 1)
<1>1. Mine(a + 1) = Mine(a)
  BY MineNext
<1>2. Named(a + 1) = Named(a) /\ \A kind, r : Of(a + 1, kind, r) = Of(a, kind, r)
  BY <1>1 DEF Named, Of
<1> QED
  BY <1>2 DEF Merged, Contents, NodeIsMerge

LEMMA MergedFrame ==
    ASSUME UNCHANGED listing, NEW t, NEW a, Merged(t, a)
    PROVE  Merged(t, a)'
<1>1. Mine(a)' = Mine(a)
  BY DEF Mine
<1>2. Named(a)' = Named(a) /\ \A kind, r : Of(a, kind, r)' = Of(a, kind, r)
  BY <1>1 DEF Named, Of
<1>3. \A names, n, I : /\ RangeFrom(n, I)' <=> RangeFrom(n, I)
                       /\ LinksFrom(names, n, I)' <=> LinksFrom(names, n, I)
                       /\ PrefixesFrom(n, I)' <=> PrefixesFrom(n, I)
                       /\ SIDsFrom(n, I)' <=> SIDsFrom(n, I)
  BY DEF RangeFrom, LinksFrom, PrefixesFrom, SIDsFrom
<1>4. \A names, n : NodeIsMerge(names, n, a)' <=> NodeIsMerge(names, n, a)
  BY <1>2, <1>3 DEF NodeIsMerge
<1> QED
  BY <1>2, <1>4 DEF Merged, Contents

==============================================================================
