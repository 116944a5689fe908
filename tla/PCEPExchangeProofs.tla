-------------------------- MODULE PCEPExchangeProofs --------------------------
(***************************************************************************)
(* What Pola writes into its requests is what a PCC reads from them, for   *)
(* every SR Policy a client can ask for and every kind of PCC.             *)
(*                                                                         *)
(* The argument follows the lengths.  Reading is a walk over words (Walk)  *)
(* whose next place is computed from the length at the present one, so a   *)
(* TLV, a subobject or an object is read from its own words when its       *)
(* length is that of its words, and what follows from what is left         *)
(* (AnyTLVsFirst, SegmentsFirst, ObjectsFirst).  What has to be shown of   *)
(* each of them is that Len agrees with Serialize and that its own words   *)
(* decode to it; induction on their number does the rest (TLVsBack,        *)
(* PathBack, ObjectsBack), and MessageBack is the whole message.           *)
(***************************************************************************)
EXTENDS PCEPExchange, WellFoundedInduction, SequenceTheorems, FiniteSetTheorems, TLAPS

(* A set of naturals that has a member has a least one.                    *)
LEMMA MinIsLeast ==
    ASSUME NEW S \in SUBSET Nat, S # {}
    PROVE  Min(S) \in S /\ \A n \in S : Min(S) <= n
<1> DEFINE R == OpToRel(<, Nat)
<1>1. IsWellFoundedOn(R, Nat)
  BY NatLessThanWellFounded
<1>2. \A x, y \in Nat : y < x => <<y, x>> \in R
  BY DEF OpToRel
<1> HIDE DEF R
<1>3. PICK x \in S : \A y \in S : ~(<<y, x>> \in R)
  BY <1>1, WFMin
<1>4. \A y \in S : x <= y
  <2> SUFFICES ASSUME NEW y \in S PROVE x <= y
    OBVIOUS
  <2>1. x \in Nat /\ y \in Nat /\ ~(y < x)
    BY <1>2, <1>3
  <2> QED
    BY <2>1
<1> QED
  BY <1>4 DEF Min

(* Induction over a set: what holds of 0 and of every successor holds of   *)
(* every natural.                                                          *)
LEMMA InductionOverSet ==
    ASSUME NEW S, 0 \in S, \A n \in Nat : n \in S => n + 1 \in S
    PROVE  \A n \in Nat : n \in S
<1> DEFINE T == {n \in Nat : n \notin S}
<1> SUFFICES ASSUME T # {} PROVE FALSE
  OBVIOUS
<1>1. Min(T) \in T /\ \A n \in T : Min(T) <= n
  BY MinIsLeast
<1>2. PICK m \in T : \A n \in T : m <= n
  BY <1>1
<1>3. m \in Nat /\ m \notin S /\ m # 0
  BY <1>2
<1>4. m - 1 \in Nat /\ m - 1 \notin T /\ (m - 1) + 1 = m
  BY <1>2, <1>3
<1>5. m - 1 \in S
  BY <1>4
<1> QED
  BY <1>3, <1>4, <1>5

------------------------------------------------------------------------------
(* Lists                                                                   *)

Listed(s) == s \in Seq(Range(s))

(* A function on 1 .. n is a list of n elements.                           *)
LEMMA ListOf ==
    ASSUME NEW n \in Nat, NEW s, s = [i \in 1 .. n |-> s[i]]
    PROVE  Listed(s) /\ Len(s) = n /\ DOMAIN s = 1 .. n
<1>1. DOMAIN s = 1 .. n
  BY Zenon
<1>2. \A i \in 1 .. n : s[i] \in Range(s)
  BY <1>1 DEF Range
<1>3. s \in [1 .. n -> Range(s)]
  BY <1>2
<1>4. s \in Seq(Range(s))
  BY <1>3, SeqDef
<1>5. DOMAIN s = 1 .. Len(s) /\ Len(s) \in Nat
  BY <1>4, LenProperties
<1>6. Len(s) = n
  BY <1>1, <1>5
<1> QED
  BY <1>1, <1>4, <1>6 DEF Listed

(* A list is a function on 1 .. Len(s).                                    *)
LEMMA ListIs ==
    ASSUME NEW s, Listed(s)
    PROVE  /\ Len(s) \in Nat /\ DOMAIN s = 1 .. Len(s) /\ s = [i \in 1 .. Len(s) |-> s[i]]
           /\ s = <<>> <=> Len(s) = 0
<1>1. s \in Seq(Range(s))
  BY DEF Listed
<1>2. /\ Len(s) \in Nat /\ DOMAIN s = 1 .. Len(s) /\ s \in [1 .. Len(s) -> Range(s)]
  BY <1>1, LenProperties
<1>3. s = <<>> => Len(s) = 0
  BY EmptySeq
<1>4. s # <<>> => Len(s) # 0
  BY <1>1, EmptySeq
<1>5. s = [i \in DOMAIN s |-> s[i]]
  BY <1>2
<1> QED
  BY <1>2, <1>3, <1>4, <1>5

LEMMA EmptyList == Listed(<<>>) /\ Len(<<>>) = 0
BY EmptySeq DEF Listed

LEMMA SingleList ==
    ASSUME NEW a
    PROVE  Listed(<<a>>) /\ Len(<<a>>) = 1 /\ <<a>>[1] = a
<1>1. <<a>> = [i \in 1 .. 1 |-> <<a>>[i]]
  OBVIOUS
<1> QED
  BY <1>1, ListOf

(* Lists of the same length with the same elements are equal.              *)
LEMMA SameList ==
    ASSUME NEW s, NEW t, Listed(s), Listed(t), Len(s) = Len(t),
           \A i \in 1 .. Len(s) : s[i] = t[i]
    PROVE  s = t
<1>1. s = [i \in 1 .. Len(s) |-> s[i]] /\ t = [i \in 1 .. Len(t) |-> t[i]]
  BY ListIs
<1>2. PICK n : n = Len(s)
  OBVIOUS
<1>3. s = [i \in 1 .. n |-> s[i]] /\ t = [i \in 1 .. n |-> t[i]] /\ \A i \in 1 .. n : s[i] = t[i]
  BY <1>1, <1>2
<1>4. [i \in 1 .. n |-> s[i]] = [i \in 1 .. n |-> t[i]]
  BY <1>3
<1> QED
  BY <1>3, <1>4

(* What the elements of two lists joined are.                              *)
LEMMA Joined ==
    ASSUME NEW s, NEW t, Listed(s), Listed(t)
    PROVE  /\ Listed(s \o t) /\ Len(s \o t) = Len(s) + Len(t)
           /\ \A i \in 1 .. Len(s) : (s \o t)[i] = s[i]
           /\ \A i \in 1 .. Len(t) : (s \o t)[Len(s) + i] = t[i]
<1> DEFINE S == Range(s) \cup Range(t)
<1>1. s \in Seq(S) /\ t \in Seq(S)
  BY SeqMonotonic DEF Listed
<1>2. /\ s \o t \in Seq(S) /\ Len(s \o t) = Len(s) + Len(t)
      /\ \A i \in 1 .. Len(s) + Len(t) :
            (s \o t)[i] = IF i <= Len(s) THEN s[i] ELSE t[i - Len(s)]
  BY <1>1, ConcatProperties
<1>3. Len(s) \in Nat /\ Len(t) \in Nat
  BY <1>1, LenProperties
<1>4. Listed(s \o t)
  BY <1>2, SeqOfRange DEF Listed
<1>5. \A i \in 1 .. Len(s) : (s \o t)[i] = s[i]
  BY <1>2, <1>3
<1>6. ASSUME NEW i \in 1 .. Len(t) PROVE (s \o t)[Len(s) + i] = t[i]
  <2>1. PICK k : k = Len(s) + i
    OBVIOUS
  <2>2. k \in 1 .. Len(s) + Len(t) /\ ~(k <= Len(s)) /\ k - Len(s) = i
    BY <1>3, <2>1
  <2>3. (s \o t)[k] = t[k - Len(s)]
    BY <1>2, <2>2
  <2> QED
    BY <2>1, <2>2, <2>3
<1> QED
  BY <1>2, <1>4, <1>5, <1>6

(* What the elements of a part of a list are.                              *)
LEMMA PartOf ==
    ASSUME NEW s, Listed(s), NEW m \in Nat, NEW n \in Nat, 1 <= m, m <= n + 1, n <= Len(s)
    PROVE  /\ Listed(SubSeq(s, m, n)) /\ Len(SubSeq(s, m, n)) = n - m + 1
           /\ \A i \in 1 .. n - m + 1 : SubSeq(s, m, n)[i] = s[m + i - 1]
<1>1. s \in Seq(Range(s)) /\ Len(s) \in Nat
  BY LenProperties DEF Listed
<1>2. \A i \in m .. n : s[i] \in Range(s)
  BY <1>1, ElementOfSeq
<1>3. /\ SubSeq(s, m, n) \in Seq(Range(s))
      /\ Len(SubSeq(s, m, n)) = IF m <= n THEN n - m + 1 ELSE 0
      /\ \A i \in 1 .. n - m + 1 : SubSeq(s, m, n)[i] = s[m + i - 1]
  BY <1>2, SubSeqProperties
<1>4. Listed(SubSeq(s, m, n))
  BY <1>3, SeqOfRange DEF Listed
<1> QED
  BY <1>3, <1>4

(* What the elements of a tail are.                                        *)
LEMMA TailOf ==
    ASSUME NEW s, Listed(s), s # <<>>
    PROVE  /\ Listed(Tail(s)) /\ Len(Tail(s)) = Len(s) - 1
           /\ \A i \in 1 .. Len(s) - 1 : Tail(s)[i] = s[i + 1]
<1>1. s \in Seq(Range(s))
  BY DEF Listed
<1>2. /\ Tail(s) \in Seq(Range(s)) /\ Len(Tail(s)) = Len(s) - 1
      /\ \A i \in 1 .. Len(Tail(s)) : Tail(s)[i] = s[i + 1]
  BY <1>1, HeadTailProperties
<1>3. Listed(Tail(s))
  BY <1>2, SeqOfRange DEF Listed
<1> QED
  BY <1>2, <1>3

(* Joining is associative.                                                 *)
LEMMA JoinedIsListed ==
    ASSUME NEW s, NEW t, NEW u, Listed(s), Listed(t), Listed(u)
    PROVE  (s \o t) \o u = s \o (t \o u)
<1> DEFINE S == Range(s) \cup Range(t) \cup Range(u)
<1>1. s \in Seq(S) /\ t \in Seq(S) /\ u \in Seq(S)
  BY SeqMonotonic DEF Listed
<1> QED
  BY <1>1, ConcatAssociative

(* Recursion over lists *)

------------------------------------------------------------------------------
(* Recursion over lists                                                    *)

(* A way over places that only leads on can be walked.                     *)
WalkAt(f, i, m, stops, bad, good, to) ==
    IF i = m + 1 THEN <<>>
    ELSE IF i \in stops THEN <<bad[i]>> ELSE <<good[i]>> \o f[to[i]]

IsWalk(f, m, stops, bad, good, to) ==
    f = [i \in 1 .. m + 1 |-> WalkAt(f, i, m, stops, bad, good, to)]

LEMMA WalkExists ==
    ASSUME NEW m \in Nat, NEW stops, NEW bad, NEW good, NEW to,
           \A i \in 1 .. m : i \notin stops => to[i] \in i + 1 .. m + 1
    PROVE  \E f : IsWalk(f, m, stops, bad, good, to)
<1> DEFINE at(h, i) == IF i = m + 1 THEN <<>>
                       ELSE IF i \in stops THEN <<bad[i]>> ELSE <<good[i]>> \o h[to[i]]
           Right(h, k) == \A i \in 1 .. m + 1 : m + 1 - k < i => h[i] = at(h, i)
           N == {k \in Nat : k <= m + 1 => \E h : Right(h, k)}
<1>1. 0 \in N
  OBVIOUS
<1>2. ASSUME NEW k \in Nat, k \in N PROVE k + 1 \in N
  <2> SUFFICES ASSUME k + 1 <= m + 1 PROVE \E h : Right(h, k + 1)
    OBVIOUS
  <2>1. PICK h : Right(h, k)
    BY <1>2
  <2>2. PICK j \in 1 .. m + 1 : j = m + 1 - k
    OBVIOUS
  <2> HIDE DEF at
  <2>3. PICK g : g = [i \in 1 .. m + 1 |-> IF i = j THEN at(h, j) ELSE h[i]]
    OBVIOUS
  <2>4. \A i \in 1 .. m + 1 : g[i] = IF i = j THEN at(h, j) ELSE h[i]
    BY <2>3
  <2>5. ASSUME NEW i \in 1 .. m + 1, m + 1 - (k + 1) < i PROVE g[i] = at(g, i)
    <3>1. at(g, i) = at(h, i)
      <4>1. CASE i = m + 1 \/ i \in stops
        BY <4>1 DEF at
      <4>2. CASE i # m + 1 /\ i \notin stops
        <5>1. i \in 1 .. m
          BY <4>2
        <5>2. PICK t : t = to[i]
          OBVIOUS
        <5>3. t \in i + 1 .. m + 1
          BY <4>2, <5>1, <5>2
        <5>4. t \in 1 .. m + 1 /\ t # j
          BY <2>2, <2>5, <5>3
        <5>5. g[t] = h[t]
          BY <2>4, <5>4
        <5> QED
          BY <4>2, <5>2, <5>5 DEF at
      <4> QED
        BY <4>1, <4>2
    <3>2. CASE i = j
      BY <2>4, <3>1, <3>2
    <3>3. CASE i # j
      <4>1. m + 1 - k < i
        BY <2>2, <2>5, <3>3
      <4> QED
        BY <2>1, <2>4, <3>1, <3>3, <4>1
    <3> QED
      BY <3>2, <3>3
  <2> QED
    BY <2>5
<1>3. \A k \in Nat : k \in N
  <2> HIDE DEF N
  <2> QED
    BY <1>1, <1>2, InductionOverSet
<1>4. PICK h : \A i \in 1 .. m + 1 : h[i] = at(h, i)
  <2>1. m + 1 \in Nat
    OBVIOUS
  <2>2. PICK h : Right(h, m + 1)
    <3>1. m + 1 \in N
      <4> HIDE DEF N
      <4> QED
        BY <1>3, <2>1
    <3> HIDE DEF Right
    <3> QED
      BY <3>1
  <2> HIDE DEF at
  <2>3. \A i \in 1 .. m + 1 : h[i] = at(h, i)
    BY <2>2
  <2> QED
    BY <2>3
<1> HIDE DEF at
<1>5. PICK f : f = [i \in 1 .. m + 1 |-> h[i]]
  OBVIOUS
<1>6. ASSUME NEW i \in 1 .. m + 1 PROVE f[i] = at(f, i)
  <2>1. at(f, i) = at(h, i)
    <3>1. CASE i = m + 1 \/ i \in stops
      BY <3>1 DEF at
    <3>2. CASE i # m + 1 /\ i \notin stops
      <4>1. i \in 1 .. m
        BY <3>2
      <4>2. PICK t : t = to[i]
        OBVIOUS
      <4>3. t \in 1 .. m + 1
        BY <3>2, <4>1, <4>2
      <4>4. f[t] = h[t]
        BY <1>5, <4>3
      <4> QED
        BY <3>2, <4>2, <4>4 DEF at
    <3> QED
      BY <3>1, <3>2
  <2> QED
    BY <1>4, <1>5, <2>1
<1>7. f = [i \in 1 .. m + 1 |-> at(f, i)]
  BY <1>5, <1>6
<1> QED
  BY <1>7 DEF IsWalk, WalkAt, at

(* The way over a list that ends as another one does.                      *)
LEMMA WalkMeets ==
    ASSUME NEW m \in Nat, NEW stops, NEW bad, NEW good, NEW to, NEW f,
           \A i \in 1 .. m : i \notin stops => to[i] \in i + 1 .. m + 1,
           IsWalk(f, m, stops, bad, good, to),
           NEW k \in Nat, NEW stops2, NEW bad2, NEW good2, NEW to2, NEW g,
           IsWalk(g, k + m, stops2, bad2, good2, to2),
           \A i \in 1 .. m :
              /\ k + i \in stops2 <=> i \in stops
              /\ bad2[k + i] = bad[i]
              /\ i \notin stops => good2[k + i] = good[i] /\ to2[k + i] = k + to[i]
    PROVE  g[k + 1] = f[1]
<1> DEFINE N == {n \in Nat : \A i \in 1 .. m + 1 : m + 1 - n <= i => g[k + i] = f[i]}
<1>0. ASSUME NEW i \in 1 .. m
      PROVE  /\ i \in stops => f[i] = <<bad[i]>>
             /\ i \notin stops => f[i] = <<good[i]>> \o f[to[i]]
  <2>1. i \in 1 .. m + 1 /\ i # m + 1
    OBVIOUS
  <2>2. f[i] = WalkAt(f, i, m, stops, bad, good, to)
    BY <2>1 DEF IsWalk
  <2> QED
    BY <2>1, <2>2, Zenon DEF WalkAt
<1>1. ASSUME NEW i \in 1 .. m
      PROVE  /\ k + i \in stops2 => g[k + i] = <<bad2[k + i]>>
             /\ k + i \notin stops2 => g[k + i] = <<good2[k + i]>> \o g[to2[k + i]]
  <2>1. PICK j : j = k + i
    OBVIOUS
  <2>2. j \in 1 .. k + m + 1 /\ j # k + m + 1
    BY <2>1
  <2>3. /\ j \in stops2 => g[j] = <<bad2[j]>>
        /\ j \notin stops2 => g[j] = <<good2[j]>> \o g[to2[j]]
    <3>1. g[j] = WalkAt(g, j, k + m, stops2, bad2, good2, to2)
      BY <2>2 DEF IsWalk
    <3> QED
      BY <2>2, <3>1, Zenon DEF WalkAt
  <2> QED
    BY <2>1, <2>3
<1>2. g[k + (m + 1)] = <<>> /\ f[m + 1] = <<>>
  <2>1. g[k + m + 1] = <<>> /\ f[m + 1] = <<>>
    <3>1. PICK p, q : p = k + m + 1 /\ q = m + 1
      OBVIOUS
    <3>2. p \in 1 .. k + m + 1 /\ q \in 1 .. m + 1
      BY <3>1
    <3>3. /\ g[p] = WalkAt(g, p, k + m, stops2, bad2, good2, to2)
          /\ f[q] = WalkAt(f, q, m, stops, bad, good, to)
      BY <3>2 DEF IsWalk
    <3>4. g[p] = <<>> /\ f[q] = <<>>
      BY <3>1, <3>3 DEF WalkAt
    <3> QED
      BY <3>1, <3>4
  <2>2. k + (m + 1) = k + m + 1
    OBVIOUS
  <2> QED
    BY <2>1, <2>2
<1>3. 0 \in N
  BY <1>2
<1>4. ASSUME NEW n \in Nat, n \in N PROVE n + 1 \in N
  <2> SUFFICES ASSUME NEW i \in 1 .. m + 1, m + 1 - (n + 1) <= i PROVE g[k + i] = f[i]
    OBVIOUS
  <2>1. CASE i = m + 1
    BY <1>2, <2>1
  <2>2. CASE i # m + 1 /\ i \in stops
    <3>1. i \in 1 .. m
      BY <2>2
    <3> QED
      <4>1. f[i] = <<bad[i]>> /\ k + i \in stops2 /\ bad2[k + i] = bad[i]
        BY <1>0, <2>2, <3>1, Zenon
      <4>2. g[k + i] = <<bad2[k + i]>>
        BY <1>1, <3>1, <4>1, Zenon
      <4> QED
        BY <4>1, <4>2, Zenon
  <2>3. CASE i # m + 1 /\ i \notin stops
    <3>1. i \in 1 .. m
      BY <2>3
    <3>2. PICK t : t = to[i]
      OBVIOUS
    <3>3. t \in i + 1 .. m + 1
      BY <2>3, <3>1, <3>2
    <3>4. t \in 1 .. m + 1 /\ m + 1 - n <= t
      BY <3>3
    <3>5. g[k + t] = f[t]
      BY <1>4, <3>4
    <3>6. g[k + i] = <<good2[k + i]>> \o g[to2[k + i]] /\ f[i] = <<good[i]>> \o f[t]
      BY <1>0, <1>1, <2>3, <3>1, <3>2, Zenon
    <3>7. good2[k + i] = good[i] /\ to2[k + i] = k + t
      BY <2>3, <3>1, <3>2, Zenon
    <3> QED
      BY <3>5, <3>6, <3>7, Zenon
  <2> QED
    BY <2>1, <2>2, <2>3
<1>5. \A n \in Nat : n \in N
  <2> HIDE DEF N
  <2> QED
    BY <1>3, <1>4, InductionOverSet
<1>6. m \in N
  BY <1>5
<1> QED
  BY <1>6

Parts(parts) == Listed(parts) /\ \A i \in 1 .. Len(parts) : Listed(parts[i])

(* Each place of a list is computed from the one before it.                *)
FlatAt(f, i, parts) == IF i = 1 THEN parts[i] ELSE f[i - 1] \o parts[i]

(* The joined prefixes of a list of parts, as a function of their number.  *)
LEMMA FlatExists ==
    ASSUME NEW n \in Nat, NEW parts
    PROVE  \E f : f = [i \in 1 .. n |-> FlatAt(f, i, parts)]
<1> DEFINE Right(h, k) == \A i \in 1 .. n : i <= k => h[i] = FlatAt(h, i, parts)
           N == {k \in Nat : \E h : Right(h, k)}
<1>1. 0 \in N
  OBVIOUS
<1>2. ASSUME NEW k \in Nat, k \in N PROVE k + 1 \in N
  <2>1. PICK h : Right(h, k)
    BY <1>2
  <2>2. PICK g : g = [i \in 1 .. n |-> IF i = k + 1 THEN FlatAt(h, k + 1, parts) ELSE h[i]]
    OBVIOUS
  <2>3. \A i \in 1 .. n : g[i] = IF i = k + 1 THEN FlatAt(h, k + 1, parts) ELSE h[i]
    BY <2>2
  <2>4. ASSUME NEW i \in 1 .. n, i <= k + 1 PROVE g[i] = FlatAt(g, i, parts)
    <3>1. FlatAt(g, i, parts) = FlatAt(h, i, parts)
      <4>1. CASE i = 1
        BY <4>1 DEF FlatAt
      <4>2. CASE i # 1
        <5>1. PICK j : j = i - 1
          OBVIOUS
        <5>2. j \in 1 .. n /\ j # k + 1
          BY <2>4, <4>2, <5>1
        <5>3. g[j] = h[j]
          BY <2>3, <5>2
        <5> QED
          BY <4>2, <5>1, <5>3 DEF FlatAt
      <4> QED
        BY <4>1, <4>2
    <3>2. CASE i = k + 1
      BY <2>3, <3>1, <3>2
    <3>3. CASE i # k + 1
      BY <2>1, <2>3, <2>4, <3>1, <3>3
    <3> QED
      BY <3>2, <3>3
  <2> QED
    BY <2>4
<1>3. \A k \in Nat : k \in N
  <2> HIDE DEF N
  <2> QED
    BY <1>1, <1>2, InductionOverSet
<1>4. PICK h : \A i \in 1 .. n : h[i] = FlatAt(h, i, parts)
  <2>1. n \in N
    BY <1>3
  <2>2. PICK h : Right(h, n)
    BY <2>1
  <2> QED
    BY <2>2
<1>5. PICK f : f = [i \in 1 .. n |-> h[i]]
  OBVIOUS
<1>6. ASSUME NEW i \in 1 .. n PROVE f[i] = FlatAt(f, i, parts)
  <2>1. CASE i = 1
    BY <1>4, <1>5, <2>1 DEF FlatAt
  <2>2. CASE i # 1
    <3>1. PICK j : j = i - 1
      OBVIOUS
    <3>2. j \in 1 .. n
      BY <2>2, <3>1
    <3>3. f[j] = h[j] /\ f[i] = FlatAt(h, i, parts)
      BY <1>4, <1>5, <3>2
    <3> QED
      BY <2>2, <3>1, <3>3 DEF FlatAt
  <2> QED
    BY <2>1, <2>2
<1> QED
  BY <1>5, <1>6

(* FlattenSeq joins the parts one after the other.                         *)
LEMMA FlattenUnfolds ==
    ASSUME NEW parts, Parts(parts), parts # <<>>
    PROVE  \E f : /\ FlattenSeq(parts) = f[Len(parts)] /\ f[1] = parts[1]
                  /\ \A i \in 1 .. Len(parts) - 1 : f[i + 1] = f[i] \o parts[i + 1]
<1>1. Len(parts) \in Nat /\ Len(parts) # 0
  BY ListIs DEF Parts
<1> DEFINE P(h) == h = [i \in 1 .. Len(parts) |-> IF i = 1 THEN parts[i] ELSE h[i - 1] \o parts[i]]
<1>2. PICK g : P(g)
  BY <1>1, FlatExists DEF FlatAt
<1>3. P(CHOOSE h : P(h))
  <2> HIDE DEF P
  <2> QED
    BY <1>2
<1>4. FlattenSeq(parts) = (CHOOSE h : P(h))[Len(parts)]
  BY <1>1 DEF FlattenSeq
<1>5. PICK f : f = CHOOSE h : P(h)
  OBVIOUS
<1>6. PICK n \in Nat : n = Len(parts) /\ n # 0
  BY <1>1
<1>7. P(f)
  <2> HIDE DEF P
  <2> QED
    BY <1>3, <1>5
<1>8. f = [i \in 1 .. n |-> FlatAt(f, i, parts)]
  BY <1>6, <1>7 DEF FlatAt
<1>9. \A i \in 1 .. n : f[i] = FlatAt(f, i, parts)
  BY <1>8
<1>10. f[1] = parts[1]
  <2>1. 1 \in 1 .. n
    BY <1>6
  <2> QED
    BY <1>9, <2>1 DEF FlatAt
<1>11. ASSUME NEW i \in 1 .. n - 1 PROVE f[i + 1] = f[i] \o parts[i + 1]
  <2>1. PICK j : j = i + 1
    OBVIOUS
  <2>2. j \in 1 .. n /\ j # 1 /\ j - 1 = i
    BY <2>1
  <2>3. f[j] = f[j - 1] \o parts[j]
    BY <1>9, <2>2 DEF FlatAt
  <2> QED
    BY <2>1, <2>2, <2>3
<1> QED
  BY <1>4, <1>5, <1>6, <1>10, <1>11

(* No parts join to nothing.                                               *)
LEMMA FlattenNone == FlattenSeq(<<>>) = <<>>
<1>1. Len(<<>>) = 0
  BY EmptySeq
<1> QED
  BY <1>1 DEF FlattenSeq

(* The parts of a list follow each other.                                  *)
LEMMA FlattenFirst ==
    ASSUME NEW parts, NEW rest, Parts(parts), Parts(rest), Len(parts) = Len(rest) + 1,
           \A i \in 1 .. Len(rest) : rest[i] = parts[i + 1]
    PROVE  FlattenSeq(parts) = parts[1] \o FlattenSeq(rest) /\ Listed(FlattenSeq(rest))
<1>1. PICK n \in Nat : n = Len(rest)
  BY ListIs DEF Parts
<1>2. parts # <<>> /\ Len(parts) = n + 1
  BY <1>1, EmptySeq
<1>3. PICK f : /\ FlattenSeq(parts) = f[n + 1] /\ f[1] = parts[1]
               /\ \A i \in 1 .. n : f[i + 1] = f[i] \o parts[i + 1]
  <2>1. Len(parts) - 1 = n
    BY <1>2
  <2>2. PICK f : /\ FlattenSeq(parts) = f[Len(parts)] /\ f[1] = parts[1]
                 /\ \A i \in 1 .. Len(parts) - 1 : f[i + 1] = f[i] \o parts[i + 1]
    BY <1>2, FlattenUnfolds
  <2> QED
    BY <1>2, <2>1, <2>2
<1>4. Listed(parts[1])
  BY <1>2 DEF Parts
<1>5. CASE n = 0
  <2>1. rest = <<>>
    BY <1>1, <1>5, ListIs DEF Parts
  <2>2. FlattenSeq(rest) = <<>>
    BY <2>1, FlattenNone
  <2>3. parts[1] \o <<>> = parts[1]
    <3>1. Listed(<<>>) /\ Len(<<>>) = 0
      BY EmptyList
    <3>2. /\ Listed(parts[1] \o <<>>) /\ Len(parts[1] \o <<>>) = Len(parts[1]) + 0
          /\ \A i \in 1 .. Len(parts[1]) : (parts[1] \o <<>>)[i] = parts[1][i]
      BY <1>4, <3>1, Joined
    <3>3. Len(parts[1]) \in Nat
      BY <1>4, ListIs
    <3> QED
      BY <1>4, <3>2, <3>3, SameList
  <2>4. FlattenSeq(parts) = parts[1]
    BY <1>3, <1>5
  <2> QED
    BY <2>2, <2>3, <2>4, EmptyList
<1>6. CASE n # 0
  <2>1. rest # <<>>
    BY <1>1, <1>6, EmptySeq
  <2>2. PICK h : /\ FlattenSeq(rest) = h[n] /\ h[1] = rest[1]
                 /\ \A i \in 1 .. n - 1 : h[i + 1] = h[i] \o rest[i + 1]
    BY <1>1, <2>1, FlattenUnfolds
  <2> DEFINE Joins(b) == Listed(h[b]) /\ f[b + 1] = parts[1] \o h[b]
             N == {k \in Nat : \A b \in 1 .. n : b = k + 1 => Joins(b)}
  <2>3. \A i \in 1 .. n : Listed(rest[i]) /\ rest[i] = parts[i + 1]
    BY <1>1 DEF Parts
  <2>4. 0 \in N
    <3>1. 1 \in 1 .. n
      BY <1>6
    <3>2. h[1] = rest[1] /\ Listed(rest[1]) /\ f[1 + 1] = f[1] \o parts[1 + 1] /\ rest[1] = parts[1 + 1]
      BY <1>3, <2>2, <2>3, <3>1
    <3>3. Joins(1)
      BY <1>3, <3>2
    <3> HIDE DEF Joins
    <3> QED
      BY <3>3
  <2>5. ASSUME NEW k \in Nat, k \in N PROVE k + 1 \in N
    <3> SUFFICES ASSUME NEW b \in 1 .. n, b = (k + 1) + 1 PROVE Joins(b)
      <4> HIDE DEF Joins
      <4> QED
        OBVIOUS
    <3>1. PICK a, c : a = k + 1 /\ c = b + 1
      OBVIOUS
    <3>2. a \in 1 .. n - 1 /\ a \in 1 .. n /\ b = a + 1
      BY <3>1
    <3>3. h[b] = h[a] \o rest[b]
      BY <2>2, <3>2
    <3>4. f[c] = f[b] \o parts[c]
      BY <1>3, <3>1
    <3>5. Listed(rest[b]) /\ rest[b] = parts[c]
      BY <2>3, <3>1
    <3>6. Joins(a)
      <4> HIDE DEF Joins
      <4> QED
        BY <2>5, <3>1, <3>2
    <3>7. Listed(h[a]) /\ f[b] = parts[1] \o h[a]
      BY <3>2, <3>6
    <3>8. Listed(h[b])
      BY <3>3, <3>5, <3>7, Joined
    <3>9. f[c] = parts[1] \o h[b]
      <4>1. PICK s, t, u : s = parts[1] /\ t = h[a] /\ u = rest[b]
        OBVIOUS
      <4>2. (s \o t) \o u = s \o (t \o u)
        <5>1. Listed(s) /\ Listed(t) /\ Listed(u)
          BY <1>4, <3>5, <3>7, <4>1, Zenon
        <5> QED
          BY <5>1, JoinedIsListed
      <4> QED
        BY <3>3, <3>4, <3>5, <3>7, <4>1, <4>2
    <3> QED
      BY <3>1, <3>8, <3>9
  <2>6. \A k \in Nat : k \in N
    <3> HIDE DEF N
    <3> QED
      BY <2>4, <2>5, InductionOverSet
  <2>7. PICK k \in Nat : k + 1 = n
    <3>1. n - 1 \in Nat /\ (n - 1) + 1 = n
      BY <1>6
    <3> QED
      BY <3>1
  <2>8. Joins(n)
    <3>1. k \in N /\ n \in 1 .. n
      <4> HIDE DEF N
      <4> QED
        BY <1>6, <2>6
    <3> HIDE DEF Joins
    <3> QED
      BY <2>7, <3>1
  <2> QED
    BY <1>3, <2>2, <2>8
<1> QED
  BY <1>5, <1>6

(* Parts join to a list.                                                   *)
LEMMA FlattenListed ==
    ASSUME NEW parts, Parts(parts)
    PROVE  Listed(FlattenSeq(parts))
<1>1. CASE parts = <<>>
  BY <1>1, FlattenNone, EmptyList
<1>2. CASE parts # <<>>
  <2>1. Listed(parts) /\ \A i \in 1 .. Len(parts) : Listed(parts[i])
    BY DEF Parts
  <2>2. Len(parts) \in Nat /\ Len(parts) # 0
    BY <1>2, <2>1, ListIs
  <2>3. /\ Listed(Tail(parts)) /\ Len(Tail(parts)) = Len(parts) - 1
        /\ \A i \in 1 .. Len(parts) - 1 : Tail(parts)[i] = parts[i + 1]
    BY <1>2, <2>1, TailOf
  <2>4. Parts(Tail(parts)) /\ Len(parts) = Len(Tail(parts)) + 1
    BY <2>1, <2>2, <2>3 DEF Parts
  <2>5. /\ FlattenSeq(parts) = parts[1] \o FlattenSeq(Tail(parts))
        /\ Listed(FlattenSeq(Tail(parts)))
    BY <2>3, <2>4, FlattenFirst
  <2>6. Listed(parts[1])
    BY <2>1, <2>2
  <2> QED
    BY <2>5, <2>6, Joined
<1> QED
  BY <1>1, <1>2

(* A list behind one element.                                              *)
LEMMA ConsOf ==
    ASSUME NEW s, Listed(s), s # <<>>
    PROVE  s = <<s[1]>> \o Tail(s)
<1>1. Len(s) \in Nat /\ Len(s) # 0
  BY ListIs
<1>2. /\ Listed(Tail(s)) /\ Len(Tail(s)) = Len(s) - 1
      /\ \A i \in 1 .. Len(s) - 1 : Tail(s)[i] = s[i + 1]
  BY TailOf
<1>3. PICK a : a = <<s[1]>>
  OBVIOUS
<1>4. Listed(a) /\ Len(a) = 1 /\ a[1] = s[1]
  BY <1>3, SingleList
<1>5. /\ Listed(a \o Tail(s)) /\ Len(a \o Tail(s)) = 1 + (Len(s) - 1)
      /\ \A i \in 1 .. 1 : (a \o Tail(s))[i] = a[i]
      /\ \A i \in 1 .. Len(s) - 1 : (a \o Tail(s))[1 + i] = Tail(s)[i]
  <2>1. Listed(a) /\ Listed(Tail(s))
    BY <1>2, <1>4
  <2>2. /\ Listed(a \o Tail(s)) /\ Len(a \o Tail(s)) = Len(a) + Len(Tail(s))
        /\ \A i \in 1 .. Len(a) : (a \o Tail(s))[i] = a[i]
        /\ \A i \in 1 .. Len(Tail(s)) : (a \o Tail(s))[Len(a) + i] = Tail(s)[i]
    BY <2>1, Joined
  <2> QED
    BY <1>2, <1>4, <2>2
<1>6. ASSUME NEW i \in 1 .. Len(s) PROVE s[i] = (a \o Tail(s))[i]
  <2>1. CASE i = 1
    BY <1>4, <1>5, <2>1
  <2>2. CASE i # 1
    <3>1. PICK j : j = i - 1
      OBVIOUS
    <3>2. j \in 1 .. Len(s) - 1 /\ i = 1 + j /\ i = j + 1
      BY <1>1, <2>2, <3>1
    <3> QED
      BY <1>2, <1>5, <3>2
  <2> QED
    BY <2>1, <2>2
<1>7. Len(s) = Len(a \o Tail(s))
  BY <1>1, <1>5
<1> QED
  BY <1>3, <1>5, <1>6, <1>7, SameList

LEMMA NoneBefore ==
    ASSUME NEW s, Listed(s)
    PROVE  <<>> \o s = s /\ s \o <<>> = s
<1>1. s \in Seq(Range(s))
  BY DEF Listed
<1> QED
  BY <1>1, ConcatEmptySeq

(* Some elements of a list, as one-element lists among empty ones.         *)
Marked(parts, s) ==
    /\ Listed(parts) /\ Listed(s) /\ Len(parts) = Len(s)
    /\ \A i \in 1 .. Len(s) : parts[i] = <<s[i]>> \/ parts[i] = <<>>

IsKept(K, parts, s) ==
    /\ Listed(K)
    /\ \A j \in 1 .. Len(K) : \E i \in 1 .. Len(s) : parts[i] = <<s[i]>> /\ K[j] = s[i]
    /\ \A i \in 1 .. Len(s) : parts[i] # <<>> /\ (\A j \in 1 .. i - 1 : parts[j] = <<>>)
                                 => K # <<>> /\ K[1] = s[i]
    /\ (\A i \in 1 .. Len(s) : parts[i] = <<>>) => K = <<>>
    /\ (\A i \in 1 .. Len(s) : parts[i] # <<>>) => K = s

(* The marked elements of a list are parts to be joined.                   *)
LEMMA MarkedParts ==
    ASSUME NEW parts, NEW s, Marked(parts, s)
    PROVE  Parts(parts)
<1>1. ASSUME NEW i \in 1 .. Len(parts) PROVE Listed(parts[i])
  <2>1. parts[i] = <<s[i]>> \/ parts[i] = <<>>
    BY DEF Marked
  <2> QED
    BY <2>1, SingleList, EmptyList
<1> QED
  BY <1>1 DEF Parts, Marked

(* Keeping elements of a list, its first one after the other.              *)
LEMMA KeptOne ==
    ASSUME NEW parts, NEW s, Marked(parts, s), s # <<>>, NEW rest, NEW t, Marked(rest, t),
           Len(s) = Len(t) + 1, \A i \in 1 .. Len(t) : rest[i] = parts[i + 1] /\ t[i] = s[i + 1],
           IsKept(FlattenSeq(rest), rest, t)
    PROVE  IsKept(FlattenSeq(parts), parts, s)
<1>1. PICK n \in Nat : n = Len(t) /\ Len(s) = n + 1 /\ Len(rest) = n /\ Len(parts) = n + 1
  BY ListIs DEF Marked
<1>2. Parts(parts) /\ Parts(rest)
  BY MarkedParts
<1>3. PICK K, L : K = FlattenSeq(parts) /\ L = FlattenSeq(rest)
  OBVIOUS
<1>4. K = parts[1] \o L /\ Listed(L)
  BY <1>1, <1>2, <1>3, FlattenFirst
<1>5. 1 \in 1 .. n + 1 /\ (parts[1] = <<s[1]>> \/ parts[1] = <<>>)
  BY <1>1 DEF Marked
<1>6. Listed(s) /\ Listed(t) /\ Len(L) \in Nat
  BY <1>4, ListIs DEF Marked
<1>7. /\ \A j \in 1 .. Len(L) : \E i \in 1 .. n : rest[i] = <<t[i]>> /\ L[j] = t[i]
      /\ \A i \in 1 .. n : rest[i] # <<>> /\ (\A j \in 1 .. i - 1 : rest[j] = <<>>)
                              => L # <<>> /\ L[1] = t[i]
      /\ (\A i \in 1 .. n : rest[i] = <<>>) => L = <<>>
      /\ (\A i \in 1 .. n : rest[i] # <<>>) => L = t
  BY <1>1, <1>3 DEF IsKept
<1>8. \A i \in 1 .. n : rest[i] = parts[i + 1] /\ t[i] = s[i + 1] /\ i + 1 \in 1 .. n + 1
  BY <1>1
<1>9. \A j \in 1 .. Len(L) : \E i \in 1 .. n + 1 : parts[i] = <<s[i]>> /\ L[j] = s[i]
  <2> SUFFICES ASSUME NEW j \in 1 .. Len(L)
               PROVE  \E i \in 1 .. n + 1 : parts[i] = <<s[i]>> /\ L[j] = s[i]
    OBVIOUS
  <2>1. PICK i \in 1 .. n : rest[i] = <<t[i]>> /\ L[j] = t[i]
    BY <1>7
  <2>2. i + 1 \in 1 .. n + 1 /\ parts[i + 1] = <<s[i + 1]>> /\ L[j] = s[i + 1]
    BY <1>8, <2>1
  <2> QED
    BY <2>2
<1>10. CASE parts[1] = <<>>
  <2>1. K = L
    BY <1>4, <1>10, NoneBefore
  <2>2. ASSUME NEW i \in 1 .. n + 1, parts[i] # <<>>, \A j \in 1 .. i - 1 : parts[j] = <<>>
        PROVE  K # <<>> /\ K[1] = s[i]
    <3>1. PICK k : k = i - 1
      OBVIOUS
    <3>2. k \in 1 .. n /\ i = k + 1
      <4>1. i # 1
        BY <1>10, <2>2
      <4> QED
        BY <3>1, <4>1
    <3>3. \A j \in 1 .. k - 1 : rest[j] = <<>>
      <4> SUFFICES ASSUME NEW j \in 1 .. k - 1 PROVE rest[j] = <<>>
        OBVIOUS
      <4>1. j \in 1 .. n /\ j + 1 \in 1 .. i - 1
        BY <3>2
      <4>2. PICK m : m = j + 1
        OBVIOUS
      <4> QED
        BY <1>8, <2>2, <4>1, <4>2
    <3> QED
      BY <1>7, <1>8, <2>1, <2>2, <3>2, <3>3
  <2>3. (\A i \in 1 .. n + 1 : parts[i] = <<>>) => K = <<>>
    <3> SUFFICES ASSUME \A i \in 1 .. n + 1 : parts[i] = <<>> PROVE K = <<>>
      OBVIOUS
    <3>1. \A i \in 1 .. n : rest[i] = <<>>
      BY <1>8
    <3> QED
      BY <1>7, <2>1, <3>1
  <2>4. IsKept(K, parts, s)
    <3>1. Listed(K) /\ \A j \in 1 .. Len(K) : \E i \in 1 .. n + 1 : parts[i] = <<s[i]>> /\ K[j] = s[i]
      BY <1>4, <1>9, <2>1
    <3>2. ~(\A i \in 1 .. n + 1 : parts[i] # <<>>)
      BY <1>5, <1>10
    <3> QED
      BY <1>1, <2>2, <2>3, <3>1, <3>2 DEF IsKept
  <2> QED
    BY <1>3, <2>4
<1>11. CASE parts[1] # <<>>
  <2>1. K = <<s[1]>> \o L
    BY <1>4, <1>5, <1>11
  <2>2. /\ Listed(K) /\ Len(K) = 1 + Len(L) /\ K[1] = s[1]
        /\ \A i \in 1 .. Len(L) : K[1 + i] = L[i]
    <3>1. PICK a : a = <<s[1]>>
      OBVIOUS
    <3>2. Listed(a) /\ Len(a) = 1 /\ a[1] = s[1]
      BY <3>1, SingleList
    <3>3. /\ Listed(a \o L) /\ Len(a \o L) = Len(a) + Len(L)
          /\ \A i \in 1 .. Len(a) : (a \o L)[i] = a[i]
          /\ \A i \in 1 .. Len(L) : (a \o L)[Len(a) + i] = L[i]
      <4>1. Listed(a) /\ Listed(L)
        BY <1>4, <3>2
      <4> QED
        BY <4>1, Joined
    <3> QED
      BY <2>1, <3>1, <3>2, <3>3
  <2>3. K # <<>>
    BY <1>6, <2>2, ListIs
  <2>4. ASSUME NEW j \in 1 .. Len(K)
        PROVE  \E i \in 1 .. n + 1 : parts[i] = <<s[i]>> /\ K[j] = s[i]
    <3>1. CASE j = 1
      BY <1>5, <1>11, <2>2, <3>1
    <3>2. CASE j # 1
      <4>1. PICK k : k = j - 1
        OBVIOUS
      <4>2. k \in 1 .. Len(L) /\ j = 1 + k
        BY <1>6, <2>2, <3>2, <4>1
      <4> QED
        BY <1>9, <2>2, <4>2
    <3> QED
      BY <3>1, <3>2
  <2>5. ASSUME NEW i \in 1 .. n + 1, parts[i] # <<>>, \A j \in 1 .. i - 1 : parts[j] = <<>>
        PROVE  K[1] = s[i]
    <3>1. i = 1
      BY <1>11, <2>5
    <3> QED
      BY <2>2, <3>1
  <2>6. (\A i \in 1 .. n + 1 : parts[i] # <<>>) => K = s
    <3> SUFFICES ASSUME \A i \in 1 .. n + 1 : parts[i] # <<>> PROVE K = s
      OBVIOUS
    <3>1. \A i \in 1 .. n : rest[i] # <<>>
      BY <1>8
    <3>2. L = t
      BY <1>7, <3>1
    <3>3. /\ Listed(Tail(s)) /\ Len(Tail(s)) = (n + 1) - 1
          /\ \A i \in 1 .. (n + 1) - 1 : Tail(s)[i] = s[i + 1]
      BY <1>1, <1>6, TailOf
    <3>4. Len(Tail(s)) = Len(t) /\ \A i \in 1 .. Len(t) : Tail(s)[i] = t[i]
      BY <1>1, <1>8, <3>3
    <3>5. Tail(s) = t
      BY <1>6, <3>3, <3>4, SameList
    <3> QED
      BY <1>6, <2>1, <3>2, <3>5, ConsOf
  <2>7. IsKept(K, parts, s)
    BY <1>1, <1>5, <1>11, <2>2, <2>3, <2>4, <2>5, <2>6 DEF IsKept
  <2> QED
    BY <1>3, <2>7
<1> QED
  BY <1>10, <1>11

(* What Keep keeps of a list.                                              *)
LEMMA KeptIs ==
    ASSUME NEW parts, NEW s, Marked(parts, s)
    PROVE  IsKept(FlattenSeq(parts), parts, s)
<1> DEFINE N == {n \in Nat : \A p, t : Marked(p, t) /\ Len(t) = n => IsKept(FlattenSeq(p), p, t)}
<1>1. 0 \in N
  <2> SUFFICES ASSUME NEW p, NEW t, Marked(p, t), Len(t) = 0 PROVE IsKept(FlattenSeq(p), p, t)
    OBVIOUS
  <2>1. p = <<>> /\ t = <<>>
    BY ListIs DEF Marked
  <2>2. FlattenSeq(p) = <<>> /\ Len(<<>>) = 0 /\ Listed(<<>>)
    BY <2>1, FlattenNone, EmptyList
  <2> QED
    BY <2>1, <2>2 DEF IsKept
<1>2. ASSUME NEW n \in Nat, n \in N PROVE n + 1 \in N
  <2> SUFFICES ASSUME NEW p, NEW t, Marked(p, t), Len(t) = n + 1
               PROVE  IsKept(FlattenSeq(p), p, t)
    OBVIOUS
  <2>1. Listed(p) /\ Listed(t) /\ Len(p) = n + 1
    BY DEF Marked
  <2>2. p # <<>> /\ t # <<>>
    BY <2>1, ListIs
  <2>3. /\ Listed(Tail(p)) /\ Len(Tail(p)) = (n + 1) - 1
        /\ \A i \in 1 .. (n + 1) - 1 : Tail(p)[i] = p[i + 1]
    BY <2>1, <2>2, TailOf
  <2>4. /\ Listed(Tail(t)) /\ Len(Tail(t)) = (n + 1) - 1
        /\ \A i \in 1 .. (n + 1) - 1 : Tail(t)[i] = t[i + 1]
    BY <2>1, <2>2, TailOf
  <2>5. PICK q, u : q = Tail(p) /\ u = Tail(t)
    OBVIOUS
  <2>6. /\ Listed(q) /\ Listed(u) /\ Len(q) = n /\ Len(u) = n
        /\ \A i \in 1 .. n : q[i] = p[i + 1] /\ u[i] = t[i + 1]
    BY <2>3, <2>4, <2>5
  <2>7. ASSUME NEW i \in 1 .. n PROVE q[i] = <<u[i]>> \/ q[i] = <<>>
    <3>1. PICK j : j = i + 1
      OBVIOUS
    <3>2. j \in 1 .. n + 1
      BY <3>1
    <3>3. p[j] = <<t[j]>> \/ p[j] = <<>>
      BY <3>2 DEF Marked
    <3> QED
      BY <2>6, <3>1, <3>3
  <2>8. Marked(q, u)
    BY <2>6, <2>7 DEF Marked
  <2>9. IsKept(FlattenSeq(q), q, u)
    BY <1>2, <2>6, <2>8
  <2> QED
    BY <2>2, <2>6, <2>8, <2>9, KeptOne
<1>3. \A n \in Nat : n \in N
  <2> HIDE DEF N
  <2> QED
    BY <1>1, <1>2, InductionOverSet
<1>4. Len(s) \in Nat
  BY ListIs DEF Marked
<1>5. PICK n \in Nat : n = Len(s)
  BY <1>4
<1>6. n \in N
  <2> HIDE DEF N
  <2> QED
    BY <1>3
<1> QED
  BY <1>5, <1>6

------------------------------------------------------------------------------
(* Words, and walks over them                                              *)

(* A word that is not the beginning of an object reads as one that has no  *)
(* header.                                                                 *)
IsWord(w) ==
    /\ w # <<>> /\ w[1] = "tlv" => Field(w, 3, 0) \in Nat
    /\ Field(w, 1, "zero") = "obj" => w[4] \in Nat

IsText(ws) == Listed(ws) /\ \A i \in 1 .. Len(ws) : IsWord(ws[i])

(* The first part of a walk, and the walk over the rest.                   *)
Forward(m, stops, to) == \A i \in 1 .. m : i \notin stops => to[i] \in i + 1 .. m + 1

Agrees(k, m, stops, bad, good, to, stops2, bad2, good2, to2) ==
    \A i \in 1 .. m :
       /\ k + i \in stops2 <=> i \in stops
       /\ bad2[k + i] = bad[i]
       /\ i \notin stops => good2[k + i] = good[i] /\ to2[k + i] = k + to[i]

Continues(k, m, f, stops, bad, good, to, g, stops2, bad2, good2, to2) ==
    /\ k \in Nat /\ k # 0 /\ m \in Nat
    /\ Forward(m, stops, to) /\ IsWalk(f, m, stops, bad, good, to)
    /\ IsWalk(g, k + m, stops2, bad2, good2, to2)
    /\ Agrees(k, m, stops, bad, good, to, stops2, bad2, good2, to2)
    /\ 1 \notin stops2 /\ to2[1] = k + 1

(* A walk that leads on from its first place is that place and the walk    *)
(* from the next.                                                          *)
LEMMA WalkOn ==
    ASSUME NEW k, NEW m, NEW f, NEW stops, NEW bad, NEW good, NEW to,
           NEW g, NEW stops2, NEW bad2, NEW good2, NEW to2,
           Continues(k, m, f, stops, bad, good, to, g, stops2, bad2, good2, to2)
    PROVE  g[1] = Cons(good2[1], f[1])
<1>1. g[k + 1] = f[1]
  BY WalkMeets DEF Continues, Forward, Agrees
<1>2. 1 \in 1 .. k + m + 1 /\ 1 # k + m + 1
  BY DEF Continues
<1>3. g[1] = WalkAt(g, 1, k + m, stops2, bad2, good2, to2)
  BY <1>2 DEF IsWalk, Continues
<1>4. g[1] = <<good2[1]>> \o g[to2[1]]
  BY <1>2, <1>3, Zenon DEF WalkAt, Continues
<1> QED
  BY <1>1, <1>4 DEF Cons, Continues

NextObject(ws, i) == i + ObjectLengthAt(ws[i]) \div 4

FramedAt(ws, i) ==
    /\ ObjectLengthAt(ws[i]) >= 4 /\ ObjectLengthAt(ws[i]) % 4 = 0
    /\ NextObject(ws, i) <= Len(ws) + 1

ObjectAt(ws, i) ==
    [class |-> ClassAt(ws[i]), otype |-> ObjectTypeAt(ws[i]),
     framed |-> FramedAt(ws, i), length |-> ObjectLengthAt(ws[i]),
     body |-> IF FramedAt(ws, i) THEN SubSeq(ws, i + 1, NextObject(ws, i) - 1) ELSE <<>>]

ObjectStops(ws) == {i \in 1 .. Len(ws) : ~FramedAt(ws, i)}

ObjectMade(ws) == [i \in 1 .. Len(ws) |-> ObjectAt(ws, i)]

ObjectTo(ws) == [i \in 1 .. Len(ws) |-> NextObject(ws, i)]

ObjectWalk(f, ws) ==
    IsWalk(f, Len(ws), ObjectStops(ws), ObjectMade(ws), ObjectMade(ws), ObjectTo(ws))

(* ObjectsOf is a walk.                                                    *)
LEMMA ObjectsWalk ==
    ASSUME NEW ws, IsText(ws)
    PROVE  /\ \E f : ObjectWalk(f, ws) /\ ObjectsOf(ws) = f[1]
           /\ \A i \in 1 .. Len(ws) : i \notin ObjectStops(ws) => ObjectTo(ws)[i] \in i + 1 .. Len(ws) + 1
<1>1. Len(ws) \in Nat
  BY ListIs DEF IsText
<1>2. ASSUME NEW i \in 1 .. Len(ws), i \notin ObjectStops(ws)
      PROVE  ObjectTo(ws)[i] \in i + 1 .. Len(ws) + 1
  <2>1. FramedAt(ws, i)
    BY <1>2 DEF ObjectStops
  <2>2. ObjectLengthAt(ws[i]) \in Nat
    BY DEF IsText, IsWord, ObjectLengthAt
  <2>3. PICK l \in Nat : l = ObjectLengthAt(ws[i])
    BY <2>2
  <2>4. l >= 4 /\ i + l \div 4 <= Len(ws) + 1
    BY <2>1, <2>3 DEF FramedAt, NextObject
  <2>5. i + l \div 4 \in i + 1 .. Len(ws) + 1
    BY <1>1, <2>3, <2>4
  <2> QED
    BY <2>3, <2>5 DEF ObjectTo, NextObject
<1> DEFINE P(h) == h = [i \in 1 .. Len(ws) + 1 |->
                          IF i = Len(ws) + 1 THEN <<>>
                          ELSE IF ~FramedAt(ws, i) THEN <<ObjectAt(ws, i)>>
                          ELSE <<ObjectAt(ws, i)>> \o h[NextObject(ws, i)]]
<1>3. ObjectsOf(ws) = (CHOOSE h : P(h))[1]
  BY DEF ObjectsOf, Walk, ObjectAt, FramedAt, NextObject
<1>4. PICK g : ObjectWalk(g, ws)
  BY <1>1, <1>2, WalkExists DEF ObjectWalk
<1>5. ASSUME NEW h
      PROVE  P(h) <=> ObjectWalk(h, ws)
  <2>1. ASSUME NEW i \in 1 .. Len(ws) + 1
        PROVE  (IF i = Len(ws) + 1 THEN <<>>
                ELSE IF ~FramedAt(ws, i) THEN <<ObjectAt(ws, i)>>
                ELSE <<ObjectAt(ws, i)>> \o h[NextObject(ws, i)])
               = WalkAt(h, i, Len(ws), ObjectStops(ws), ObjectMade(ws), ObjectMade(ws), ObjectTo(ws))
    <3>1. CASE i = Len(ws) + 1
      BY <3>1, Zenon DEF WalkAt
    <3>2. CASE i # Len(ws) + 1
      <4>1. i \in 1 .. Len(ws)
        BY <1>1, <3>2
      <4>2. i \in ObjectStops(ws) <=> ~FramedAt(ws, i)
        BY <4>1, Zenon DEF ObjectStops
      <4>3. ObjectMade(ws)[i] = ObjectAt(ws, i) /\ ObjectTo(ws)[i] = NextObject(ws, i)
        BY <4>1, Zenon DEF ObjectMade, ObjectTo
      <4> QED
        BY <3>2, <4>2, <4>3, Zenon DEF WalkAt
    <3> QED
      BY <3>1, <3>2
  <2> QED
    BY <2>1, Zenon DEF ObjectWalk, IsWalk
<1>6. P(CHOOSE h : P(h))
  <2> HIDE DEF P
  <2> QED
    BY <1>4, <1>5
<1> HIDE DEF P
<1> QED
  BY <1>2, <1>3, <1>5, <1>6

(* Texts, lists of such words, join to a text.                             *)
LEMMA TextJoined ==
    ASSUME NEW a, NEW b, IsText(a), IsText(b)
    PROVE  IsText(a \o b)
<1>1. /\ Listed(a \o b) /\ Len(a \o b) = Len(a) + Len(b)
      /\ \A i \in 1 .. Len(a) : (a \o b)[i] = a[i]
      /\ \A i \in 1 .. Len(b) : (a \o b)[Len(a) + i] = b[i]
  BY Joined DEF IsText
<1>2. Len(a) \in Nat /\ Len(b) \in Nat
  BY ListIs DEF IsText
<1>3. ASSUME NEW i \in 1 .. Len(a \o b) PROVE IsWord((a \o b)[i])
  <2>1. CASE i <= Len(a)
    <3>1. i \in 1 .. Len(a)
      BY <2>1
    <3> QED
      BY <1>1, <3>1 DEF IsText
  <2>2. CASE ~(i <= Len(a))
    <3>1. PICK j : j = i - Len(a)
      OBVIOUS
    <3>2. j \in 1 .. Len(b) /\ i = Len(a) + j
      BY <1>1, <1>2, <2>2, <3>1
    <3>3. (a \o b)[i] = b[j]
      BY <1>1, <3>2
    <3> QED
      BY <3>2, <3>3 DEF IsText
  <2> QED
    BY <2>1, <2>2
<1> QED
  BY <1>1, <1>3 DEF IsText

LEMMA TextOfOne ==
    ASSUME NEW w, IsWord(w)
    PROVE  IsText(<<w>>)
<1>1. PICK a : a = <<w>>
  OBVIOUS
<1>2. Listed(a) /\ Len(a) = 1 /\ a[1] = w
  BY <1>1, SingleList
<1> QED
  BY <1>1, <1>2 DEF IsText

LEMMA NoText == IsText(<<>>)
BY EmptyList DEF IsText

(* A part of a joined list that lies in one of the two.                    *)
LEMMA PartOfFirst ==
    ASSUME NEW a, NEW b, Listed(a), Listed(b), NEW m \in Nat, NEW n \in Nat,
           1 <= m, m <= n + 1, n <= Len(a)
    PROVE  SubSeq(a \o b, m, n) = SubSeq(a, m, n)
<1>1. /\ Listed(a \o b) /\ Len(a \o b) = Len(a) + Len(b)
      /\ \A i \in 1 .. Len(a) : (a \o b)[i] = a[i]
  BY Joined
<1>2. Len(a) \in Nat /\ Len(b) \in Nat
  BY ListIs
<1>3. PICK s, t, c : c = a \o b /\ s = SubSeq(c, m, n) /\ t = SubSeq(a, m, n)
  OBVIOUS
<1>4. Listed(s) /\ Len(s) = n - m + 1 /\ \A i \in 1 .. n - m + 1 : s[i] = c[m + i - 1]
  <2>1. Listed(c) /\ n <= Len(c)
    BY <1>1, <1>2, <1>3
  <2> QED
    BY <1>3, <2>1, PartOf
<1>5. Listed(t) /\ Len(t) = n - m + 1 /\ \A i \in 1 .. n - m + 1 : t[i] = a[m + i - 1]
  BY <1>3, PartOf
<1>6. ASSUME NEW i \in 1 .. n - m + 1 PROVE s[i] = t[i]
  <2>1. PICK j : j = m + i - 1
    OBVIOUS
  <2>2. j \in 1 .. Len(a)
    BY <1>2, <2>1
  <2>3. c[j] = a[j]
    BY <1>1, <1>3, <2>2
  <2> QED
    BY <1>4, <1>5, <2>1, <2>3
<1>7. s = t
  BY <1>4, <1>5, <1>6, SameList
<1> QED
  BY <1>3, <1>7

(* A part of a joined list that lies in the second one.                    *)
LEMMA PartOfSecond ==
    ASSUME NEW a, NEW b, Listed(a), Listed(b), NEW m \in Nat, NEW n \in Nat,
           1 <= m, m <= n + 1, n <= Len(b)
    PROVE  SubSeq(a \o b, Len(a) + m, Len(a) + n) = SubSeq(b, m, n)
<1>1. /\ Listed(a \o b) /\ Len(a \o b) = Len(a) + Len(b)
      /\ \A i \in 1 .. Len(b) : (a \o b)[Len(a) + i] = b[i]
  BY Joined
<1>2. Len(a) \in Nat /\ Len(b) \in Nat
  BY ListIs
<1>3. PICK k, p, q, c : k = Len(a) /\ p = k + m /\ q = k + n /\ c = a \o b
  OBVIOUS
<1>4. p \in Nat /\ q \in Nat /\ 1 <= p /\ p <= q + 1 /\ q <= Len(c) /\ q - p + 1 = n - m + 1
  BY <1>1, <1>2, <1>3
<1>5. PICK s, t : s = SubSeq(c, p, q) /\ t = SubSeq(b, m, n)
  OBVIOUS
<1>6. Listed(s) /\ Len(s) = n - m + 1 /\ \A i \in 1 .. n - m + 1 : s[i] = c[p + i - 1]
  <2>1. Listed(c)
    BY <1>1, <1>3
  <2>2. Listed(s) /\ Len(s) = q - p + 1 /\ \A i \in 1 .. q - p + 1 : s[i] = c[p + i - 1]
    BY <1>4, <1>5, <2>1, PartOf
  <2> QED
    BY <1>4, <2>2
<1>7. Listed(t) /\ Len(t) = n - m + 1 /\ \A i \in 1 .. n - m + 1 : t[i] = b[m + i - 1]
  BY <1>5, PartOf
<1>8. ASSUME NEW i \in 1 .. n - m + 1 PROVE s[i] = t[i]
  <2>1. PICK j : j = m + i - 1
    OBVIOUS
  <2>2. j \in 1 .. Len(b) /\ p + i - 1 = k + j
    BY <1>2, <1>3, <2>1
  <2>3. c[k + j] = b[j]
    BY <1>1, <1>3, <2>2
  <2> QED
    BY <1>6, <1>7, <2>1, <2>2, <2>3
<1>9. s = t
  BY <1>6, <1>7, <1>8, SameList
<1> QED
  BY <1>3, <1>5, <1>9

LEMMA WholePart ==
    ASSUME NEW a, Listed(a)
    PROVE  SubSeq(a, 1, Len(a)) = a
<1>1. Len(a) \in Nat
  BY ListIs
<1>2. PICK s, n : n = Len(a) /\ s = SubSeq(a, 1, n)
  OBVIOUS
<1>3. Listed(s) /\ Len(s) = n - 1 + 1 /\ \A i \in 1 .. n - 1 + 1 : s[i] = a[1 + i - 1]
  <2>1. 1 \in Nat /\ n \in Nat /\ 1 <= 1 /\ 1 <= n + 1 /\ n <= Len(a)
    BY <1>1, <1>2
  <2> QED
    BY <1>2, <2>1, PartOf
<1>4. Len(s) = Len(a) /\ \A i \in 1 .. Len(s) : s[i] = a[i]
  BY <1>1, <1>2, <1>3
<1>5. s = a
  BY <1>3, <1>4, SameList
<1> QED
  BY <1>2, <1>5

(* What stands between a first word and the rest.                          *)
LEMMA BetweenParts ==
    ASSUME NEW w, NEW b, NEW rest, Listed(b), Listed(rest)
    PROVE  /\ Listed((<<w>> \o b) \o rest) /\ Len((<<w>> \o b) \o rest) = (1 + Len(b)) + Len(rest)
           /\ ((<<w>> \o b) \o rest)[1] = w
           /\ SubSeq((<<w>> \o b) \o rest, 2, 1 + Len(b)) = b
           /\ \A i \in 1 .. Len(rest) : ((<<w>> \o b) \o rest)[(1 + Len(b)) + i] = rest[i]
           /\ Listed(<<w>> \o b) /\ Len(<<w>> \o b) = 1 + Len(b)
<1>1. PICK a, c, d : a = <<w>> /\ c = a \o b /\ d = c \o rest
  OBVIOUS
<1>2. Listed(a) /\ Len(a) = 1 /\ a[1] = w
  BY <1>1, SingleList
<1>3. Len(b) \in Nat /\ Len(rest) \in Nat
  BY ListIs
<1>4. /\ Listed(c) /\ Len(c) = Len(a) + Len(b) /\ \A i \in 1 .. Len(a) : c[i] = a[i]
  BY <1>1, <1>2, Joined
<1>5. /\ Listed(d) /\ Len(d) = Len(c) + Len(rest) /\ \A i \in 1 .. Len(c) : d[i] = c[i]
      /\ \A i \in 1 .. Len(rest) : d[Len(c) + i] = rest[i]
  BY <1>1, <1>4, Joined
<1>6. Len(c) = 1 + Len(b) /\ c[1] = w /\ d[1] = w
  BY <1>2, <1>3, <1>4, <1>5
<1>7. SubSeq(d, 2, 1 + Len(b)) = b
  <2>1. PICK n : n = 1 + Len(b)
    OBVIOUS
  <2>2. n \in Nat /\ 2 \in Nat /\ 1 <= 2 /\ 2 <= n + 1 /\ n <= Len(c)
    BY <1>3, <1>6, <2>1
  <2>3. SubSeq(d, 2, n) = SubSeq(c, 2, n)
    BY <1>1, <1>4, <2>2, PartOfFirst
  <2>4. SubSeq(c, Len(a) + 1, Len(a) + Len(b)) = SubSeq(b, 1, Len(b))
    <3>1. 1 \in Nat /\ Len(b) \in Nat /\ 1 <= 1 /\ 1 <= Len(b) + 1 /\ Len(b) <= Len(b)
      BY <1>3
    <3> QED
      BY <1>1, <1>2, <3>1, PartOfSecond
  <2>5. Len(a) + 1 = 2 /\ Len(a) + Len(b) = n
    BY <1>2, <2>1
  <2> QED
    BY <2>1, <2>3, <2>4, <2>5, WholePart
<1> QED
  BY <1>1, <1>4, <1>5, <1>6, <1>7

(* The same, of a sequence and a place that have names.                    *)
Between(s, w, b, rest, k) ==
    /\ Len(s) = k + Len(rest) /\ s[1] = w /\ SubSeq(s, 2, k) = b
    /\ \A i \in 1 .. Len(rest) : s[k + i] = rest[i]
LEMMA BetweenNamed ==
    ASSUME NEW w, NEW b, NEW rest, Listed(b), Listed(rest),
           NEW s, s = (<<w>> \o b) \o rest, NEW k, k = 1 + Len(b)
    PROVE  Between(s, w, b, rest, k)
<1>1. PICK a, c : a = <<w>> /\ c = a \o b /\ s = c \o rest
  OBVIOUS
<1>2. Listed(a) /\ Len(a) = 1 /\ a[1] = w
  BY <1>1, SingleList
<1>3. Len(b) \in Nat /\ Len(rest) \in Nat
  BY ListIs
<1>4. Listed(c) /\ Len(c) = Len(a) + Len(b) /\ \A i \in 1 .. Len(a) : c[i] = a[i]
  BY <1>1, <1>2, Joined
<1>5. /\ Len(s) = Len(c) + Len(rest) /\ \A i \in 1 .. Len(c) : s[i] = c[i]
      /\ \A i \in 1 .. Len(rest) : s[Len(c) + i] = rest[i]
  BY <1>1, <1>4, Joined
<1>6. Len(c) = k /\ c[1] = w /\ s[1] = w /\ k \in Nat /\ 2 <= k + 1
  BY <1>2, <1>3, <1>4, <1>5
<1>7. SubSeq(s, 2, k) = b
  <2>1. SubSeq(s, 2, k) = SubSeq(c, 2, k)
    <3>1. 2 \in Nat /\ 1 <= 2 /\ k <= Len(c)
      BY <1>6
    <3> QED
      BY <1>1, <1>4, <1>6, <3>1, PartOfFirst
  <2>2. SubSeq(c, Len(a) + 1, Len(a) + Len(b)) = SubSeq(b, 1, Len(b))
    <3>1. 1 \in Nat /\ Len(b) \in Nat /\ 1 <= 1 /\ 1 <= Len(b) + 1 /\ Len(b) <= Len(b)
      BY <1>3
    <3> QED
      BY <1>1, <1>2, <3>1, PartOfSecond
  <2>3. Len(a) + 1 = 2 /\ Len(a) + Len(b) = k
    BY <1>2
  <2> QED
    BY <2>1, <2>2, <2>3, WholePart
<1> QED
  BY <1>5, <1>6, <1>7, Zenon DEF Between

ObjectOf(class, otype, body) ==
    [class |-> class, otype |-> otype, framed |-> TRUE, length |-> 4 + 4 * Len(body), body |-> body]

(* No words hold no objects.                                               *)
LEMMA NoObjects == ObjectsOf(<<>>) = <<>>
<1>1. PICK ws : ws = <<>>
  OBVIOUS
<1>2. IsText(ws) /\ Len(ws) = 0
  BY <1>1, NoText, EmptyList
<1>3. PICK f : ObjectWalk(f, ws) /\ ObjectsOf(ws) = f[1]
  BY <1>2, ObjectsWalk
<1>4. f[1] = WalkAt(f, 1, 0, ObjectStops(ws), ObjectMade(ws), ObjectMade(ws), ObjectTo(ws))
  <2>1. 1 \in 1 .. 0 + 1
    OBVIOUS
  <2> QED
    BY <1>2, <1>3, <2>1 DEF ObjectWalk, IsWalk
<1>5. f[1] = <<>>
  BY <1>4 DEF WalkAt
<1> QED
  BY <1>1, <1>3, <1>5

(* An object is found as it was written, and so is what follows.           *)
(* A header, a value, and what follows them.                               *)
Led(w, value, rest) == (<<w>> \o value) \o rest

(* The objects of a framed object's words and what follows them.           *)
LEMMA ObjectsFirst ==
    ASSUME NEW class, NEW otype, NEW length, NEW body, IsText(body), NEW rest, IsText(rest),
           length = 4 + 4 * Len(body)
    PROVE  ObjectsOf(Led(ObjHdr(class, otype, length), body, rest))
           = Cons(ObjectOf(class, otype, body), ObjectsOf(rest))
<1>1. PICK n, m, w, ws :
         /\ n \in Nat /\ m \in Nat /\ n = Len(body) /\ m = Len(rest)
         /\ w = ObjHdr(class, otype, 4 + 4 * n) /\ ws = (<<w>> \o body) \o rest
  <2>1. Len(body) \in Nat /\ Len(rest) \in Nat
    BY ListIs DEF IsText
  <2> QED
    BY <2>1
<1>2. PICK l \in Nat, k \in Nat : l = 4 + 4 * n /\ k = 1 + n
  BY <1>1
<1>3. /\ Field(w, 1, "zero") = "obj" /\ w[4] = l /\ w # <<>> /\ w[1] = "obj"
      /\ ClassAt(w) = class /\ ObjectTypeAt(w) = otype /\ ObjectLengthAt(w) = l
  BY <1>1, <1>2 DEF ObjHdr, Field, ClassAt, ObjectTypeAt, ObjectLengthAt
<1>4. IsText(ws)
  <2>1. IsWord(w)
    BY <1>3 DEF IsWord
  <2> QED
    BY <1>1, <2>1, TextOfOne, TextJoined
<1>5. /\ Len(ws) = k + m /\ ws[1] = w /\ SubSeq(ws, 2, k) = body
      /\ \A i \in 1 .. m : ws[k + i] = rest[i]
  <2>1. Listed(body) /\ Listed(rest)
    BY DEF IsText
  <2> QED
    <3>1. /\ Listed((<<w>> \o body) \o rest) /\ Len((<<w>> \o body) \o rest) = (1 + Len(body)) + Len(rest)
          /\ ((<<w>> \o body) \o rest)[1] = w
          /\ SubSeq((<<w>> \o body) \o rest, 2, 1 + Len(body)) = body
          /\ \A i \in 1 .. Len(rest) : ((<<w>> \o body) \o rest)[(1 + Len(body)) + i] = rest[i]
      BY <2>1, BetweenParts
    <3> QED
      BY <1>1, <1>2, <3>1
<1>6. /\ ObjectAt(ws, 1) = ObjectOf(class, otype, body)
      /\ NextObject(ws, 1) = k + 1 /\ FramedAt(ws, 1)
  <2>1. l >= 4 /\ l % 4 = 0 /\ 1 + l \div 4 = k + 1 /\ (1 + l \div 4) - 1 = k /\ k + 1 <= Len(ws) + 1
    BY <1>1, <1>2, <1>5
  <2>2. NextObject(ws, 1) = k + 1
    BY <1>3, <1>5, <2>1 DEF NextObject
  <2>3. FramedAt(ws, 1)
    BY <1>3, <1>5, <2>1, <2>2 DEF FramedAt
  <2>4. SubSeq(ws, 1 + 1, NextObject(ws, 1) - 1) = body
    <3>1. 1 + 1 = 2 /\ (k + 1) - 1 = k
      OBVIOUS
    <3> QED
      BY <1>5, <2>2, <3>1
  <2>5. PICK t : t = SubSeq(ws, 1 + 1, NextObject(ws, 1) - 1)
    OBVIOUS
  <2>6. ObjectAt(ws, 1) = [class |-> class, otype |-> otype, framed |-> TRUE, length |-> l, body |-> body]
    <3>1. FramedAt(ws, 1) = TRUE
      BY <2>3 DEF FramedAt
    <3> QED
      BY <1>3, <1>5, <2>4, <3>1, Zenon DEF ObjectAt
  <2> QED
    BY <1>1, <1>2, <2>2, <2>3, <2>6 DEF ObjectOf
<1>7. ASSUME NEW i \in 1 .. m
      PROVE  /\ ObjectAt(ws, k + i) = ObjectAt(rest, i)
             /\ NextObject(ws, k + i) = k + NextObject(rest, i)
             /\ FramedAt(ws, k + i) <=> FramedAt(rest, i)
             /\ k + i \in 1 .. Len(ws)
  <2>1. PICK v, j : v = rest[i] /\ j = k + i
    OBVIOUS
  <2>2. ws[j] = v /\ j \in 1 .. Len(ws)
    BY <1>1, <1>2, <1>5, <2>1
  <2>3. PICK d \in Nat : d = ObjectLengthAt(v)
    BY <1>1, <2>1 DEF IsText, IsWord, ObjectLengthAt
  <2>4. NextObject(ws, j) = j + d \div 4 /\ NextObject(rest, i) = i + d \div 4
    BY <2>1, <2>2, <2>3 DEF NextObject
  <2>5. NextObject(ws, j) = k + NextObject(rest, i)
    BY <2>1, <2>3, <2>4
  <2>6. NextObject(ws, j) <= Len(ws) + 1 <=> NextObject(rest, i) <= Len(rest) + 1
    <3>1. PICK p : p = i + d \div 4
      OBVIOUS
    <3>2. p \in Int
      BY <2>3, <3>1
    <3>3. NextObject(rest, i) = p /\ NextObject(ws, j) = k + p
      BY <2>4, <2>5, <3>1
    <3>4. Len(ws) = k + m /\ Len(rest) = m
      BY <1>1, <1>5
    <3> QED
      BY <3>2, <3>3, <3>4
  <2>7. FramedAt(ws, j) = FramedAt(rest, i)
    BY <2>1, <2>2, <2>6 DEF FramedAt
  <2>8. ASSUME FramedAt(rest, i)
        PROVE  SubSeq(ws, j + 1, NextObject(ws, j) - 1) = SubSeq(rest, i + 1, NextObject(rest, i) - 1)
    <3>1. PICK p, q : p = i + 1 /\ q = NextObject(rest, i) - 1
      OBVIOUS
    <3>2. d >= 4 /\ i + d \div 4 <= m + 1
      BY <1>1, <2>1, <2>3, <2>4, <2>8 DEF FramedAt
    <3>3. p \in Nat /\ q \in Nat /\ 1 <= p /\ p <= q + 1 /\ q <= m
      BY <1>1, <2>4, <3>1, <3>2
    <3>4. PICK a : a = <<w>> \o body
      OBVIOUS
    <3>5. Listed(a) /\ Len(a) = k /\ Listed(rest) /\ ws = a \o rest
      BY <1>1, <1>2, <3>4, BetweenParts DEF IsText
    <3>6. SubSeq(a \o rest, Len(a) + p, Len(a) + q) = SubSeq(rest, p, q)
      <4>1. Listed(a) /\ Listed(rest) /\ q <= Len(rest)
        BY <1>1, <3>3, <3>5
      <4> QED
        BY <3>3, <4>1, PartOfSecond
    <3>7. j + 1 = k + p /\ NextObject(ws, j) - 1 = k + q
      BY <2>1, <2>3, <2>4, <3>1
    <3> QED
      BY <3>1, <3>5, <3>6, <3>7
  <2>9. ObjectAt(ws, j) = ObjectAt(rest, i)
    <3>1. CASE FramedAt(rest, i)
      BY <2>1, <2>2, <2>7, <2>8, <3>1, Zenon DEF ObjectAt
    <3>2. CASE ~FramedAt(rest, i)
      BY <2>1, <2>2, <2>7, <3>2, Zenon DEF ObjectAt
    <3> QED
      BY <3>1, <3>2
  <2> QED
    BY <2>1, <2>2, <2>5, <2>7, <2>9
<1>8. PICK g : ObjectWalk(g, ws) /\ ObjectsOf(ws) = g[1]
  BY <1>4, ObjectsWalk
<1>9. PICK f : ObjectWalk(f, rest) /\ ObjectsOf(rest) = f[1]
  BY ObjectsWalk
<1>10. \A i \in 1 .. m : i \notin ObjectStops(rest) => ObjectTo(rest)[i] \in i + 1 .. m + 1
  BY <1>1, ObjectsWalk
<1>11. ASSUME NEW i \in 1 .. m
       PROVE  /\ k + i \in ObjectStops(ws) <=> i \in ObjectStops(rest)
              /\ ObjectMade(ws)[k + i] = ObjectMade(rest)[i]
              /\ ObjectTo(ws)[k + i] = k + ObjectTo(rest)[i]
  <2>1. i \in 1 .. Len(rest)
    BY <1>1
  <2> QED
    BY <1>7, <2>1 DEF ObjectStops, ObjectMade, ObjectTo
<1>12. 1 \notin ObjectStops(ws) /\ ObjectTo(ws)[1] = k + 1
       /\ ObjectMade(ws)[1] = ObjectOf(class, otype, body)
  <2>1. 1 \in 1 .. Len(ws)
    BY <1>1, <1>2, <1>5
  <2> QED
    BY <1>6, <2>1 DEF ObjectStops, ObjectMade, ObjectTo
<1>13. g[1] = Cons(ObjectMade(ws)[1], f[1])
  <2>1. k # 0
    BY <1>1, <1>2
  <2>2. IsWalk(g, k + m, ObjectStops(ws), ObjectMade(ws), ObjectMade(ws), ObjectTo(ws))
    BY <1>5, <1>8 DEF ObjectWalk
  <2>3. IsWalk(f, m, ObjectStops(rest), ObjectMade(rest), ObjectMade(rest), ObjectTo(rest))
    BY <1>1, <1>9 DEF ObjectWalk
  <2>4. PICK S, G, T, S2, G2, T2 :
           /\ S = ObjectStops(rest) /\ G = ObjectMade(rest) /\ T = ObjectTo(rest)
           /\ S2 = ObjectStops(ws) /\ G2 = ObjectMade(ws) /\ T2 = ObjectTo(ws)
    OBVIOUS
  <2>5. /\ IsWalk(g, k + m, S2, G2, G2, T2) /\ IsWalk(f, m, S, G, G, T)
        /\ Forward(m, S, T) /\ 1 \notin S2 /\ T2[1] = k + 1
    BY <1>10, <1>12, <2>2, <2>3, <2>4 DEF Forward
  <2>6. Agrees(k, m, S, G, G, T, S2, G2, G2, T2)
    BY <1>11, <2>4 DEF Agrees
  <2>7. m \in Nat /\ k \in Nat
    BY <1>1, <1>2
  <2>8. Continues(k, m, f, S, G, G, T, g, S2, G2, G2, T2)
    BY <2>1, <2>5, <2>6, <2>7 DEF Continues
  <2>9. g[1] = Cons(G2[1], f[1])
    BY <2>8, WalkOn
  <2> QED
    BY <2>4, <2>9
<1> QED
  <2>1. ws = Led(ObjHdr(class, otype, length), body, rest)
    BY <1>1 DEF Led
  <2> QED
    BY <1>8, <1>9, <1>12, <1>13, <2>1

------------------------------------------------------------------------------
(* TLVs and the walks over them                                            *)

(* A walk over TLVs: tlvs says what is read at each word that may be one.  *)
TLVNext(ws, i) == i + 1 + PaddedWords(Field(ws[i], 3, 0))

TLVFits(ws, i) == (ws[i] = <<>> \/ ws[i][1] = "tlv") /\ TLVNext(ws, i) <= Len(ws) + 1

TLVStops(ws, tlvs) == {i \in 1 .. Len(ws) : ~TLVFits(ws, i) \/ tlvs[i] = ErrorTLV}

TLVErrors(ws) == [i \in 1 .. Len(ws) |-> ErrorTLV]

TLVTo(ws) == [i \in 1 .. Len(ws) |-> TLVNext(ws, i)]

TLVWalk(f, ws, tlvs) ==
    IsWalk(f, Len(ws), TLVStops(ws, tlvs), TLVErrors(ws), tlvs, TLVTo(ws))

(* The place after a TLV is a later one.                                   *)
LEMMA TLVForward ==
    ASSUME NEW ws, IsText(ws), NEW tlvs
    PROVE  /\ Forward(Len(ws), TLVStops(ws, tlvs), TLVTo(ws))
           /\ \A i \in 1 .. Len(ws) : TLVFits(ws, i) =>
                 Field(ws[i], 3, 0) \in Nat /\ TLVNext(ws, i) \in i + 1 .. Len(ws) + 1
<1>1. Len(ws) \in Nat
  BY ListIs DEF IsText
<1>2. ASSUME NEW i \in 1 .. Len(ws), TLVFits(ws, i)
      PROVE  Field(ws[i], 3, 0) \in Nat /\ TLVNext(ws, i) \in i + 1 .. Len(ws) + 1
  <2>1. Field(ws[i], 3, 0) \in Nat
    <3>1. CASE ws[i] = <<>>
      BY <3>1 DEF Field
    <3>2. CASE ws[i] # <<>>
      BY <1>2, <3>2 DEF IsText, IsWord, TLVFits
    <3> QED
      BY <3>1, <3>2
  <2>2. PICK l \in Nat : l = Field(ws[i], 3, 0)
    BY <2>1
  <2>3. i + 1 + (l + 3) \div 4 <= Len(ws) + 1
    BY <1>2, <2>2 DEF TLVFits, TLVNext, PaddedWords
  <2>4. i + 1 + (l + 3) \div 4 \in i + 1 .. Len(ws) + 1
    BY <1>1, <2>2, <2>3
  <2> QED
    BY <2>1, <2>2, <2>4 DEF TLVNext, PaddedWords
<1>3. ASSUME NEW i \in 1 .. Len(ws), i \notin TLVStops(ws, tlvs)
      PROVE  TLVTo(ws)[i] \in i + 1 .. Len(ws) + 1
  <2>1. TLVFits(ws, i)
    BY <1>3 DEF TLVStops
  <2>2. TLVTo(ws)[i] = TLVNext(ws, i)
    BY DEF TLVTo
  <2> QED
    BY <1>2, <2>1, <2>2
<1> QED
  BY <1>2, <1>3 DEF Forward

(* The values of the TLVs of the rest, in the whole and alone.             *)
SameValues(k, ws, tlvs, rest, tlvs0) ==
    \A i \in 1 .. Len(rest) :
        TLVFits(rest, i) /\ ws[k + i] = rest[i]
        /\ SubSeq(ws, k + i + 1, TLVNext(ws, k + i) - 1) = SubSeq(rest, i + 1, TLVNext(rest, i) - 1)
        => tlvs[k + i] = tlvs0[i]

TLVBefore(ws, w, value, rest, tlvs, tlvs0, g, f) ==
    /\ IsText(value) /\ IsText(rest) /\ IsWord(w) /\ w[1] = "tlv"
    /\ Field(w, 3, 0) \in Nat /\ Len(value) = PaddedWords(Field(w, 3, 0)) /\ w # <<>>
    /\ ws = (<<w>> \o value) \o rest /\ tlvs[1] # ErrorTLV
    /\ SameValues(1 + Len(value), ws, tlvs, rest, tlvs0)
    /\ TLVWalk(g, ws, tlvs) /\ TLVWalk(f, rest, tlvs0)

(* A TLV before others leads to the first word of theirs.                  *)
LEMMA TLVBeforeOthers ==
    ASSUME NEW ws, NEW w, NEW value, NEW rest, NEW tlvs, NEW tlvs0, NEW g, NEW f,
           TLVBefore(ws, w, value, rest, tlvs, tlvs0, g, f)
    PROVE  g[1] = Cons(tlvs[1], f[1])
<1>0. /\ IsText(value) /\ IsText(rest) /\ IsWord(w) /\ w[1] = "tlv"
      /\ Field(w, 3, 0) \in Nat /\ Len(value) = PaddedWords(Field(w, 3, 0)) /\ w # <<>>
      /\ ws = (<<w>> \o value) \o rest /\ tlvs[1] # ErrorTLV
      /\ SameValues(1 + Len(value), ws, tlvs, rest, tlvs0)
      /\ TLVWalk(g, ws, tlvs) /\ TLVWalk(f, rest, tlvs0)
  BY DEF TLVBefore
<1>1. PICK n, m : n \in Nat /\ m \in Nat /\ n = Len(value) /\ m = Len(rest)
  <2>1. Len(value) \in Nat /\ Len(rest) \in Nat
    BY <1>0, ListIs DEF IsText
  <2> QED
    BY <2>1
<1>2. PICK k \in Nat : k = 1 + n
  BY <1>1
<1>4. IsText(ws)
  BY <1>0, TextOfOne, TextJoined
<1>5. /\ Len(ws) = k + m /\ ws[1] = w /\ \A i \in 1 .. m : ws[k + i] = rest[i]
  <2>1. Listed(value) /\ Listed(rest)
    BY <1>0 DEF IsText
  <2>2. /\ Len((<<w>> \o value) \o rest) = (1 + Len(value)) + Len(rest)
        /\ ((<<w>> \o value) \o rest)[1] = w
        /\ \A i \in 1 .. Len(rest) : ((<<w>> \o value) \o rest)[(1 + Len(value)) + i] = rest[i]
    BY <2>1, BetweenParts
  <2> QED
    BY <1>0, <1>1, <1>2, <2>2
<1>6. TLVNext(ws, 1) = k + 1 /\ TLVFits(ws, 1) /\ 1 \in 1 .. Len(ws)
  <2>1. TLVNext(ws, 1) = k + 1
    BY <1>0, <1>1, <1>2, <1>5 DEF TLVNext
  <2> QED
    <3>1. k + 1 <= Len(ws) + 1 /\ 1 \in 1 .. Len(ws)
      BY <1>1, <1>2, <1>5
    <3>2. ws[1][1] = "tlv"
      BY <1>0, <1>5, Zenon
    <3> QED
      BY <2>1, <3>1, <3>2, Zenon DEF TLVFits
<1>7. ASSUME NEW i \in 1 .. m
      PROVE  /\ k + i \in TLVStops(ws, tlvs) <=> i \in TLVStops(rest, tlvs0)
             /\ TLVErrors(ws)[k + i] = TLVErrors(rest)[i]
             /\ i \notin TLVStops(rest, tlvs0) =>
                   tlvs[k + i] = tlvs0[i] /\ TLVTo(ws)[k + i] = k + TLVTo(rest)[i]
  <2>1. PICK v, j : v = rest[i] /\ j = k + i
    OBVIOUS
  <2>2. ws[j] = v /\ j \in 1 .. Len(ws) /\ i \in 1 .. Len(rest) /\ j = k + i
    BY <1>1, <1>2, <1>5, <2>1
  <2>3. TLVErrors(ws)[j] = TLVErrors(rest)[i]
    BY <2>2 DEF TLVErrors
  <2>4. CASE v # <<>> /\ v[1] # "tlv"
    <3>1. ~TLVFits(ws, j) /\ ~TLVFits(rest, i)
      BY <2>1, <2>2, <2>4 DEF TLVFits
    <3> QED
      BY <2>1, <2>2, <2>3, <3>1 DEF TLVStops
  <2>5. CASE v = <<>> \/ v[1] = "tlv"
    <3>1. PICK l \in Nat : l = Field(v, 3, 0)
      <4>1. CASE v = <<>>
        BY <4>1 DEF Field
      <4>2. CASE v # <<>>
        BY <1>0, <2>1, <2>2, <2>5, <4>2 DEF IsText, IsWord
      <4> QED
        BY <4>1, <4>2
    <3>2. PICK p \in Nat : p = PaddedWords(l)
      BY <3>1 DEF PaddedWords
    <3>3. TLVNext(ws, j) = j + 1 + p /\ TLVNext(rest, i) = i + 1 + p
      BY <2>1, <2>2, <3>1, <3>2 DEF TLVNext
    <3>4. TLVNext(ws, j) = k + TLVNext(rest, i)
      BY <1>2, <2>1, <3>2, <3>3
    <3>5. TLVNext(ws, j) <= Len(ws) + 1 <=> TLVNext(rest, i) <= Len(rest) + 1
      <4>1. Len(ws) = k + m /\ Len(rest) = m
        BY <1>1, <1>5, Zenon
      <4>2. PICK q : q = i + 1 + p
        OBVIOUS
      <4>3. q \in Int /\ m \in Int
        BY <1>1, <3>2, <4>2
      <4>4. TLVNext(rest, i) = q /\ TLVNext(ws, j) = k + q
        BY <3>3, <3>4, <4>2, Zenon
      <4> QED
        BY <4>1, <4>3, <4>4
    <3>6. TLVFits(ws, j) <=> TLVFits(rest, i)
      BY <2>1, <2>2, <2>5, <3>5 DEF TLVFits
    <3>7. ASSUME TLVFits(rest, i) PROVE tlvs[j] = tlvs0[i]
      <4>1. PICK b, q : b = i + 1 /\ q = i + p
        OBVIOUS
      <4>2. b \in Nat /\ q \in Nat /\ 1 <= b /\ b <= q + 1 /\ q <= Len(rest)
        BY <1>1, <3>2, <3>3, <3>7, <4>1 DEF TLVFits
      <4>3. PICK a : a = <<w>> \o value
        OBVIOUS
      <4>4. Listed(a) /\ Len(a) = k /\ Listed(rest) /\ ws = a \o rest
        <5>1. Listed(value) /\ Listed(rest)
          BY <1>0 DEF IsText
        <5>2. Listed(<<w>> \o value) /\ Len(<<w>> \o value) = 1 + Len(value)
          BY <5>1, BetweenParts
        <5> QED
          BY <1>0, <1>1, <1>2, <4>3, <5>1, <5>2
      <4>5. SubSeq(a \o rest, Len(a) + b, Len(a) + q) = SubSeq(rest, b, q)
        BY <4>2, <4>4, PartOfSecond
      <4>6. j + 1 = k + b /\ TLVNext(ws, j) - 1 = k + q /\ TLVNext(rest, i) - 1 = q
        BY <1>2, <2>1, <3>2, <3>3, <4>1
      <4>7. SubSeq(ws, j + 1, TLVNext(ws, j) - 1) = SubSeq(rest, i + 1, TLVNext(rest, i) - 1)
        BY <4>1, <4>4, <4>5, <4>6
      <4>8. SameValues(k, ws, tlvs, rest, tlvs0)
        BY <1>0, <1>1, <1>2
      <4> QED
        BY <2>1, <2>2, <3>7, <4>7, <4>8 DEF SameValues
    <3>8. TLVTo(ws)[j] = k + TLVTo(rest)[i]
      BY <2>2, <3>4 DEF TLVTo
    <3> QED
      BY <2>1, <2>2, <2>3, <3>6, <3>7, <3>8 DEF TLVStops
  <2> QED
    BY <2>4, <2>5
<1>8. PICK S, E, T, S2, E2, T2 :
         /\ S = TLVStops(rest, tlvs0) /\ E = TLVErrors(rest) /\ T = TLVTo(rest)
         /\ S2 = TLVStops(ws, tlvs) /\ E2 = TLVErrors(ws) /\ T2 = TLVTo(ws)
  OBVIOUS
<1>9. IsWalk(g, k + m, S2, E2, tlvs, T2) /\ IsWalk(f, m, S, E, tlvs0, T)
  BY <1>0, <1>1, <1>5, <1>8 DEF TLVWalk
<1>10. Forward(m, S, T)
  BY <1>0, <1>1, <1>8, TLVForward
<1>11. 1 \notin S2 /\ T2[1] = k + 1
  BY <1>0, <1>6, <1>8 DEF TLVStops, TLVTo
<1>12. Agrees(k, m, S, E, tlvs0, T, S2, E2, tlvs, T2)
  BY <1>7, <1>8 DEF Agrees
<1>13. k # 0 /\ k \in Nat /\ m \in Nat
  BY <1>1, <1>2
<1>14. Continues(k, m, f, S, E, tlvs0, T, g, S2, E2, tlvs, T2)
  BY <1>9, <1>10, <1>11, <1>12, <1>13 DEF Continues
<1> QED
  BY <1>14, WalkOn

ValueFits(length, value, rest) ==
    /\ length \in Nat /\ IsText(value) /\ Len(value) = PaddedWords(length)
    /\ IsText(rest)

AnyTLVs(ws) ==
    [i \in 1 .. Len(ws) |-> DecodeTLV(Field(ws[i], 2, "none"), Field(ws[i], 3, 0),
                               SubSeq(ws, i + 1, TLVNext(ws, i) - 1))]

(* DecodeTLVs is a walk.                                                   *)
LEMMA AnyTLVWalk ==
    ASSUME NEW ws, IsText(ws)
    PROVE  \E f : TLVWalk(f, ws, AnyTLVs(ws)) /\ DecodeTLVs(ws) = f[1]
<1>1. Len(ws) \in Nat
  BY ListIs DEF IsText
<1> DEFINE tlv(i) == DecodeTLV(Field(ws[i], 2, "none"), Field(ws[i], 3, 0),
                         SubSeq(ws, i + 1, TLVNext(ws, i) - 1))
           Bad(i) == \/ ws[i] # <<>> /\ ws[i][1] # "tlv"
                     \/ TLVNext(ws, i) > Len(ws) + 1 \/ tlv(i) = ErrorTLV
           P(h) == h = [i \in 1 .. Len(ws) + 1 |->
                          IF i = Len(ws) + 1 THEN <<>>
                          ELSE IF Bad(i) THEN <<ErrorTLV>>
                          ELSE <<tlv(i)>> \o h[TLVNext(ws, i)]]
<1>2. DecodeTLVs(ws) = (CHOOSE h : P(h))[1]
  BY DEF DecodeTLVs, DecodeTLVSequence, Walk, TLVNext
<1>3. PICK T : T = AnyTLVs(ws)
  OBVIOUS
<1>4. PICK g : TLVWalk(g, ws, T)
  <2>1. Forward(Len(ws), TLVStops(ws, T), TLVTo(ws))
    BY TLVForward
  <2> QED
    BY <1>1, <2>1, WalkExists DEF TLVWalk, Forward
<1>5. ASSUME NEW i \in 1 .. Len(ws)
      PROVE  /\ T[i] = tlv(i) /\ TLVTo(ws)[i] = TLVNext(ws, i) /\ TLVErrors(ws)[i] = ErrorTLV
             /\ i \in TLVStops(ws, T) <=> Bad(i)
  <2>1. T[i] = tlv(i) /\ TLVTo(ws)[i] = TLVNext(ws, i) /\ TLVErrors(ws)[i] = ErrorTLV
    BY <1>3, Zenon DEF AnyTLVs, TLVTo, TLVErrors
  <2>2. CASE TLVFits(ws, i)
    <3>1. TLVNext(ws, i) \in Nat /\ ~(TLVNext(ws, i) > Len(ws) + 1)
      <4>1. TLVNext(ws, i) \in i + 1 .. Len(ws) + 1
        BY <2>2, TLVForward
      <4> QED
        BY <1>1, <4>1
    <3>2. ~(ws[i] # <<>> /\ ws[i][1] # "tlv")
      BY <2>2, Zenon DEF TLVFits
    <3> HIDE DEF tlv
    <3> QED
      BY <2>1, <2>2, <3>1, <3>2, Zenon DEF TLVStops
  <2>3. CASE ~TLVFits(ws, i)
    <3>1. CASE ws[i] # <<>> /\ ws[i][1] # "tlv"
      <4> HIDE DEF tlv
      <4> QED
        BY <2>1, <2>3, <3>1, Zenon DEF TLVStops
    <3>2. CASE ~(ws[i] # <<>> /\ ws[i][1] # "tlv")
      <4>1. TLVNext(ws, i) > Len(ws) + 1
        <5>1. Field(ws[i], 3, 0) \in Nat
          <6>1. CASE ws[i] = <<>>
            BY <6>1 DEF Field
          <6>2. CASE ws[i] # <<>>
            BY <3>2, <6>2 DEF IsText, IsWord
          <6> QED
            BY <6>1, <6>2
        <5>2. TLVNext(ws, i) \in Nat
          BY <5>1 DEF TLVNext, PaddedWords
        <5>3. ~(TLVNext(ws, i) <= Len(ws) + 1)
          BY <2>3, <3>2, Zenon DEF TLVFits
        <5> QED
          BY <1>1, <5>2, <5>3
      <4> HIDE DEF tlv
      <4> QED
        BY <2>1, <2>3, <4>1, Zenon DEF TLVStops
    <3> QED
      BY <3>1, <3>2
  <2> QED
    BY <2>1, <2>2, <2>3
<1>6. ASSUME NEW h
      PROVE  P(h) <=> TLVWalk(h, ws, T)
  <2> HIDE DEF tlv, Bad
  <2>1. ASSUME NEW i \in 1 .. Len(ws) + 1
        PROVE  (IF i = Len(ws) + 1 THEN <<>>
                ELSE IF Bad(i) THEN <<ErrorTLV>>
                ELSE <<tlv(i)>> \o h[TLVNext(ws, i)])
               = WalkAt(h, i, Len(ws), TLVStops(ws, T), TLVErrors(ws), T, TLVTo(ws))
    <3>1. CASE i = Len(ws) + 1
      BY <3>1, Zenon DEF WalkAt
    <3>2. CASE i # Len(ws) + 1
      <4>1. i \in 1 .. Len(ws)
        BY <1>1, <3>2
      <4> QED
        BY <1>5, <3>2, <4>1, Zenon DEF WalkAt
    <3> QED
      BY <3>1, <3>2
  <2> QED
    BY <2>1, Zenon DEF TLVWalk, IsWalk
<1>7. P(CHOOSE h : P(h))
  <2> HIDE DEF P
  <2> QED
    BY <1>4, <1>6
<1> HIDE DEF P
<1> QED
  BY <1>2, <1>3, <1>6, <1>7

(* A TLV is read from its own words, and what follows from what is left.   *)
LEMMA AnyTLVsFirst ==
    ASSUME NEW type, NEW length, NEW value, NEW rest, ValueFits(length, value, rest),
           DecodeTLV(type, length, value) # ErrorTLV
    PROVE  DecodeTLVs(Led(TLVHdr(type, length), value, rest))
           = Cons(DecodeTLV(type, length, value), DecodeTLVs(rest))
<1>0. /\ length \in Nat /\ IsText(value) /\ Len(value) = PaddedWords(length)
      /\ IsText(rest)
  BY DEF ValueFits
<1> USE <1>0
<1>1. PICK w, ws, k : w = TLVHdr(type, length) /\ ws = (<<w>> \o value) \o rest /\ k = 1 + Len(value)
  OBVIOUS
<1>2. /\ IsWord(w) /\ w # <<>> /\ w[1] = "tlv" /\ Field(w, 3, 0) = length
      /\ Field(w, 2, "none") = type
  BY <1>1 DEF TLVHdr, Field, IsWord
<1>3. IsText(ws)
  BY <1>1, <1>2, TextOfOne, TextJoined
<1>4. Listed(value) /\ Listed(rest) /\ Len(value) \in Nat /\ Len(rest) \in Nat
  BY ListIs DEF IsText
<1>5. /\ Len(ws) = k + Len(rest) /\ ws[1] = w /\ SubSeq(ws, 2, k) = value
      /\ \A i \in 1 .. Len(rest) : ws[k + i] = rest[i]
  <2>1. Between(ws, w, value, rest, k)
    BY <1>1, <1>4, BetweenNamed, Zenon
  <2> QED
    BY <2>1, Zenon DEF Between
<1>6. PICK T, T0 : T = AnyTLVs(ws) /\ T0 = AnyTLVs(rest)
  OBVIOUS
<1>7. T[1] = DecodeTLV(type, length, value)
  <2>1. 1 \in 1 .. Len(ws)
    BY <1>1, <1>4, <1>5
  <2>2. TLVNext(ws, 1) = k + 1
    BY <1>1, <1>2, <1>4, <1>5 DEF TLVNext
  <2>3. SubSeq(ws, 1 + 1, TLVNext(ws, 1) - 1) = value
    <3>1. 1 + 1 = 2 /\ (k + 1) - 1 = k
      BY <1>1, <1>4
    <3> QED
      BY <1>5, <2>2, <3>1
  <2>4. T[1] = DecodeTLV(Field(ws[1], 2, "none"), Field(ws[1], 3, 0), SubSeq(ws, 1 + 1, TLVNext(ws, 1) - 1))
    BY <1>6, <2>1, Zenon DEF AnyTLVs
  <2> QED
    BY <1>2, <1>5, <2>3, <2>4, Zenon
<1>8. SameValues(1 + Len(value), ws, T, rest, T0)
  <2> SUFFICES ASSUME NEW i \in 1 .. Len(rest), ws[k + i] = rest[i],
                      SubSeq(ws, k + i + 1, TLVNext(ws, k + i) - 1)
                      = SubSeq(rest, i + 1, TLVNext(rest, i) - 1)
               PROVE  T[k + i] = T0[i]
    BY <1>1, Zenon DEF SameValues
  <2>1. k + i \in 1 .. Len(ws)
    <3> HIDE <1>0
    <3>1. PICK p \in Nat, q \in Nat : p = Len(value) /\ q = Len(rest)
      BY <1>4
    <3>2. k = 1 + p /\ Len(ws) = k + q /\ i \in 1 .. q
      BY <1>1, <1>5, <3>1
    <3> QED
      BY <3>2
  <2>2. T[k + i] = DecodeTLV(Field(ws[k + i], 2, "none"), Field(ws[k + i], 3, 0),
                       SubSeq(ws, k + i + 1, TLVNext(ws, k + i) - 1))
    BY <1>6, <2>1, Zenon DEF AnyTLVs
  <2>3. T0[i] = DecodeTLV(Field(rest[i], 2, "none"), Field(rest[i], 3, 0),
                    SubSeq(rest, i + 1, TLVNext(rest, i) - 1))
    BY <1>6, Zenon DEF AnyTLVs
  <2> QED
    BY <2>2, <2>3, Zenon
<1>9. PICK g : TLVWalk(g, ws, T) /\ DecodeTLVs(ws) = g[1]
  BY <1>3, <1>6, AnyTLVWalk
<1>10. PICK f : TLVWalk(f, rest, T0) /\ DecodeTLVs(rest) = f[1]
  BY <1>6, AnyTLVWalk
<1>11. TLVBefore(ws, w, value, rest, T, T0, g, f)
  BY <1>1, <1>2, <1>7, <1>8, <1>9, <1>10 DEF TLVBefore
<1>12. g[1] = Cons(T[1], f[1])
  BY <1>11, TLVBeforeOthers
<1> QED
  BY <1>1, <1>7, <1>9, <1>10, <1>12 DEF Led

(* No words hold no TLVs.                                                  *)
LEMMA NoAnyTLVs == DecodeTLVs(<<>>) = <<>>
<1>1. PICK ws : ws = <<>>
  OBVIOUS
<1>2. IsText(ws) /\ Len(ws) = 0
  BY <1>1, NoText, EmptyList
<1>3. PICK f : TLVWalk(f, ws, AnyTLVs(ws)) /\ DecodeTLVs(ws) = f[1]
  BY <1>2, AnyTLVWalk
<1>4. f[1] = WalkAt(f, 1, 0, TLVStops(ws, AnyTLVs(ws)), TLVErrors(ws), AnyTLVs(ws), TLVTo(ws))
  <2>1. 1 \in 1 .. 0 + 1
    OBVIOUS
  <2> QED
    BY <1>2, <1>3, <2>1 DEF TLVWalk, IsWalk
<1>5. f[1] = <<>>
  BY <1>4 DEF WalkAt
<1> QED
  BY <1>1, <1>3, <1>5

VendorTLVs(ws) ==
    [i \in 1 .. Len(ws) |-> DecodeUnknown(Field(ws[i], 2, "none"), Field(ws[i], 3, 0),
                               SubSeq(ws, i + 1, TLVNext(ws, i) - 1))]

(* DecodeVendorTLVs is a walk.                                             *)
LEMMA VendorTLVWalk ==
    ASSUME NEW ws, IsText(ws)
    PROVE  \E f : TLVWalk(f, ws, VendorTLVs(ws)) /\ DecodeVendorTLVs(ws) = f[1]
<1>1. Len(ws) \in Nat
  BY ListIs DEF IsText
<1> DEFINE tlv(i) == DecodeUnknown(Field(ws[i], 2, "none"), Field(ws[i], 3, 0),
                         SubSeq(ws, i + 1, TLVNext(ws, i) - 1))
           Bad(i) == \/ ws[i] # <<>> /\ ws[i][1] # "tlv"
                     \/ TLVNext(ws, i) > Len(ws) + 1 \/ tlv(i) = ErrorTLV
           P(h) == h = [i \in 1 .. Len(ws) + 1 |->
                          IF i = Len(ws) + 1 THEN <<>>
                          ELSE IF Bad(i) THEN <<ErrorTLV>>
                          ELSE <<tlv(i)>> \o h[TLVNext(ws, i)]]
<1>2. DecodeVendorTLVs(ws) = (CHOOSE h : P(h))[1]
  BY DEF DecodeVendorTLVs, DecodeTLVSequence, Walk, TLVNext
<1>3. PICK T : T = VendorTLVs(ws)
  OBVIOUS
<1>4. PICK g : TLVWalk(g, ws, T)
  <2>1. Forward(Len(ws), TLVStops(ws, T), TLVTo(ws))
    BY TLVForward
  <2> QED
    BY <1>1, <2>1, WalkExists DEF TLVWalk, Forward
<1>5. ASSUME NEW i \in 1 .. Len(ws)
      PROVE  /\ T[i] = tlv(i) /\ TLVTo(ws)[i] = TLVNext(ws, i) /\ TLVErrors(ws)[i] = ErrorTLV
             /\ i \in TLVStops(ws, T) <=> Bad(i)
  <2>1. T[i] = tlv(i) /\ TLVTo(ws)[i] = TLVNext(ws, i) /\ TLVErrors(ws)[i] = ErrorTLV
    BY <1>3, Zenon DEF VendorTLVs, TLVTo, TLVErrors
  <2>2. CASE TLVFits(ws, i)
    <3>1. TLVNext(ws, i) \in Nat /\ ~(TLVNext(ws, i) > Len(ws) + 1)
      <4>1. TLVNext(ws, i) \in i + 1 .. Len(ws) + 1
        BY <2>2, TLVForward
      <4> QED
        BY <1>1, <4>1
    <3>2. ~(ws[i] # <<>> /\ ws[i][1] # "tlv")
      BY <2>2, Zenon DEF TLVFits
    <3> HIDE DEF tlv
    <3> QED
      BY <2>1, <2>2, <3>1, <3>2, Zenon DEF TLVStops
  <2>3. CASE ~TLVFits(ws, i)
    <3>1. CASE ws[i] # <<>> /\ ws[i][1] # "tlv"
      <4> HIDE DEF tlv
      <4> QED
        BY <2>1, <2>3, <3>1, Zenon DEF TLVStops
    <3>2. CASE ~(ws[i] # <<>> /\ ws[i][1] # "tlv")
      <4>1. TLVNext(ws, i) > Len(ws) + 1
        <5>1. Field(ws[i], 3, 0) \in Nat
          <6>1. CASE ws[i] = <<>>
            BY <6>1 DEF Field
          <6>2. CASE ws[i] # <<>>
            BY <3>2, <6>2 DEF IsText, IsWord
          <6> QED
            BY <6>1, <6>2
        <5>2. TLVNext(ws, i) \in Nat
          BY <5>1 DEF TLVNext, PaddedWords
        <5>3. ~(TLVNext(ws, i) <= Len(ws) + 1)
          BY <2>3, <3>2, Zenon DEF TLVFits
        <5> QED
          BY <1>1, <5>2, <5>3
      <4> HIDE DEF tlv
      <4> QED
        BY <2>1, <2>3, <4>1, Zenon DEF TLVStops
    <3> QED
      BY <3>1, <3>2
  <2> QED
    BY <2>1, <2>2, <2>3
<1>6. ASSUME NEW h
      PROVE  P(h) <=> TLVWalk(h, ws, T)
  <2> HIDE DEF tlv, Bad
  <2>1. ASSUME NEW i \in 1 .. Len(ws) + 1
        PROVE  (IF i = Len(ws) + 1 THEN <<>>
                ELSE IF Bad(i) THEN <<ErrorTLV>>
                ELSE <<tlv(i)>> \o h[TLVNext(ws, i)])
               = WalkAt(h, i, Len(ws), TLVStops(ws, T), TLVErrors(ws), T, TLVTo(ws))
    <3>1. CASE i = Len(ws) + 1
      BY <3>1, Zenon DEF WalkAt
    <3>2. CASE i # Len(ws) + 1
      <4>1. i \in 1 .. Len(ws)
        BY <1>1, <3>2
      <4> QED
        BY <1>5, <3>2, <4>1, Zenon DEF WalkAt
    <3> QED
      BY <3>1, <3>2
  <2> QED
    BY <2>1, Zenon DEF TLVWalk, IsWalk
<1>7. P(CHOOSE h : P(h))
  <2> HIDE DEF P
  <2> QED
    BY <1>4, <1>6
<1> HIDE DEF P
<1> QED
  BY <1>2, <1>3, <1>6, <1>7

(* A TLV is read from its own words, and what follows from what is left.   *)
LEMMA VendorTLVsFirst ==
    ASSUME NEW type, NEW length, NEW value, NEW rest, ValueFits(length, value, rest),
           DecodeUnknown(type, length, value) # ErrorTLV
    PROVE  DecodeVendorTLVs(Led(TLVHdr(type, length), value, rest))
           = Cons(DecodeUnknown(type, length, value), DecodeVendorTLVs(rest))
<1>0. /\ length \in Nat /\ IsText(value) /\ Len(value) = PaddedWords(length)
      /\ IsText(rest)
  BY DEF ValueFits
<1> USE <1>0
<1>1. PICK w, ws, k : w = TLVHdr(type, length) /\ ws = (<<w>> \o value) \o rest /\ k = 1 + Len(value)
  OBVIOUS
<1>2. /\ IsWord(w) /\ w # <<>> /\ w[1] = "tlv" /\ Field(w, 3, 0) = length
      /\ Field(w, 2, "none") = type
  BY <1>1 DEF TLVHdr, Field, IsWord
<1>3. IsText(ws)
  BY <1>1, <1>2, TextOfOne, TextJoined
<1>4. Listed(value) /\ Listed(rest) /\ Len(value) \in Nat /\ Len(rest) \in Nat
  BY ListIs DEF IsText
<1>5. /\ Len(ws) = k + Len(rest) /\ ws[1] = w /\ SubSeq(ws, 2, k) = value
      /\ \A i \in 1 .. Len(rest) : ws[k + i] = rest[i]
  <2>1. Between(ws, w, value, rest, k)
    BY <1>1, <1>4, BetweenNamed, Zenon
  <2> QED
    BY <2>1, Zenon DEF Between
<1>6. PICK T, T0 : T = VendorTLVs(ws) /\ T0 = VendorTLVs(rest)
  OBVIOUS
<1>7. T[1] = DecodeUnknown(type, length, value)
  <2>1. 1 \in 1 .. Len(ws)
    BY <1>1, <1>4, <1>5
  <2>2. TLVNext(ws, 1) = k + 1
    BY <1>1, <1>2, <1>4, <1>5 DEF TLVNext
  <2>3. SubSeq(ws, 1 + 1, TLVNext(ws, 1) - 1) = value
    <3>1. 1 + 1 = 2 /\ (k + 1) - 1 = k
      BY <1>1, <1>4
    <3> QED
      BY <1>5, <2>2, <3>1
  <2>4. T[1] = DecodeUnknown(Field(ws[1], 2, "none"), Field(ws[1], 3, 0), SubSeq(ws, 1 + 1, TLVNext(ws, 1) - 1))
    BY <1>6, <2>1, Zenon DEF VendorTLVs
  <2> QED
    BY <1>2, <1>5, <2>3, <2>4, Zenon
<1>8. SameValues(1 + Len(value), ws, T, rest, T0)
  <2> SUFFICES ASSUME NEW i \in 1 .. Len(rest), ws[k + i] = rest[i],
                      SubSeq(ws, k + i + 1, TLVNext(ws, k + i) - 1)
                      = SubSeq(rest, i + 1, TLVNext(rest, i) - 1)
               PROVE  T[k + i] = T0[i]
    BY <1>1, Zenon DEF SameValues
  <2>1. k + i \in 1 .. Len(ws)
    <3> HIDE <1>0
    <3>1. PICK p \in Nat, q \in Nat : p = Len(value) /\ q = Len(rest)
      BY <1>4
    <3>2. k = 1 + p /\ Len(ws) = k + q /\ i \in 1 .. q
      BY <1>1, <1>5, <3>1
    <3> QED
      BY <3>2
  <2>2. T[k + i] = DecodeUnknown(Field(ws[k + i], 2, "none"), Field(ws[k + i], 3, 0),
                       SubSeq(ws, k + i + 1, TLVNext(ws, k + i) - 1))
    BY <1>6, <2>1, Zenon DEF VendorTLVs
  <2>3. T0[i] = DecodeUnknown(Field(rest[i], 2, "none"), Field(rest[i], 3, 0),
                    SubSeq(rest, i + 1, TLVNext(rest, i) - 1))
    BY <1>6, Zenon DEF VendorTLVs
  <2> QED
    BY <2>2, <2>3, Zenon
<1>9. PICK g : TLVWalk(g, ws, T) /\ DecodeVendorTLVs(ws) = g[1]
  BY <1>3, <1>6, VendorTLVWalk
<1>10. PICK f : TLVWalk(f, rest, T0) /\ DecodeVendorTLVs(rest) = f[1]
  BY <1>6, VendorTLVWalk
<1>11. TLVBefore(ws, w, value, rest, T, T0, g, f)
  BY <1>1, <1>2, <1>7, <1>8, <1>9, <1>10 DEF TLVBefore
<1>12. g[1] = Cons(T[1], f[1])
  BY <1>11, TLVBeforeOthers
<1> QED
  BY <1>1, <1>7, <1>9, <1>10, <1>12 DEF Led

(* No words hold no TLVs of a vendor.                                      *)
LEMMA NoVendorTLVs == DecodeVendorTLVs(<<>>) = <<>>
<1>1. PICK ws : ws = <<>>
  OBVIOUS
<1>2. IsText(ws) /\ Len(ws) = 0
  BY <1>1, NoText, EmptyList
<1>3. PICK f : TLVWalk(f, ws, VendorTLVs(ws)) /\ DecodeVendorTLVs(ws) = f[1]
  BY <1>2, VendorTLVWalk
<1>4. f[1] = WalkAt(f, 1, 0, TLVStops(ws, VendorTLVs(ws)), TLVErrors(ws), VendorTLVs(ws), TLVTo(ws))
  <2>1. 1 \in 1 .. 0 + 1
    OBVIOUS
  <2> QED
    BY <1>2, <1>3, <2>1 DEF TLVWalk, IsWalk
<1>5. f[1] = <<>>
  BY <1>4 DEF WalkAt
<1> QED
  BY <1>1, <1>3, <1>5

------------------------------------------------------------------------------
(* Data and addresses                                                      *)

(* The words of a datum.                                                   *)
LEMMA DataListed ==
    ASSUME NEW d, NEW n \in Nat
    PROVE  /\ Listed(Data(d, n)) /\ Len(Data(d, n)) = n /\ IsText(Data(d, n))
           /\ \A i \in 1 .. n : Data(d, n)[i] = <<"data", d, i>>
<1>1. PICK s : s = Data(d, n)
  OBVIOUS
<1>2. s = [i \in 1 .. n |-> <<"data", d, i>>]
  BY <1>1 DEF Data
<1>3. \A i \in 1 .. n : s[i] = <<"data", d, i>>
  BY <1>2
<1>4. s = [i \in 1 .. n |-> s[i]]
  BY <1>2, <1>3
<1>5. Listed(s) /\ Len(s) = n
  BY <1>4, ListOf
<1>6. IsText(s)
  BY <1>3, <1>5 DEF IsText, IsWord, Field
<1> QED
  BY <1>1, <1>3, <1>5, <1>6

(* A datum is read from words that are the whole of it.                    *)
LEMMA DataInside ==
    ASSUME NEW ws, Listed(ws), NEW d, NEW k \in Nat, NEW n \in Nat, n # 0, k + n <= Len(ws),
           \A j \in 1 .. n : ws[k + j] = <<"data", d, j>>
    PROVE  DataAt(SubSeq(ws, k + 1, k + n)) = d
<1>1. PICK s, p, q : p = k + 1 /\ q = k + n /\ s = SubSeq(ws, p, q)
  OBVIOUS
<1>2. /\ Listed(s) /\ Len(s) = q - p + 1 /\ \A i \in 1 .. q - p + 1 : s[i] = ws[p + i - 1]
  <2>1. p \in Nat /\ q \in Nat /\ 1 <= p /\ p <= q + 1 /\ q <= Len(ws)
    BY <1>1
  <2> QED
    BY <1>1, <2>1, PartOf
<1>3. Len(s) = n /\ \A i \in 1 .. n : s[i] = <<"data", d, i>>
  <2>1. q - p + 1 = n
    BY <1>1
  <2>2. ASSUME NEW i \in 1 .. n PROVE s[i] = <<"data", d, i>>
    <3>1. p + i - 1 = k + i
      BY <1>1
    <3> QED
      BY <1>2, <2>1, <3>1
  <2> QED
    BY <1>2, <2>1, <2>2
<1>4. s = Data(d, n)
  <2>1. PICK t : t = Data(d, n)
    OBVIOUS
  <2>2. Listed(t) /\ Len(t) = n /\ \A i \in 1 .. n : t[i] = <<"data", d, i>>
    BY <2>1, DataListed
  <2>3. Len(s) = Len(t) /\ \A i \in 1 .. Len(s) : s[i] = t[i]
    BY <1>3, <2>2
  <2> QED
    BY <1>2, <2>1, <2>2, <2>3, SameList
<1>5. s # <<>> /\ s[1] = <<"data", d, 1>>
  <2>1. 1 \in 1 .. n
    OBVIOUS
  <2> QED
    BY <1>2, <1>3, <2>1, ListIs
<1>6. s[1] # <<>> /\ 1 \in 1 .. Len(s)
  BY <1>3, <1>5
<1>7. Field(s[1], 2, Unspecified) = d
  BY <1>5 DEF Field
<1>8. s = Data(d, Len(s))
  BY <1>3, <1>4
<1>9. DataAt(s) = d
  BY <1>5, <1>6, <1>7, <1>8, Zenon DEF DataAt
<1> QED
  BY <1>1, <1>9

(* A datum is read back from its words.                                    *)
LEMMA DataBack ==
    ASSUME NEW d, NEW n \in Nat, n # 0
    PROVE  DataAt(Data(d, n)) = d
<1>1. PICK s : s = Data(d, n)
  OBVIOUS
<1>2. Listed(s) /\ Len(s) = n /\ \A i \in 1 .. n : s[i] = <<"data", d, i>>
  BY <1>1, DataListed
<1>3. DataAt(SubSeq(s, 0 + 1, 0 + n)) = d
  <2>1. 0 + n <= Len(s) /\ \A i \in 1 .. n : s[0 + i] = <<"data", d, i>>
    BY <1>2
  <2>2. 0 \in Nat
    OBVIOUS
  <2> QED
    BY <1>2, <2>1, <2>2, DataInside
<1>4. SubSeq(s, 0 + 1, 0 + n) = s
  <2>1. 0 + 1 = 1 /\ 0 + n = Len(s)
    BY <1>2
  <2> QED
    BY <1>2, <2>1, WholePart
<1> QED
  BY <1>1, <1>3, <1>4

Addr == IPv4 \cup IPv6

(* Addresses of IPv4 have one word, those of IPv6 four.                    *)
LEMMA AddrLengths ==
    /\ \A a \in IPv4 : AddrLen(a) = 1
    /\ \A a \in IPv6 : AddrLen(a) = 4
    /\ \A a : a \notin Addr => AddrLen(a) = 0
    /\ \A a : AddrLen(a) \in Nat
BY CodecAssumption DEF CodecAssumption, AddrLen, Addr

(* An address is read back from its words.                                 *)
LEMMA SliceBack ==
    ASSUME NEW a \in Addr
    PROVE  DataAt(AsSlice(a)) = a /\ IsText(AsSlice(a)) /\ Len(AsSlice(a)) = AddrLen(a)
<1>1. AddrLen(a) \in Nat /\ AddrLen(a) # 0
  BY AddrLengths DEF Addr
<1> QED
  BY <1>1, DataBack, DataListed DEF AsSlice

(* No address has no words.                                                *)
LEMMA NoSlice ==
    ASSUME NEW a, a \notin Addr
    PROVE  AsSlice(a) = <<>>
<1>1. AddrLen(a) = 0
  BY AddrLengths
<1>2. Listed(Data(a, 0)) /\ Len(Data(a, 0)) = 0
  BY DataListed
<1>3. Data(a, 0) = <<>>
  BY <1>2, ListIs
<1> QED
  BY <1>1, <1>3 DEF AsSlice

(* The words of the codec are words of a text.                             *)
LEMMA Words ==
    /\ \A n : IsWord(Uint(n)) /\ UintAt(Uint(n)) = n
    /\ \A F : IsWord(Flags(F)) /\ FlagsAt(Flags(F)) = F
    /\ IsWord(<<>>)
<1>1. ASSUME NEW n PROVE IsWord(Uint(n)) /\ UintAt(Uint(n)) = n
  BY DEF Uint, UintAt, IsWord, Field
<1>2. ASSUME NEW F PROVE IsWord(Flags(F)) /\ FlagsAt(Flags(F)) = F
  BY DEF Flags, FlagsAt, IsWord, Field
<1>3. IsWord(<<>>)
  BY DEF IsWord, Field
<1> QED
  BY <1>1, <1>2, <1>3

------------------------------------------------------------------------------
(* Subobjects of an ERO: each is read from its own words                   *)

(* The way over the subobjects of an ERO.                                  *)
SegNext(ws, i) == i + SubobjectLen(ws[i]) \div 4

SegFits(ws, i) == SubobjectLen(ws[i]) # 0 /\ SegNext(ws, i) <= Len(ws) + 1

SegStops(ws) == {i \in 1 .. Len(ws) : ~SegFits(ws, i)}

SegErrors(ws) == [i \in 1 .. Len(ws) |-> ErrorSegment]

SegMade(ws) == [i \in 1 .. Len(ws) |-> SubobjectSegment(SubSeq(ws, i, SegNext(ws, i) - 1))]

SegTo(ws) == [i \in 1 .. Len(ws) |-> SegNext(ws, i)]

SegWalk(f, ws) ==
    IsWalk(f, Len(ws), SegStops(ws), SegErrors(ws), SegMade(ws), SegTo(ws))

(* The length of a subobject is that of its words.                         *)
LEMMA SubobjectLengths ==
    ASSUME NEW w
    PROVE  SubobjectLen(w) \in Nat /\ (SubobjectLen(w) = 0 \/ SubobjectLen(w) >= 8)
<1>1. PICK type, nai, flags :
         type = Field(w, 2, "none") /\ nai = Field(w, 4, "none") /\ flags = Field(w, 5, {})
  OBVIOUS
<1>2. /\ \A n \in DOMAIN NAILengthSR : NAILengthSR[n] \in Nat
      /\ \A n \in DOMAIN NAILengthSRv6 : NAILengthSRv6[n] \in Nat
  BY DEF NAILengthSR, NAILengthSRv6
<1>3. CASE type = "SR" /\ ("F" \in flags \/ nai \in DOMAIN NAILengthSR)
  <2>1. SubobjectLen(w) = SREroLen(nai, flags)
    BY <1>1, <1>3 DEF SubobjectLen
  <2> QED
    BY <1>2, <1>3, <2>1 DEF SREroLen
<1>4. CASE type = "SRv6" /\ ("F" \in flags \/ nai \in DOMAIN NAILengthSRv6)
  <2>1. SubobjectLen(w) = SRv6EroLen(nai, flags)
    BY <1>1, <1>4 DEF SubobjectLen
  <2>2. PICK a, b, c : /\ a = (IF "S" \in flags THEN 0 ELSE 16)
                       /\ b = (IF "F" \in flags THEN 0 ELSE NAILengthSRv6[nai])
                       /\ c = (IF "T" \in flags THEN 8 ELSE 0)
    OBVIOUS
  <2>3. a \in Nat /\ b \in Nat /\ c \in Nat
    BY <1>2, <1>4, <2>2
  <2>4. SRv6EroLen(nai, flags) = 8 + a + b + c
    BY <2>2, Zenon DEF SRv6EroLen
  <2> QED
    BY <2>1, <2>3, <2>4
<1>5. CASE /\ ~(type = "SR" /\ ("F" \in flags \/ nai \in DOMAIN NAILengthSR))
           /\ ~(type = "SRv6" /\ ("F" \in flags \/ nai \in DOMAIN NAILengthSRv6))
  <2>1. CASE type = "IPv4Prefix" /\ Field(w, 3, 0) = RSVPIPv4PrefixLen
    <3>1. SubobjectLen(w) = RSVPIPv4PrefixLen
      BY <1>1, <2>1 DEF SubobjectLen
    <3> QED
      BY <3>1 DEF RSVPIPv4PrefixLen
  <2>2. CASE ~(type = "IPv4Prefix" /\ Field(w, 3, 0) = RSVPIPv4PrefixLen)
    <3>1. SubobjectLen(w) = 0
      BY <1>1, <1>5, <2>2, Zenon DEF SubobjectLen
    <3> QED
      BY <3>1
  <2> QED
    BY <2>1, <2>2
<1> QED
  BY <1>3, <1>4, <1>5

(* The place after a subobject is a later one.                             *)
LEMMA SegForward ==
    ASSUME NEW ws, Listed(ws)
    PROVE  /\ Forward(Len(ws), SegStops(ws), SegTo(ws))
           /\ \A i \in 1 .. Len(ws) : SegFits(ws, i) => SegNext(ws, i) \in i + 2 .. Len(ws) + 1
<1>1. Len(ws) \in Nat
  BY ListIs
<1>2. ASSUME NEW i \in 1 .. Len(ws), SegFits(ws, i)
      PROVE  SegNext(ws, i) \in i + 2 .. Len(ws) + 1
  <2>1. PICK l \in Nat : l = SubobjectLen(ws[i]) /\ (l = 0 \/ l >= 8)
    BY SubobjectLengths
  <2>2. l >= 8 /\ i + l \div 4 <= Len(ws) + 1
    BY <1>2, <2>1 DEF SegFits, SegNext
  <2>3. i + l \div 4 \in i + 2 .. Len(ws) + 1
    BY <1>1, <2>1, <2>2
  <2> QED
    BY <2>1, <2>3 DEF SegNext
<1>3. ASSUME NEW i \in 1 .. Len(ws), i \notin SegStops(ws)
      PROVE  SegTo(ws)[i] \in i + 1 .. Len(ws) + 1
  <2>1. SegFits(ws, i) /\ SegTo(ws)[i] = SegNext(ws, i)
    BY <1>3 DEF SegStops, SegTo
  <2>2. SegNext(ws, i) \in i + 2 .. Len(ws) + 1
    BY <1>2, <2>1
  <2> QED
    BY <1>1, <2>1, <2>2
<1> QED
  BY <1>2, <1>3 DEF Forward

(* EroSegments is a walk.                                                  *)
LEMMA SegmentsWalk ==
    ASSUME NEW ws, Listed(ws)
    PROVE  \E f : SegWalk(f, ws) /\ EroSegments(ws) = f[1]
<1>1. Len(ws) \in Nat
  BY ListIs
<1> DEFINE segment(i) == SubobjectSegment(SubSeq(ws, i, SegNext(ws, i) - 1))
           Bad(i) == SubobjectLen(ws[i]) = 0 \/ SegNext(ws, i) > Len(ws) + 1
           P(h) == h = [i \in 1 .. Len(ws) + 1 |->
                          IF i = Len(ws) + 1 THEN <<>>
                          ELSE IF Bad(i) THEN <<ErrorSegment>>
                          ELSE <<segment(i)>> \o h[SegNext(ws, i)]]
<1>2. EroSegments(ws) = (CHOOSE h : P(h))[1]
  BY DEF EroSegments, Walk, SegNext
<1>3. PICK g : SegWalk(g, ws)
  <2>1. Forward(Len(ws), SegStops(ws), SegTo(ws))
    BY SegForward
  <2> QED
    BY <1>1, <2>1, WalkExists DEF SegWalk, Forward
<1>4. ASSUME NEW i \in 1 .. Len(ws)
      PROVE  /\ SegMade(ws)[i] = segment(i) /\ SegTo(ws)[i] = SegNext(ws, i)
             /\ SegErrors(ws)[i] = ErrorSegment
             /\ i \in SegStops(ws) <=> Bad(i)
  <2>1. SegMade(ws)[i] = segment(i) /\ SegTo(ws)[i] = SegNext(ws, i) /\ SegErrors(ws)[i] = ErrorSegment
    BY Zenon DEF SegMade, SegTo, SegErrors
  <2>2. SegNext(ws, i) \in Nat
    <3>1. PICK l \in Nat : l = SubobjectLen(ws[i])
      BY SubobjectLengths
    <3> QED
      BY <3>1 DEF SegNext
  <2>3. SegNext(ws, i) > Len(ws) + 1 <=> ~(SegNext(ws, i) <= Len(ws) + 1)
    BY <1>1, <2>2
  <2> HIDE DEF segment
  <2> QED
    BY <2>1, <2>3, Zenon DEF SegStops, SegFits
<1>5. ASSUME NEW h
      PROVE  P(h) <=> SegWalk(h, ws)
  <2> HIDE DEF segment, Bad
  <2>1. ASSUME NEW i \in 1 .. Len(ws) + 1
        PROVE  (IF i = Len(ws) + 1 THEN <<>>
                ELSE IF Bad(i) THEN <<ErrorSegment>>
                ELSE <<segment(i)>> \o h[SegNext(ws, i)])
               = WalkAt(h, i, Len(ws), SegStops(ws), SegErrors(ws), SegMade(ws), SegTo(ws))
    <3>1. CASE i = Len(ws) + 1
      BY <3>1, Zenon DEF WalkAt
    <3>2. CASE i # Len(ws) + 1
      <4>1. i \in 1 .. Len(ws)
        BY <1>1, <3>2
      <4> QED
        BY <1>4, <3>2, <4>1, Zenon DEF WalkAt
    <3> QED
      BY <3>1, <3>2
  <2> QED
    BY <2>1, Zenon DEF SegWalk, IsWalk
<1>6. P(CHOOSE h : P(h))
  <2> HIDE DEF P
  <2> QED
    BY <1>3, <1>5
<1> HIDE DEF P
<1> QED
  BY <1>2, <1>5, <1>6

(* A subobject whose length says where it ends is read from its own words. *)
LEMMA SegmentsFirst ==
    ASSUME NEW sub, Listed(sub), sub # <<>>, SubobjectLen(sub[1]) = 4 * Len(sub),
           NEW rest, Listed(rest)
    PROVE  EroSegments(sub \o rest) = <<SubobjectSegment(sub)>> \o EroSegments(rest)
<1>1. PICK ws, k, m : ws = sub \o rest /\ k = Len(sub) /\ m = Len(rest)
  OBVIOUS
<1>2. k \in Nat /\ k # 0 /\ m \in Nat
  BY <1>1, ListIs
<1>3. /\ Listed(ws) /\ Len(ws) = k + m /\ \A i \in 1 .. k : ws[i] = sub[i]
      /\ \A i \in 1 .. m : ws[k + i] = rest[i]
  BY <1>1, Joined
<1>4. /\ 1 \in 1 .. Len(ws) /\ SegNext(ws, 1) = k + 1 /\ SegFits(ws, 1)
      /\ SubSeq(ws, 1, SegNext(ws, 1) - 1) = sub
  <2>1. 1 \in 1 .. k /\ 1 \in 1 .. Len(ws)
    BY <1>2, <1>3
  <2>2. SubobjectLen(ws[1]) = 4 * k
    BY <1>1, <1>3, <2>1
  <2>3. 1 + (4 * k) \div 4 = k + 1 /\ 4 * k # 0 /\ k + 1 <= Len(ws) + 1 /\ (k + 1) - 1 = k
    BY <1>2, <1>3
  <2>4. SegNext(ws, 1) = k + 1
    BY <2>2, <2>3 DEF SegNext
  <2>5. SegFits(ws, 1)
    BY <2>2, <2>3, <2>4 DEF SegFits
  <2>6. SubSeq(ws, 1, k) = sub
    <3>1. SubSeq(sub \o rest, 1, k) = SubSeq(sub, 1, k)
      <4>1. 1 \in Nat /\ 1 <= 1 /\ 1 <= k + 1 /\ k <= Len(sub)
        BY <1>1, <1>2
      <4> QED
        BY <1>2, <4>1, PartOfFirst
    <3> QED
      BY <1>1, <3>1, WholePart
  <2> QED
    BY <2>1, <2>3, <2>4, <2>5, <2>6
<1>5. ASSUME NEW i \in 1 .. m
      PROVE  /\ k + i \in SegStops(ws) <=> i \in SegStops(rest)
             /\ SegErrors(ws)[k + i] = SegErrors(rest)[i]
             /\ i \notin SegStops(rest) =>
                   SegMade(ws)[k + i] = SegMade(rest)[i] /\ SegTo(ws)[k + i] = k + SegTo(rest)[i]
  <2>1. PICK v, j : v = rest[i] /\ j = k + i
    OBVIOUS
  <2>2. ws[j] = v /\ j \in 1 .. Len(ws) /\ i \in 1 .. Len(rest)
    BY <1>1, <1>2, <1>3, <2>1
  <2>3. PICK l \in Nat : l = SubobjectLen(v)
    BY SubobjectLengths
  <2>4. PICK p \in Nat : p = l \div 4
    BY <2>3
  <2>5. SegNext(ws, j) = j + p /\ SegNext(rest, i) = i + p
    BY <2>1, <2>2, <2>3, <2>4 DEF SegNext
  <2>6. SegNext(ws, j) = k + SegNext(rest, i)
    BY <1>2, <2>1, <2>4, <2>5
  <2>7. SegNext(ws, j) <= Len(ws) + 1 <=> SegNext(rest, i) <= Len(rest) + 1
    BY <1>1, <1>2, <1>3, <2>1, <2>4, <2>5
  <2>8. SegFits(ws, j) <=> SegFits(rest, i)
    BY <2>1, <2>2, <2>7 DEF SegFits
  <2>9. SegErrors(ws)[j] = SegErrors(rest)[i] /\ SegTo(ws)[j] = k + SegTo(rest)[i]
    BY <2>2, <2>6 DEF SegErrors, SegTo
  <2>10. ASSUME SegFits(rest, i) PROVE SegMade(ws)[j] = SegMade(rest)[i]
    <3>1. PICK q : q = i + p - 1
      OBVIOUS
    <3>2. i \in Nat /\ q \in Nat /\ 1 <= i /\ i <= q + 1 /\ q <= Len(rest)
      BY <1>1, <1>2, <2>4, <2>5, <2>10, <3>1 DEF SegFits
    <3>3. SubSeq(sub \o rest, Len(sub) + i, Len(sub) + q) = SubSeq(rest, i, q)
      BY <3>2, PartOfSecond
    <3>4. SegNext(ws, j) - 1 = k + q /\ SegNext(rest, i) - 1 = q
      BY <1>2, <2>1, <2>4, <2>5, <3>1
    <3>5. SubSeq(ws, j, SegNext(ws, j) - 1) = SubSeq(rest, i, SegNext(rest, i) - 1)
      BY <1>1, <2>1, <3>3, <3>4
    <3> QED
      BY <2>2, <3>5, Zenon DEF SegMade
  <2> QED
    BY <2>1, <2>2, <2>8, <2>9, <2>10 DEF SegStops
<1>6. PICK S, E, G, T, S2, E2, G2, T2 :
         /\ S = SegStops(rest) /\ E = SegErrors(rest) /\ G = SegMade(rest) /\ T = SegTo(rest)
         /\ S2 = SegStops(ws) /\ E2 = SegErrors(ws) /\ G2 = SegMade(ws) /\ T2 = SegTo(ws)
  OBVIOUS
<1>7. PICK g : SegWalk(g, ws) /\ EroSegments(ws) = g[1]
  BY <1>3, SegmentsWalk
<1>8. PICK f : SegWalk(f, rest) /\ EroSegments(rest) = f[1]
  BY SegmentsWalk
<1>9. IsWalk(g, k + m, S2, E2, G2, T2) /\ IsWalk(f, m, S, E, G, T)
  BY <1>1, <1>3, <1>6, <1>7, <1>8 DEF SegWalk
<1>10. Forward(m, S, T)
  BY <1>1, <1>6, SegForward
<1>11. 1 \notin S2 /\ T2[1] = k + 1 /\ G2[1] = SubobjectSegment(sub)
  BY <1>4, <1>6 DEF SegStops, SegTo, SegMade
<1>12. Agrees(k, m, S, E, G, T, S2, E2, G2, T2)
  BY <1>5, <1>6 DEF Agrees
<1>13. Continues(k, m, f, S, E, G, T, g, S2, E2, G2, T2)
  BY <1>2, <1>9, <1>10, <1>11, <1>12 DEF Continues
<1>14. g[1] = Cons(G2[1], f[1])
  BY <1>13, WalkOn
<1> QED
  BY <1>1, <1>7, <1>8, <1>11, <1>14 DEF Cons

(* No words hold no subobjects.                                            *)
LEMMA NoSegments == EroSegments(<<>>) = <<>>
<1>1. PICK ws : ws = <<>>
  OBVIOUS
<1>2. Listed(ws) /\ Len(ws) = 0
  BY <1>1, EmptyList
<1>3. PICK f : SegWalk(f, ws) /\ EroSegments(ws) = f[1]
  BY <1>2, SegmentsWalk
<1>4. f[1] = WalkAt(f, 1, 0, SegStops(ws), SegErrors(ws), SegMade(ws), SegTo(ws))
  <2>1. 1 \in 1 .. 0 + 1
    OBVIOUS
  <2> QED
    BY <1>2, <1>3, <2>1 DEF SegWalk, IsWalk
<1>5. f[1] = <<>>
  BY <1>4 DEF WalkAt
<1> QED
  BY <1>1, <1>3, <1>5

(* What two addresses behind two words look like.                          *)
Addresses(words, H, L, local, remote) ==
    /\ Listed(words) /\ Len(words) = 2 + AddrLen(local) + AddrLen(remote)
    /\ words[1] = H /\ words[2] = L
    /\ local \in Addr => DataAt(SubSeq(words, 3, 2 + AddrLen(local))) = local
    /\ remote \in Addr =>
          DataAt(SubSeq(words, 3 + AddrLen(local), 2 + AddrLen(local) + AddrLen(remote))) = remote
    /\ \A j \in 1 .. AddrLen(local) : words[2 + j] = <<"data", local, j>>
    /\ \A j \in 1 .. AddrLen(remote) : words[2 + AddrLen(local) + j] = <<"data", remote, j>>

(* Where the addresses of a NAI stand.                                     *)
LEMMA AddressesAt ==
    ASSUME NEW H, NEW L, NEW local, NEW remote,
           NEW words, words = <<H, L>> \o (AsSlice(local) \o AsSlice(remote))
    PROVE  Addresses(words, H, L, local, remote)
<1>1. PICK m \in Nat, n \in Nat : m = AddrLen(local) /\ n = AddrLen(remote)
  BY AddrLengths
<1>2. PICK a, b, c, h, ws :
         a = AsSlice(local) /\ b = AsSlice(remote) /\ c = a \o b /\ h = <<H, L>> /\ ws = h \o c
  OBVIOUS
<1>3. Listed(a) /\ Len(a) = m /\ \A i \in 1 .. m : a[i] = <<"data", local, i>>
  BY <1>1, <1>2, DataListed DEF AsSlice
<1>4. Listed(b) /\ Len(b) = n /\ \A i \in 1 .. n : b[i] = <<"data", remote, i>>
  BY <1>1, <1>2, DataListed DEF AsSlice
<1>5. /\ Listed(c) /\ Len(c) = m + n /\ \A i \in 1 .. m : c[i] = a[i]
      /\ \A i \in 1 .. n : c[m + i] = b[i]
  <2>1. Listed(a) /\ Listed(b)
    BY <1>3, <1>4
  <2>2. /\ Listed(a \o b) /\ Len(a \o b) = Len(a) + Len(b)
        /\ \A i \in 1 .. Len(a) : (a \o b)[i] = a[i]
        /\ \A i \in 1 .. Len(b) : (a \o b)[Len(a) + i] = b[i]
    BY <2>1, Joined
  <2> QED
    BY <1>2, <1>3, <1>4, <2>2
<1>6. Listed(h) /\ Len(h) = 2 /\ h[1] = H /\ h[2] = L
  <2>1. h = [i \in 1 .. 2 |-> h[i]]
    BY <1>2
  <2> QED
    BY <1>2, <2>1, ListOf
<1>7. /\ Listed(ws) /\ Len(ws) = 2 + (m + n) /\ \A i \in 1 .. 2 : ws[i] = h[i]
      /\ \A i \in 1 .. m + n : ws[2 + i] = c[i]
  BY <1>2, <1>5, <1>6, Joined
<1>8. \A j \in 1 .. m : ws[2 + j] = <<"data", local, j>>
  <2> SUFFICES ASSUME NEW j \in 1 .. m PROVE ws[2 + j] = <<"data", local, j>>
    OBVIOUS
  <2>1. j \in 1 .. m + n
    OBVIOUS
  <2> QED
    BY <1>3, <1>5, <1>7, <2>1
<1>9. \A j \in 1 .. n : ws[(2 + m) + j] = <<"data", remote, j>>
  <2> SUFFICES ASSUME NEW j \in 1 .. n PROVE ws[(2 + m) + j] = <<"data", remote, j>>
    OBVIOUS
  <2>1. PICK i : i = m + j
    OBVIOUS
  <2>2. i \in 1 .. m + n /\ 2 + i = (2 + m) + j
    BY <2>1
  <2> QED
    BY <1>4, <1>5, <1>7, <2>1, <2>2
<1>10. ASSUME local \in Addr PROVE DataAt(SubSeq(ws, 3, 2 + m)) = local
  <2>1. m # 0 /\ 2 + m <= Len(ws) /\ 2 \in Nat /\ 2 + 1 = 3
    BY <1>1, <1>7, <1>10, AddrLengths DEF Addr
  <2>2. DataAt(SubSeq(ws, 2 + 1, 2 + m)) = local
    BY <1>7, <1>8, <2>1, DataInside
  <2> QED
    BY <2>1, <2>2
<1>11. ASSUME remote \in Addr PROVE DataAt(SubSeq(ws, 3 + m, 2 + m + n)) = remote
  <2>1. PICK k \in Nat : k = 2 + m
    OBVIOUS
  <2>2. n # 0 /\ k + n <= Len(ws) /\ k + 1 = 3 + m
    <3>1. n # 0
      BY <1>1, <1>11, AddrLengths DEF Addr
    <3>2. k + n <= Len(ws)
      BY <1>7, <2>1
    <3>3. k + 1 = 3 + m
      BY <2>1
    <3> QED
      BY <3>1, <3>2, <3>3
  <2>3. \A j \in 1 .. n : ws[k + j] = <<"data", remote, j>>
    BY <1>9, <2>1
  <2>4. DataAt(SubSeq(ws, k + 1, k + n)) = remote
    BY <1>7, <2>2, <2>3, DataInside
  <2> QED
    BY <2>1, <2>2, <2>4
<1>12. 2 + (m + n) = 2 + m + n
  OBVIOUS
<1>13. ws = words /\ ws[1] = H /\ ws[2] = L
  BY <1>2, <1>6, <1>7
<1> QED
  BY <1>1, <1>7, <1>8, <1>9, <1>10, <1>11, <1>12, <1>13 DEF Addresses

(* Segments that fit their words.                                          *)
(* What a NAI type says of the addresses.                                  *)
LEMMA NAITypes ==
    ASSUME NEW seg, IsSRMPLS(seg), NAITypeSRFor(seg) # "error"
    PROVE  LET nai == NAITypeSRFor(seg)
           IN  /\ nai \in DOMAIN NAILengthSR
               /\ NAILengthSR[nai] = 4 * AddrLen(seg.local) + 4 * AddrLen(seg.remote)
               /\ nai = "Absent" <=> seg.local = NoAddr
               /\ nai = "Absent" => seg.remote = NoAddr
               /\ nai # "Absent" => seg.local \in Addr
               /\ nai \in {"IPv4Adjacency", "IPv6AdjacencyGlobal"} =>
                     seg.remote \in Addr /\ AddrLen(seg.remote) = AddrLen(seg.local)
               /\ nai \notin {"IPv4Adjacency", "IPv6AdjacencyGlobal"} => seg.remote = NoAddr
<1>1. PICK l, r, nai : l = seg.local /\ r = seg.remote /\ nai = NAITypeSRFor(seg)
  OBVIOUS
<1>2. l \in Addr \cup {NoAddr} /\ r \in Addr \cup {NoAddr} /\ NoAddr \notin Addr
  BY <1>1, CodecAssumption DEF IsSRMPLS, CodecAssumption, Addr
<1>3. nai # "error"
  BY <1>1
<1>4. nai = CASE ~IsAddr(l) -> IF IsAddr(r) THEN "error" ELSE "Absent"
          [] IsAddr(l) /\ ~IsAddr(r) -> IF l \in IPv4 THEN "IPv4Node" ELSE "IPv6Node"
          [] IsAddr(l) /\ IsAddr(r) ->
                IF (l \in IPv4) # (r \in IPv4) THEN "error"
                ELSE IF l \in IPv4 THEN "IPv4Adjacency"
                ELSE IF {l, r} \cap LinkLocal # {} THEN "error"
                ELSE "IPv6AdjacencyGlobal"
  BY <1>1, Zenon DEF NAITypeSRFor
<1>5. CASE ~IsAddr(l)
  <2>1. nai = "Absent" /\ l = NoAddr /\ r = NoAddr
    BY <1>3, <1>4, <1>5 DEF IsAddr
  <2>2. AddrLen(l) = 0 /\ AddrLen(r) = 0
    BY <1>2, <2>1, AddrLengths
  <2> QED
    BY <1>1, <2>1, <2>2 DEF NAILengthSR
<1>6. CASE IsAddr(l) /\ ~IsAddr(r)
  <2>1. nai = (IF l \in IPv4 THEN "IPv4Node" ELSE "IPv6Node") /\ r = NoAddr /\ l # NoAddr
    BY <1>4, <1>6 DEF IsAddr
  <2>2. l \in Addr /\ AddrLen(r) = 0
    BY <1>2, <2>1, AddrLengths
  <2>3. CASE l \in IPv4
    <3>1. AddrLen(l) = 1 /\ nai = "IPv4Node"
      BY <2>1, <2>3, AddrLengths
    <3> QED
      BY <1>1, <2>1, <2>2, <3>1 DEF NAILengthSR
  <2>4. CASE l \notin IPv4
    <3>1. AddrLen(l) = 4 /\ nai = "IPv6Node"
      BY <2>1, <2>2, <2>4, AddrLengths DEF Addr
    <3> QED
      BY <1>1, <2>1, <2>2, <3>1 DEF NAILengthSR
  <2> QED
    BY <2>3, <2>4
<1>7. CASE IsAddr(l) /\ IsAddr(r)
  <2>1. /\ (l \in IPv4) = (r \in IPv4) /\ l # NoAddr /\ r # NoAddr
        /\ nai = IF l \in IPv4 THEN "IPv4Adjacency" ELSE "IPv6AdjacencyGlobal"
    BY <1>3, <1>4, <1>7 DEF IsAddr
  <2>2. l \in Addr /\ r \in Addr
    BY <1>2, <2>1
  <2>3. CASE l \in IPv4
    <3>1. AddrLen(l) = 1 /\ AddrLen(r) = 1 /\ nai = "IPv4Adjacency"
      BY <2>1, <2>3, AddrLengths
    <3> QED
      BY <1>1, <2>1, <2>2, <3>1 DEF NAILengthSR
  <2>4. CASE l \notin IPv4
    <3>1. AddrLen(l) = 4 /\ AddrLen(r) = 4 /\ nai = "IPv6AdjacencyGlobal"
      BY <2>1, <2>2, <2>4, AddrLengths DEF Addr
    <3> QED
      BY <1>1, <2>1, <2>2, <3>1 DEF NAILengthSR
  <2> QED
    BY <2>3, <2>4
<1> QED
  BY <1>5, <1>6, <1>7

(* An SR-ERO subobject is as long as it says and gives its segment back.   *)
LEMMA SRBack ==
    ASSUME NEW seg, IsSRMPLS(seg), NAITypeSRFor(seg) # "error"
    PROVE  /\ IsText(SREroWords(seg)) /\ SREroWords(seg) # <<>>
           /\ SubobjectLen(SREroWords(seg)[1]) = 4 * Len(SREroWords(seg))
           /\ SREroLen(NAITypeSRFor(seg), SREroFlags(seg)) = 4 * Len(SREroWords(seg))
           /\ SubobjectSegment(SREroWords(seg)) = seg
<1>1. PICK l, r, nai, flags, H, L, ws :
         /\ l = seg.local /\ r = seg.remote /\ nai = NAITypeSRFor(seg) /\ flags = SREroFlags(seg)
         /\ H = SubHdr("SR", SREroLen(nai, flags), nai, flags)
         /\ L = <<"label", seg.sid % LabelSpace, seg.attrs>> /\ ws = SREroWords(seg)
  OBVIOUS
<1>2. PICK m \in Nat, n \in Nat : m = AddrLen(l) /\ n = AddrLen(r)
  BY AddrLengths
<1>3. /\ nai \in DOMAIN NAILengthSR /\ NAILengthSR[nai] = 4 * m + 4 * n
      /\ nai = "Absent" <=> l = NoAddr
      /\ nai = "Absent" => r = NoAddr
      /\ nai # "Absent" => l \in Addr
      /\ nai \in {"IPv4Adjacency", "IPv6AdjacencyGlobal"} => r \in Addr /\ n = m
      /\ nai \notin {"IPv4Adjacency", "IPv6AdjacencyGlobal"} => r = NoAddr
  BY <1>1, <1>2, NAITypes
<1>4. NoAddr \notin Addr /\ AddrLen(NoAddr) = 0 /\ AsSlice(NoAddr) = <<>>
  <2>1. NoAddr \notin Addr
    BY CodecAssumption DEF CodecAssumption, Addr
  <2> QED
    BY <2>1, AddrLengths, NoSlice
<1>5. PICK none : none = "" /\ ("F" \in flags <=> nai = "Absent") /\ ("C" \in flags <=> seg.attrs # none)
  <2>1. flags = {"M"} \cup (IF nai = "Absent" THEN {"F"} ELSE {}) \cup (IF seg.attrs # "" THEN {"C"} ELSE {})
    BY <1>1, Zenon DEF SREroFlags
  <2>2. PICK none : none = ""
    OBVIOUS
  <2>3. flags = {"M"} \cup (IF nai = "Absent" THEN {"F"} ELSE {}) \cup (IF seg.attrs # none THEN {"C"} ELSE {})
    BY <2>1, <2>2, Zenon
  <2>4. "F" \in flags <=> nai = "Absent"
    BY <2>3
  <2>5. "C" \in flags <=> seg.attrs # none
    BY <2>3
  <2> QED
    BY <2>2, <2>4, <2>5, Zenon
<1>5a. "F" \in flags <=> nai = "Absent"
  BY <1>5, Zenon
<1>6. ws = <<H, L>> \o (AsSlice(l) \o AsSlice(r))
  <2>1. CASE nai # "Absent"
    BY <1>1, <2>1, Zenon DEF SREroWords
  <2>2. CASE nai = "Absent"
    <3>1. ws = <<H, L>> \o <<>>
      BY <1>1, <2>2, Zenon DEF SREroWords
    <3>2. AsSlice(l) \o AsSlice(r) = <<>>
      <4>1. AsSlice(l) = <<>> /\ AsSlice(r) = <<>>
        BY <1>3, <1>4, <2>2
      <4> QED
        BY <4>1, NoneBefore, EmptyList
    <3> QED
      BY <3>1, <3>2
  <2> QED
    BY <2>1, <2>2
<1>7. /\ Listed(ws) /\ Len(ws) = 2 + m + n /\ ws[1] = H /\ ws[2] = L
      /\ l \in Addr => DataAt(SubSeq(ws, 3, 2 + m)) = l
      /\ r \in Addr => DataAt(SubSeq(ws, 3 + m, 2 + m + n)) = r
      /\ \A j \in 1 .. m : ws[2 + j] = <<"data", l, j>>
      /\ \A j \in 1 .. n : ws[2 + m + j] = <<"data", r, j>>
  <2>0. Addresses(ws, H, L, l, r)
    BY <1>6, AddressesAt
  <2>1. /\ Listed(ws) /\ Len(ws) = 2 + AddrLen(l) + AddrLen(r) /\ ws[1] = H /\ ws[2] = L
        /\ l \in Addr => DataAt(SubSeq(ws, 3, 2 + AddrLen(l))) = l
        /\ r \in Addr => DataAt(SubSeq(ws, 3 + AddrLen(l), 2 + AddrLen(l) + AddrLen(r))) = r
        /\ \A j \in 1 .. AddrLen(l) : ws[2 + j] = <<"data", l, j>>
        /\ \A j \in 1 .. AddrLen(r) : ws[2 + AddrLen(l) + j] = <<"data", r, j>>
    BY <2>0 DEF Addresses
  <2> QED
    BY <1>2, <2>1
<1>8. SREroLen(nai, flags) = 4 * (2 + m + n)
  <2>1. CASE nai = "Absent"
    <3>1. m = 0 /\ n = 0
      BY <1>2, <1>3, <1>4, <2>1
    <3> QED
      BY <1>5a, <2>1, <3>1 DEF SREroLen
  <2>2. CASE nai # "Absent"
    BY <1>3, <1>5a, <2>2 DEF SREroLen
  <2> QED
    BY <2>1, <2>2
<1>9. H[1] = "sub" /\ H[2] = "SR" /\ H[4] = nai /\ H[5] = flags /\ DOMAIN H = 1 .. 5
  BY <1>1 DEF SubHdr
<1>10. SubobjectLen(H) = SREroLen(nai, flags)
  <2>1. Field(H, 2, "none") = "SR" /\ Field(H, 4, "none") = nai /\ Field(H, 5, {}) = flags
    BY <1>9 DEF Field
  <2> QED
    BY <1>3, <2>1, Zenon DEF SubobjectLen
<1>11. IsText(ws) /\ ws # <<>>
  <2>1. IsWord(H) /\ IsWord(L)
    <3>1. Field(H, 1, "zero") = "sub" /\ H # <<>>
      BY <1>9 DEF Field
    <3>2. L # <<>> /\ L[1] = "label" /\ 1 \in DOMAIN L
      BY <1>1
    <3>3. Field(L, 1, "zero") = "label"
      BY <3>2 DEF Field
    <3> QED
      BY <1>9, <3>1, <3>2, <3>3 DEF IsWord
  <2>2. ASSUME NEW i \in 1 .. Len(ws) PROVE IsWord(ws[i])
    <3>1. CASE i = 1 \/ i = 2
      BY <1>7, <2>1, <3>1
    <3>2. CASE i > 2 /\ i <= 2 + m
      <4>1. PICK j : j = i - 2
        OBVIOUS
      <4>2. j \in 1 .. m /\ 2 + j = i
        BY <3>2, <4>1
      <4>3. ws[i] = <<"data", l, j>>
        BY <1>7, <4>2
      <4> QED
        BY <4>3 DEF IsWord, Field
    <3>3. CASE i > 2 + m
      <4>1. PICK j : j = i - (2 + m)
        OBVIOUS
      <4>2. j \in 1 .. n /\ 2 + m + j = i
        BY <1>7, <3>3, <4>1
      <4>3. ws[i] = <<"data", r, j>>
        BY <1>7, <4>2
      <4> QED
        BY <4>3 DEF IsWord, Field
    <3>4. i \in Nat /\ 1 <= i
      BY <1>7
    <3> QED
      BY <3>1, <3>2, <3>3, <3>4
  <2>3. Len(ws) # 0
    BY <1>7
  <2> QED
    BY <1>7, <2>2, <2>3, ListIs DEF IsText
<1>12. PICK adjacency \in BOOLEAN : adjacency <=> nai \in {"IPv4Adjacency", "IPv6AdjacencyGlobal"}
  OBVIOUS
<1>13. PICK words \in Nat, half \in Nat : words = NAILengthSR[nai] \div 4 /\ half = words \div 2
  <2>1. NAILengthSR[nai] \div 4 = m + n
    BY <1>3
  <2>2. m + n \in Nat /\ (m + n) \div 2 \in Nat
    OBVIOUS
  <2> QED
    BY <2>1, <2>2
<1>14. words = m + n /\ (adjacency => half = m /\ n = m) /\ (~adjacency => n = 0)
  <2>1. words = m + n
    BY <1>3, <1>13
  <2>2. adjacency => n = m
    BY <1>3, <1>12
  <2>3. ~adjacency => n = 0
    BY <1>2, <1>3, <1>4, <1>12
  <2> QED
    BY <1>13, <2>1, <2>2, <2>3
<1>15. DataAt(IF adjacency THEN Slice(ws, 3, half) ELSE Slice(ws, 3, words)) = l \/ nai = "Absent"
  <2>1. CASE nai # "Absent"
    <3>1. DataAt(SubSeq(ws, 3, 2 + m)) = l
      BY <1>3, <1>7, <2>1
    <3>2. 3 + m - 1 = 2 + m
      OBVIOUS
    <3>3. Slice(ws, 3, m) = SubSeq(ws, 3, 2 + m)
      BY <3>2 DEF Slice
    <3>4. (IF adjacency THEN Slice(ws, 3, half) ELSE Slice(ws, 3, words)) = Slice(ws, 3, m)
      <4>1. CASE adjacency
        BY <1>14, <4>1
      <4>2. CASE ~adjacency
        <5>1. words = m
          BY <1>14, <4>2
        <5> QED
          BY <4>2, <5>1
      <4> QED
        BY <4>1, <4>2
    <3> QED
      BY <3>1, <3>3, <3>4, Zenon
  <2> QED
    BY <2>1
<1>16. adjacency => DataAt(Slice(ws, 3 + half, half)) = r
  <2> SUFFICES ASSUME adjacency PROVE DataAt(Slice(ws, 3 + half, half)) = r
    OBVIOUS
  <2>1. half = m /\ n = m /\ r \in Addr
    BY <1>3, <1>12, <1>14
  <2>2. 3 + m + m - 1 = 2 + m + n
    BY <2>1
  <2> QED
    BY <1>7, <2>1, <2>2 DEF Slice
<1>17. Field(L, 2, 0) = seg.sid /\ Field(L, 3, "") = seg.attrs
  <2>1. seg.sid % LabelSpace = seg.sid
    BY CodecAssumption DEF CodecAssumption, IsSRMPLS
  <2>2. DOMAIN L = 1 .. 3 /\ L[2] = seg.sid /\ L[3] = seg.attrs
    BY <1>1, <2>1
  <2>3. 2 \in DOMAIN L /\ 3 \in DOMAIN L
    BY <2>2
  <2> QED
    BY <2>2, <2>3, Zenon DEF Field
<1>18. SREroSegment(ws) = SegmentSRMPLS(seg.sid, seg.attrs, l, r)
  <2>1. PICK a, x, y :
           /\ a = (IF "C" \in ws[1][5] THEN Field(ws[2], 3, "") ELSE "")
           /\ x = (IF "F" \in ws[1][5] \/ ws[1][4] = "Absent" THEN NoAddr
                   ELSE DataAt(IF adjacency THEN Slice(ws, 3, half) ELSE Slice(ws, 3, words)))
           /\ y = (IF ("F" \in ws[1][5] \/ ws[1][4] = "Absent") \/ ~adjacency THEN NoAddr
                   ELSE DataAt(Slice(ws, 3 + half, half)))
    OBVIOUS
  <2>2. a = seg.attrs
    BY <1>5, <1>7, <1>9, <1>17, <2>1, Zenon
  <2>3. x = l
    BY <1>3, <1>5, <1>7, <1>9, <1>15, <2>1, Zenon
  <2>4. y = r
    <3>1. ~adjacency => r = NoAddr
      BY <1>3, <1>12
    <3> QED
      BY <1>3, <1>5, <1>7, <1>9, <1>16, <2>1, <3>1, Zenon
  <2>5. /\ ws[1][4] = nai /\ adjacency = (nai \in {"IPv4Adjacency", "IPv6AdjacencyGlobal"})
    BY <1>7, <1>9, <1>12
  <2>6. SREroSegment(ws) = SegmentSRMPLS(Field(ws[2], 2, 0), a, x, y)
    BY <1>13, <2>1, <2>5, Zenon DEF SREroSegment
  <2> QED
    BY <1>7, <1>17, <2>2, <2>3, <2>4, <2>6
<1>19. SubobjectSegment(ws) = seg
  <2>1. SubobjectSegment(ws) = SREroSegment(ws)
    BY <1>7, <1>9, Zenon DEF SubobjectSegment
  <2>2. seg = SegmentSRMPLS(seg.sid, seg.attrs, seg.local, seg.remote)
    BY DEF IsSRMPLS
  <2> QED
    BY <1>1, <1>18, <2>1, <2>2, Zenon
<1>20. SubobjectLen(ws[1]) = 4 * Len(ws) /\ SREroLen(nai, flags) = 4 * Len(ws)
  BY <1>7, <1>8, <1>10
<1> QED
  BY <1>1, <1>11, <1>19, <1>20

(* A list continued: what stood in it stays, what is added follows.        *)
Longer(c, m, a, n, b) ==
    /\ Listed(b) /\ Len(b) = m + n /\ \A i \in 1 .. m : b[i] = c[i]
    /\ \A i \in 1 .. n : b[m + i] = a[i]

LEMMA JoinedIsLonger ==
    ASSUME NEW c, Listed(c), NEW a, Listed(a)
    PROVE  Longer(c, Len(c), a, Len(a), c \o a)
BY Joined DEF Longer

LEMMA Continued ==
    ASSUME NEW c, Listed(c), NEW m \in Nat, Len(c) = m, NEW a, Listed(a), NEW n \in Nat, Len(a) = n,
           NEW b, b = c \o a
    PROVE  Longer(c, m, a, n, b)
BY JoinedIsLonger

(* An SRv6-ERO subobject is as long as it says and gives its segment back. *)
SRv6Tail(seg) == IF seg.structure = "" THEN <<>> ELSE Data(seg.structure, 1) \o <<<<>>>>

SRv6Layout(ws, H, B, seg, n, t) ==
    /\ Listed(ws) /\ Len(ws) = 10 + n + t /\ ws[1] = H /\ ws[2] = B
    /\ \A j \in 1 .. 4 : ws[2 + j] = <<"data", seg.sid, j>>
    /\ \A j \in 1 .. 4 : ws[6 + j] = <<"data", seg.local, j>>
    /\ \A j \in 1 .. n : ws[10 + j] = <<"data", seg.remote, j>>
    /\ t # 0 => ws[10 + n + 1] = <<"data", seg.structure, 1>> /\ ws[10 + n + 2] = <<>>

(* The words of an SRv6-ERO subobject.                                     *)
LEMMA SRv6Words ==
    ASSUME NEW seg, IsSRv6(seg), IsAddr(seg.local), NEW H, NEW B, NEW ws,
           ws = <<H, B>> \o AsSlice(seg.sid) \o AsSlice(seg.local) \o AsSlice(seg.remote) \o SRv6Tail(seg),
           NEW n \in Nat, n = AddrLen(seg.remote),
           NEW t \in {0, 2}, t = 0 <=> SRv6Tail(seg) = <<>>
    PROVE  SRv6Layout(ws, H, B, seg, n, t)
<1>1. PICK h, s, l, r, x, c, d, e :
         /\ h = <<H, B>> /\ s = AsSlice(seg.sid) /\ l = AsSlice(seg.local)
         /\ r = AsSlice(seg.remote) /\ x = SRv6Tail(seg)
         /\ c = h \o s /\ d = c \o l /\ e = d \o r
  OBVIOUS
<1>2. seg.sid \in IPv6 /\ seg.local \in IPv6
  BY DEF IsSRv6, IsAddr
<1>3. Listed(h) /\ Len(h) = 2 /\ h[1] = H /\ h[2] = B
  <2>1. h = [i \in 1 .. 2 |-> h[i]]
    BY <1>1
  <2> QED
    BY <1>1, <2>1, ListOf
<1>4. Listed(s) /\ Len(s) = 4 /\ \A i \in 1 .. 4 : s[i] = <<"data", seg.sid, i>>
  <2>1. s = Data(seg.sid, 4)
    BY <1>1, <1>2, AddrLengths DEF AsSlice
  <2> QED
    BY <2>1, DataListed
<1>5. Listed(l) /\ Len(l) = 4 /\ \A i \in 1 .. 4 : l[i] = <<"data", seg.local, i>>
  <2>1. l = Data(seg.local, 4)
    BY <1>1, <1>2, AddrLengths DEF AsSlice
  <2> QED
    BY <2>1, DataListed
<1>6. Listed(r) /\ Len(r) = n /\ \A i \in 1 .. n : r[i] = <<"data", seg.remote, i>>
  <2>1. r = Data(seg.remote, n)
    BY <1>1 DEF AsSlice
  <2> QED
    BY <2>1, DataListed
<1>7. /\ Listed(x) /\ Len(x) = t
      /\ t # 0 => x[1] = <<"data", seg.structure, 1>> /\ x[2] = <<>>
  <2>1. CASE t = 0
    <3>1. x = <<>>
      BY <1>1, <2>1
    <3> QED
      BY <2>1, <3>1, EmptyList
  <2>2. CASE t # 0
    <3>1. PICK y, z : y = Data(seg.structure, 1) /\ z = <<<<>>>>
      OBVIOUS
    <3>2. x = y \o z
      BY <1>1, <2>2, <3>1, Zenon DEF SRv6Tail
    <3>3. Listed(y) /\ Len(y) = 1 /\ \A i \in 1 .. 1 : y[i] = <<"data", seg.structure, i>>
      BY <3>1, DataListed
    <3>4. Listed(z) /\ Len(z) = 1 /\ z[1] = <<>>
      BY <3>1, SingleList
    <3>5. Longer(y, 1, z, 1, x)
      BY <3>2, <3>3, <3>4, Continued
    <3>6. Listed(x) /\ Len(x) = 2 /\ x[1] = y[1] /\ x[1 + 1] = z[1]
      BY <3>5 DEF Longer
    <3> QED
      BY <2>2, <3>3, <3>4, <3>6
  <2> QED
    BY <2>1, <2>2
<1>8. Longer(h, 2, s, 4, c)
  BY <1>1, <1>3, <1>4, Continued
<1>9. Longer(c, 6, l, 4, d)
  <2>1. Listed(c) /\ Len(c) = 6
    BY <1>8 DEF Longer
  <2> QED
    BY <1>1, <1>5, <2>1, Continued
<1>10. Longer(d, 10, r, n, e)
  <2>1. Listed(d) /\ Len(d) = 10
    BY <1>9 DEF Longer
  <2> QED
    BY <1>1, <1>6, <2>1, Continued
<1>11. Longer(e, 10 + n, x, t, ws)
  <2>1. Listed(e) /\ Len(e) = 10 + n /\ ws = e \o x
    BY <1>1, <1>10 DEF Longer
  <2>2. PICK k \in Nat : k = 10 + n
    OBVIOUS
  <2> QED
    BY <1>7, <2>1, <2>2, Continued
<1>12. ws[1] = H /\ ws[2] = B
  <2>1. /\ c[1] = h[1] /\ c[2] = h[2] /\ d[1] = c[1] /\ d[2] = c[2] /\ e[1] = d[1] /\ e[2] = d[2]
        /\ ws[1] = e[1] /\ ws[2] = e[2]
    <3>1. /\ 1 \in 1 .. 2 /\ 2 \in 1 .. 2 /\ 1 \in 1 .. 6 /\ 2 \in 1 .. 6
          /\ 1 \in 1 .. 10 /\ 2 \in 1 .. 10 /\ 1 \in 1 .. 10 + n /\ 2 \in 1 .. 10 + n
      OBVIOUS
    <3>2. c[1] = h[1] /\ c[2] = h[2]
      BY <1>8, <3>1 DEF Longer
    <3>3. d[1] = c[1] /\ d[2] = c[2]
      BY <1>9, <3>1 DEF Longer
    <3>4. e[1] = d[1] /\ e[2] = d[2]
      BY <1>10, <3>1 DEF Longer
    <3>5. ws[1] = e[1] /\ ws[2] = e[2]
      BY <1>11, <3>1 DEF Longer
    <3> QED
      BY <3>2, <3>3, <3>4, <3>5
  <2> QED
    BY <1>3, <2>1
<1>13. \A j \in 1 .. 4 : ws[2 + j] = <<"data", seg.sid, j>>
  <2> SUFFICES ASSUME NEW j \in 1 .. 4 PROVE ws[2 + j] = <<"data", seg.sid, j>>
    OBVIOUS
  <2>1. PICK i : i = 2 + j
    OBVIOUS
  <2>2. i \in 1 .. 6 /\ i \in 1 .. 10 /\ i \in 1 .. 10 + n
    BY <2>1
  <2>3. c[2 + j] = s[j] /\ d[i] = c[i] /\ e[i] = d[i] /\ ws[i] = e[i]
    BY <1>8, <1>9, <1>10, <1>11, <2>2 DEF Longer
  <2> QED
    BY <1>4, <2>1, <2>3
<1>14. \A j \in 1 .. 4 : ws[6 + j] = <<"data", seg.local, j>>
  <2> SUFFICES ASSUME NEW j \in 1 .. 4 PROVE ws[6 + j] = <<"data", seg.local, j>>
    OBVIOUS
  <2>1. PICK i : i = 6 + j
    OBVIOUS
  <2>2. i \in 1 .. 10 /\ i \in 1 .. 10 + n
    BY <2>1
  <2>3. d[6 + j] = l[j] /\ e[i] = d[i] /\ ws[i] = e[i]
    BY <1>9, <1>10, <1>11, <2>2 DEF Longer
  <2> QED
    BY <1>5, <2>1, <2>3
<1>15. \A j \in 1 .. n : ws[10 + j] = <<"data", seg.remote, j>>
  <2> SUFFICES ASSUME NEW j \in 1 .. n PROVE ws[10 + j] = <<"data", seg.remote, j>>
    OBVIOUS
  <2>1. PICK i : i = 10 + j
    OBVIOUS
  <2>2. i \in 1 .. 10 + n
    BY <2>1
  <2>3. e[10 + j] = r[j] /\ ws[i] = e[i]
    BY <1>10, <1>11, <2>2 DEF Longer
  <2> QED
    BY <1>6, <2>1, <2>3
<1>16. t # 0 => ws[10 + n + 1] = <<"data", seg.structure, 1>> /\ ws[10 + n + 2] = <<>>
  <2> SUFFICES ASSUME t # 0
               PROVE  ws[10 + n + 1] = <<"data", seg.structure, 1>> /\ ws[10 + n + 2] = <<>>
    OBVIOUS
  <2>1. 1 \in 1 .. t /\ 2 \in 1 .. t
    OBVIOUS
  <2>2. ws[10 + n + 1] = x[1] /\ ws[10 + n + 2] = x[2]
    BY <1>11, <2>1 DEF Longer
  <2> QED
    BY <1>7, <2>2
<1>17. Listed(ws) /\ Len(ws) = 10 + n + t
  BY <1>11 DEF Longer
<1> QED
  BY <1>12, <1>13, <1>14, <1>15, <1>16, <1>17 DEF SRv6Layout

LEMMA SRv6Back ==
    ASSUME NEW seg, IsSRv6(seg), IsAddr(seg.local)
    PROVE  /\ IsText(SRv6EroWords(seg)) /\ SRv6EroWords(seg) # <<>>
           /\ SubobjectLen(SRv6EroWords(seg)[1]) = 4 * Len(SRv6EroWords(seg))
           /\ SRv6EroLen(NAITypeSRv6For(seg), SRv6EroFlags(seg)) = 4 * Len(SRv6EroWords(seg))
           /\ SubobjectSegment(SRv6EroWords(seg)) = seg
<1>1. PICK l, r, nai, flags, H, B, ws :
         /\ l = seg.local /\ r = seg.remote /\ nai = NAITypeSRv6For(seg) /\ flags = SRv6EroFlags(seg)
         /\ H = SubHdr("SRv6", SRv6EroLen(nai, flags), nai, flags)
         /\ B = <<"behavior", Behavior(seg)>> /\ ws = SRv6EroWords(seg)
  OBVIOUS
<1>2. /\ seg.sid \in IPv6 /\ l \in IPv6 /\ r \in IPv6 \cup {NoAddr} /\ seg.uSID \in BOOLEAN
      /\ NoAddr \notin Addr
  BY <1>1, CodecAssumption DEF CodecAssumption, Addr, IsSRv6, IsAddr
<1>3. PICK n \in Nat : n = AddrLen(r)
  BY AddrLengths
<1>4. /\ r = NoAddr => n = 0 /\ nai = "IPv6Node"
      /\ r # NoAddr => n = 4 /\ nai = "IPv6AdjacencyGlobal" /\ r \in IPv6
  <2>1. nai = IF r # NoAddr THEN "IPv6AdjacencyGlobal" ELSE "IPv6Node"
    BY <1>1, Zenon DEF NAITypeSRv6For, IsAddr
  <2> QED
    BY <1>2, <1>3, <2>1, AddrLengths
<1>5. PICK none : none = ""
  OBVIOUS
<1>6. PICK t \in {0, 2} : t = 0 <=> seg.structure = none
  <2>1. CASE seg.structure = none
    BY <2>1
  <2>2. CASE seg.structure # none
    BY <2>2
  <2> QED
    BY <2>1, <2>2
<1>7. "F" \notin flags /\ ("T" \in flags <=> t # 0) /\ "S" \notin flags
  <2>1. flags = (IF ~IsAddr(l) THEN {"F"} ELSE {}) \cup (IF seg.structure # none THEN {"T"} ELSE {})
    BY <1>1, <1>5, Zenon DEF SRv6EroFlags
  <2>2. IsAddr(l)
    BY <1>1, Zenon
  <2> QED
    BY <1>6, <2>1, <2>2
<1>8. SRv6EroLen(nai, flags) = 4 * (10 + n + t)
  <2>1. SRv6EroLen(nai, flags) = 8 + 16 + NAILengthSRv6[nai] + (IF t # 0 THEN 8 ELSE 0)
    BY <1>7 DEF SRv6EroLen
  <2>2. NAILengthSRv6[nai] = 16 + 4 * n
    BY <1>4 DEF NAILengthSRv6
  <2> QED
    BY <1>6, <2>1, <2>2
<1>9. SRv6Layout(ws, H, B, seg, n, t)
  <2>1. ws = <<H, B>> \o AsSlice(seg.sid) \o AsSlice(seg.local) \o AsSlice(seg.remote) \o SRv6Tail(seg)
    BY <1>1, Zenon DEF SRv6EroWords, SRv6Tail
  <2>2. t = 0 <=> SRv6Tail(seg) = <<>>
    <3>1. CASE seg.structure = none
      <4>1. SRv6Tail(seg) = <<>>
        BY <1>5, <3>1, Zenon DEF SRv6Tail
      <4> QED
        BY <1>6, <3>1, <4>1
    <3>2. CASE seg.structure # none
      <4>1. PICK y, z : y = Data(seg.structure, 1) /\ z = <<<<>>>>
        OBVIOUS
      <4>2. SRv6Tail(seg) = y \o z
        BY <1>5, <3>2, <4>1, Zenon DEF SRv6Tail
      <4>3. Listed(y) /\ Len(y) = 1
        BY <4>1, DataListed
      <4>4. Listed(z) /\ Len(z) = 1
        BY <4>1, SingleList
      <4>5. Len(y \o z) = 1 + 1
        <5>1. Longer(y, 1, z, 1, y \o z)
          BY <4>3, <4>4, Continued
        <5> QED
          BY <5>1 DEF Longer
      <4>6. y \o z # <<>>
        BY <4>5, EmptyList
      <4> QED
        BY <1>6, <3>2, <4>2, <4>6
    <3> QED
      BY <3>1, <3>2
  <2>3. n = AddrLen(seg.remote)
    BY <1>1, <1>3
  <2> QED
    BY <2>1, <2>2, <2>3, SRv6Words
<1>10. /\ Listed(ws) /\ Len(ws) = 10 + n + t /\ ws[1] = H /\ ws[2] = B
       /\ \A j \in 1 .. 4 : ws[2 + j] = <<"data", seg.sid, j>>
       /\ \A j \in 1 .. 4 : ws[6 + j] = <<"data", l, j>>
       /\ \A j \in 1 .. n : ws[10 + j] = <<"data", r, j>>
       /\ t # 0 => ws[10 + n + 1] = <<"data", seg.structure, 1>> /\ ws[10 + n + 2] = <<>>
  BY <1>1, <1>9 DEF SRv6Layout
<1>11. H[1] = "sub" /\ H[2] = "SRv6" /\ H[4] = nai /\ H[5] = flags /\ DOMAIN H = 1 .. 5
  BY <1>1 DEF SubHdr
<1>12. SubobjectLen(H) = SRv6EroLen(nai, flags)
  <2>1. Field(H, 2, "none") = "SRv6" /\ Field(H, 4, "none") = nai /\ Field(H, 5, {}) = flags
    BY <1>11 DEF Field
  <2>2. nai \in DOMAIN NAILengthSRv6
    BY <1>4 DEF NAILengthSRv6
  <2> QED
    BY <2>1, <2>2 DEF SubobjectLen
<1>13. IsText(ws) /\ ws # <<>>
  <2>1. IsWord(H) /\ IsWord(B) /\ IsWord(<<>>)
    <3>1. Field(H, 1, "zero") = "sub" /\ H # <<>>
      BY <1>11 DEF Field
    <3>2. B # <<>> /\ B[1] = "behavior" /\ 1 \in DOMAIN B
      BY <1>1
    <3>3. Field(B, 1, "zero") = "behavior"
      BY <3>2 DEF Field
    <3> QED
      BY <1>11, <3>1, <3>2, <3>3, Words DEF IsWord
  <2>2. \A d, j : IsWord(<<"data", d, j>>)
    BY DEF IsWord, Field
  <2>3. ASSUME NEW i \in 1 .. Len(ws) PROVE IsWord(ws[i])
    <3>1. CASE i = 1 \/ i = 2
      BY <1>10, <2>1, <3>1
    <3>2. CASE i > 2 /\ i <= 6
      <4>1. PICK j : j = i - 2
        OBVIOUS
      <4>2. j \in 1 .. 4 /\ 2 + j = i
        BY <3>2, <4>1
      <4>3. ws[i] = <<"data", seg.sid, j>>
        BY <1>10, <4>2
      <4> QED
        BY <2>2, <4>3
    <3>3. CASE i > 6 /\ i <= 10
      <4>1. PICK j : j = i - 6
        OBVIOUS
      <4>2. j \in 1 .. 4 /\ 6 + j = i
        BY <3>3, <4>1
      <4>3. ws[i] = <<"data", l, j>>
        BY <1>10, <4>2
      <4> QED
        BY <2>2, <4>3
    <3>4. CASE i > 10 /\ i <= 10 + n
      <4>1. PICK j : j = i - 10
        OBVIOUS
      <4>2. j \in 1 .. n /\ 10 + j = i
        BY <3>4, <4>1
      <4>3. ws[i] = <<"data", r, j>>
        BY <1>10, <4>2
      <4> QED
        BY <2>2, <4>3
    <3>5. CASE i > 10 + n
      <4>1. i = 10 + n + 1 \/ i = 10 + n + 2
        BY <1>6, <1>10, <3>5
      <4>2. t # 0
        BY <1>6, <1>10, <3>5
      <4> QED
        <5>1. ws[10 + n + 1] = <<"data", seg.structure, 1>> /\ ws[10 + n + 2] = <<>>
          BY <1>10, <4>2, Zenon
        <5>2. IsWord(ws[10 + n + 1]) /\ IsWord(ws[10 + n + 2])
          BY <2>1, <2>2, <5>1, Zenon
        <5> QED
          BY <4>1, <5>2, Zenon
    <3>6. i \in Nat /\ 1 <= i
      BY <1>10
    <3> QED
      BY <3>1, <3>2, <3>3, <3>4, <3>5, <3>6
  <2>4. Len(ws) # 0
    BY <1>6, <1>10
  <2> QED
    BY <1>10, <2>3, <2>4, ListIs DEF IsText
<1>14. DataAt(Slice(ws, 3, 4)) = seg.sid
  <2>1. 2 + 4 <= Len(ws) /\ 2 + 1 = 3 /\ 3 + 4 - 1 = 2 + 4 /\ 2 \in Nat /\ 4 \in Nat /\ 4 # 0
    BY <1>6, <1>10
  <2>2. DataAt(SubSeq(ws, 2 + 1, 2 + 4)) = seg.sid
    BY <1>10, <2>1, DataInside
  <2> QED
    BY <2>1, <2>2 DEF Slice
<1>15. DataAt(Slice(ws, 7, 4)) = l
  <2>1. 6 + 4 <= Len(ws) /\ 6 + 1 = 7 /\ 7 + 4 - 1 = 6 + 4 /\ 6 \in Nat /\ 4 \in Nat /\ 4 # 0
    BY <1>6, <1>10
  <2>2. DataAt(SubSeq(ws, 6 + 1, 6 + 4)) = l
    BY <1>10, <2>1, DataInside
  <2> QED
    BY <2>1, <2>2 DEF Slice
<1>16. r # NoAddr => DataAt(Slice(ws, 11, 4)) = r
  <2> SUFFICES ASSUME r # NoAddr PROVE DataAt(Slice(ws, 11, 4)) = r
    OBVIOUS
  <2>1. n = 4 /\ 10 + 4 <= Len(ws) /\ 10 + 1 = 11 /\ 11 + 4 - 1 = 10 + 4 /\ 10 \in Nat /\ 4 \in Nat /\ 4 # 0
    BY <1>4, <1>6, <1>10
  <2>2. \A j \in 1 .. 4 : ws[10 + j] = <<"data", r, j>>
    BY <1>10, <2>1
  <2>3. DataAt(SubSeq(ws, 10 + 1, 10 + 4)) = r
    BY <1>10, <2>1, <2>2, DataInside
  <2> QED
    BY <2>1, <2>3 DEF Slice
<1>17. t # 0 => DataAt(Slice(ws, 11 + n, 1)) = seg.structure
  <2> SUFFICES ASSUME t # 0 PROVE DataAt(Slice(ws, 11 + n, 1)) = seg.structure
    OBVIOUS
  <2>1. PICK k \in Nat : k = 10 + n
    OBVIOUS
  <2>2. k + 1 <= Len(ws) /\ k + 1 = 11 + n /\ (11 + n) + 1 - 1 = k + 1 /\ 1 \in Nat /\ 1 # 0
    BY <1>6, <1>10, <2>1
  <2>3. \A j \in 1 .. 1 : ws[k + j] = <<"data", seg.structure, j>>
    BY <1>10, <2>1
  <2>4. DataAt(SubSeq(ws, k + 1, k + 1)) = seg.structure
    <3>1. Listed(ws)
      BY <1>10
    <3> QED
      BY <3>1, <2>1, <2>2, <2>3, DataInside
  <2> QED
    BY <2>2, <2>4 DEF Slice
<1>18. (Field(B, 2, "RESERVED") \in {"UN", "UA"}) = seg.uSID
  <2>1. B[2] = Behavior(seg) /\ 2 \in DOMAIN B
    BY <1>1
  <2>2. Field(B, 2, "RESERVED") = Behavior(seg)
    BY <2>1, Zenon DEF Field
  <2>3. (Behavior(seg) \in {"UN", "UA"}) = seg.uSID
    <3>1. CASE seg.uSID
      <4>1. Behavior(seg) \in {"UN", "UA"}
        BY <3>1 DEF Behavior
      <4> QED
        BY <1>2, <3>1, <4>1
    <3>2. CASE ~seg.uSID
      <4>1. Behavior(seg) \notin {"UN", "UA"}
        BY <3>2 DEF Behavior
      <4> QED
        BY <1>2, <3>2, <4>1
    <3> QED
      BY <3>1, <3>2
  <2> QED
    BY <2>2, <2>3
<1>19. SRv6EroSegment(ws) = SegmentSRv6(seg.sid, seg.structure, seg.uSID, l, r)
  <2>1. ws[1][4] = nai /\ ws[1][5] = flags
    BY <1>10, <1>11
  <2>2. PICK afterSID, afterNAI, remoteAt :
           /\ afterSID = (IF "S" \in flags THEN 3 ELSE 7)
           /\ afterNAI = afterSID + (IF "F" \in flags THEN 0 ELSE NAILengthSRv6[nai] \div 4)
           /\ remoteAt = IF nai = "IPv6AdjacencyLinkLocal" THEN afterSID + 5 ELSE afterSID + 4
    OBVIOUS
  <2>3. afterSID = 7 /\ remoteAt = 11
    BY <1>4, <1>7, <2>2
  <2>4. afterNAI = 11 + n
    <3>1. NAILengthSRv6[nai] = 16 + 4 * n
      BY <1>4 DEF NAILengthSRv6
    <3> QED
      BY <1>7, <2>2, <2>3, <3>1
  <2>5. PICK s, x, u, y, z :
           /\ s = (IF "S" \in flags THEN NoAddr ELSE DataAt(Slice(ws, 3, 4)))
           /\ x = (IF "T" \in flags THEN DataAt(Slice(ws, afterNAI, 1)) ELSE none)
           /\ u = (Field(ws[2], 2, "RESERVED") \in {"UN", "UA"})
           /\ y = (IF "F" \in flags THEN NoAddr ELSE DataAt(Slice(ws, afterSID, 4)))
           /\ z = (IF "F" \in flags \/ nai = "IPv6Node" THEN NoAddr
                   ELSE DataAt(Slice(ws, remoteAt, 4)))
    OBVIOUS
  <2>6. s = seg.sid
    BY <1>7, <1>14, <2>5, Zenon
  <2>7. x = seg.structure
    BY <1>6, <1>7, <1>17, <2>4, <2>5, Zenon
  <2>8. u = seg.uSID
    BY <1>10, <1>18, <2>5
  <2>9. y = l
    BY <1>7, <1>15, <2>3, <2>5, Zenon
  <2>10. z = r
    <3>1. CASE r = NoAddr
      BY <1>4, <2>5, <3>1, Zenon
    <3>2. CASE r # NoAddr
      <4>1. nai # "IPv6Node"
        BY <1>4, <3>2
      <4> QED
        BY <1>7, <1>16, <2>3, <2>5, <3>2, <4>1, Zenon
    <3> QED
      BY <3>1, <3>2
  <2>11. SRv6EroSegment(ws) = SegmentSRv6(s, x, u, y, z)
    BY <1>5, <2>1, <2>2, <2>5, Zenon DEF SRv6EroSegment
  <2> QED
    BY <2>6, <2>7, <2>8, <2>9, <2>10, <2>11
<1>20. SubobjectSegment(ws) = seg
  <2>1. SubobjectSegment(ws) = SRv6EroSegment(ws)
    BY <1>10, <1>11 DEF SubobjectSegment
  <2>2. seg = SegmentSRv6(seg.sid, seg.structure, seg.uSID, seg.local, seg.remote)
    BY DEF IsSRv6
  <2> QED
    BY <1>1, <1>19, <2>1, <2>2, Zenon
<1>21. SubobjectLen(ws[1]) = 4 * Len(ws) /\ SRv6EroLen(nai, flags) = 4 * Len(ws)
  BY <1>8, <1>10, <1>12
<1> QED
  BY <1>1, <1>13, <1>20, <1>21

------------------------------------------------------------------------------
(* Lengths                                                                 *)

(* The first part, then the rest.                                          *)
LEMMA FlattenCons ==
    ASSUME NEW parts, Parts(parts), parts # <<>>
    PROVE  /\ FlattenSeq(parts) = parts[1] \o FlattenSeq(Tail(parts))
           /\ Parts(Tail(parts)) /\ Len(parts) = Len(Tail(parts)) + 1 /\ Listed(parts[1])
           /\ \A i \in 1 .. Len(Tail(parts)) : Tail(parts)[i] = parts[i + 1]
<1>1. Listed(parts) /\ \A i \in 1 .. Len(parts) : Listed(parts[i])
  BY DEF Parts
<1>2. Len(parts) \in Nat /\ Len(parts) # 0
  BY <1>1, ListIs
<1>3. /\ Listed(Tail(parts)) /\ Len(Tail(parts)) = Len(parts) - 1
      /\ \A i \in 1 .. Len(parts) - 1 : Tail(parts)[i] = parts[i + 1]
  BY <1>1, TailOf
<1>4. Parts(Tail(parts)) /\ Len(parts) = Len(Tail(parts)) + 1
  BY <1>1, <1>2, <1>3 DEF Parts
<1>5. FlattenSeq(parts) = parts[1] \o FlattenSeq(Tail(parts))
  BY <1>3, <1>4, FlattenFirst
<1> QED
  BY <1>1, <1>2, <1>3, <1>4, <1>5

(* What joins texts is a text.                                             *)
Texts(parts) == Listed(parts) /\ \A i \in 1 .. Len(parts) : IsText(parts[i])

(* Texts are parts.                                                        *)
LEMMA TextsAreParts ==
    ASSUME NEW parts, Texts(parts)
    PROVE  Parts(parts)
BY DEF Texts, Parts, IsText

(* Texts join to a text.                                                   *)
LEMMA TextsJoined ==
    ASSUME NEW parts, Texts(parts)
    PROVE  IsText(FlattenSeq(parts))
<1> DEFINE N == {n \in Nat : \A p : Texts(p) /\ Len(p) = n => IsText(FlattenSeq(p))}
<1>1. 0 \in N
  <2> SUFFICES ASSUME NEW p, Texts(p), Len(p) = 0 PROVE IsText(FlattenSeq(p))
    OBVIOUS
  <2>1. p = <<>>
    BY ListIs DEF Texts
  <2> QED
    BY <2>1, FlattenNone, NoText
<1>2. ASSUME NEW n \in Nat, n \in N PROVE n + 1 \in N
  <2> SUFFICES ASSUME NEW p, Texts(p), Len(p) = n + 1 PROVE IsText(FlattenSeq(p))
    OBVIOUS
  <2>1. p # <<>> /\ Parts(p)
    BY EmptyList, TextsAreParts
  <2>2. /\ FlattenSeq(p) = p[1] \o FlattenSeq(Tail(p))
        /\ Parts(Tail(p)) /\ Len(p) = Len(Tail(p)) + 1
        /\ \A i \in 1 .. Len(Tail(p)) : Tail(p)[i] = p[i + 1]
    BY <2>1, FlattenCons
  <2>3. PICK q : q = Tail(p)
    OBVIOUS
  <2>4. Listed(q) /\ Len(q) \in Nat
    BY <2>2, <2>3, ListIs DEF Parts
  <2>5. Len(q) = n
    BY <2>2, <2>3, <2>4
  <2>6. ASSUME NEW i \in 1 .. n PROVE IsText(q[i])
    <3>1. PICK j : j = i + 1
      OBVIOUS
    <3>2. j \in 1 .. Len(p) /\ q[i] = p[j]
      BY <2>2, <2>3, <2>5, <3>1
    <3> QED
      BY <3>2 DEF Texts
  <2>7. IsText(FlattenSeq(q))
    BY <1>2, <2>4, <2>5, <2>6 DEF Texts
  <2>8. IsText(p[1])
    <3>1. 1 \in 1 .. Len(p)
      OBVIOUS
    <3> QED
      BY <3>1 DEF Texts
  <2> QED
    BY <2>2, <2>3, <2>7, <2>8, TextJoined
<1>3. \A n \in Nat : n \in N
  <2> HIDE DEF N
  <2> QED
    BY <1>1, <1>2, InductionOverSet
<1>4. PICK n \in Nat : n = Len(parts)
  BY ListIs DEF Texts
<1>5. n \in N
  <2> HIDE DEF N
  <2> QED
    BY <1>3
<1> QED
  BY <1>4, <1>5

(* A running sum.                                                          *)
SumAt(f, i, lens) == IF i = 0 THEN 0 ELSE f[i - 1] + lens[i]

IsSum(f, n, lens) == f = [i \in 0 .. n |-> SumAt(f, i, lens)]

(* The running sum over a list of lengths, as a function of their number.  *)
LEMMA SumExists ==
    ASSUME NEW n \in Nat, NEW lens
    PROVE  \E f : IsSum(f, n, lens)
<1> DEFINE Right(h, k) == \A i \in 0 .. n : i <= k => h[i] = SumAt(h, i, lens)
           N == {k \in Nat : \E h : Right(h, k)}
<1>1. 0 \in N
  <2>1. Right([i \in 0 .. n |-> 0], 0)
    BY DEF SumAt
  <2> QED
    BY <2>1
<1>2. ASSUME NEW k \in Nat, k \in N PROVE k + 1 \in N
  <2>1. PICK h : Right(h, k)
    BY <1>2
  <2>2. PICK g : g = [i \in 0 .. n |-> IF i = k + 1 THEN SumAt(h, k + 1, lens) ELSE h[i]]
    OBVIOUS
  <2>3. \A i \in 0 .. n : g[i] = IF i = k + 1 THEN SumAt(h, k + 1, lens) ELSE h[i]
    BY <2>2
  <2>4. ASSUME NEW i \in 0 .. n, i <= k + 1 PROVE g[i] = SumAt(g, i, lens)
    <3>1. SumAt(g, i, lens) = SumAt(h, i, lens)
      <4>1. CASE i = 0
        BY <4>1 DEF SumAt
      <4>2. CASE i # 0
        <5>1. PICK j : j = i - 1
          OBVIOUS
        <5>2. j \in 0 .. n /\ j # k + 1
          BY <2>4, <4>2, <5>1
        <5>3. g[j] = h[j]
          BY <2>3, <5>2
        <5> QED
          BY <4>2, <5>1, <5>3 DEF SumAt
      <4> QED
        BY <4>1, <4>2
    <3>2. CASE i = k + 1
      BY <2>3, <3>1, <3>2
    <3>3. CASE i # k + 1
      BY <2>1, <2>3, <2>4, <3>1, <3>3
    <3> QED
      BY <3>2, <3>3
  <2> QED
    BY <2>4
<1>3. \A k \in Nat : k \in N
  <2> HIDE DEF N
  <2> QED
    BY <1>1, <1>2, InductionOverSet
<1>4. PICK h : \A i \in 0 .. n : h[i] = SumAt(h, i, lens)
  <2>1. n \in N
    BY <1>3
  <2>2. PICK h : Right(h, n)
    BY <2>1
  <2> QED
    BY <2>2
<1>5. PICK f : f = [i \in 0 .. n |-> h[i]]
  OBVIOUS
<1>6. ASSUME NEW i \in 0 .. n PROVE f[i] = SumAt(f, i, lens)
  <2>1. CASE i = 0
    BY <1>4, <1>5, <2>1 DEF SumAt
  <2>2. CASE i # 0
    <3>1. PICK j : j = i - 1
      OBVIOUS
    <3>2. j \in 0 .. n
      BY <2>2, <3>1
    <3>3. f[j] = h[j] /\ f[i] = SumAt(h, i, lens)
      BY <1>4, <1>5, <3>2
    <3> QED
      BY <2>2, <3>1, <3>3 DEF SumAt
  <2> QED
    BY <2>1, <2>2
<1> QED
  BY <1>5, <1>6 DEF IsSum

(* Lengths that agree with the parts add up to the length of the whole.    *)
Measures(lens, parts) ==
    Parts(parts) /\ \A i \in 1 .. Len(parts) : lens[i] = 4 * Len(parts[i])

LEMMA SumOfParts ==
    ASSUME NEW f, NEW n, NEW lens, NEW parts, IsSum(f, n, lens), Measures(lens, parts), n = Len(parts)
    PROVE  f[n] = 4 * Len(FlattenSeq(parts))
<1>1. n \in Nat
  BY ListIs DEF Measures, Parts
<1>2. \A i \in 0 .. n : f[i] = SumAt(f, i, lens)
  BY DEF IsSum
<1>3. CASE n = 0
  <2>1. parts = <<>>
    BY <1>3, ListIs DEF Measures, Parts
  <2>2. 0 \in 0 .. n
    BY <1>1
  <2>3. f[0] = 0
    BY <1>2, <2>2 DEF SumAt
  <2> QED
    BY <1>3, <2>1, <2>3, FlattenNone, EmptyList
<1>4. CASE n # 0
  <2>1. Parts(parts) /\ parts # <<>>
    BY <1>4, EmptyList DEF Measures
  <2>2. PICK g : /\ FlattenSeq(parts) = g[n] /\ g[1] = parts[1]
                 /\ \A i \in 1 .. n - 1 : g[i + 1] = g[i] \o parts[i + 1]
    BY <2>1, FlattenUnfolds
  <2> DEFINE Ok(b) == Listed(g[b]) /\ f[b] = 4 * Len(g[b])
             N == {k \in Nat : \A b \in 1 .. n : b = k + 1 => Ok(b)}
  <2>3. \A i \in 1 .. n : Listed(parts[i]) /\ Len(parts[i]) \in Nat /\ lens[i] = 4 * Len(parts[i])
    BY <2>1, ListIs DEF Measures, Parts
  <2>4. 0 \in N
    <3>1. 1 \in 1 .. n /\ 0 \in 0 .. n /\ 1 \in 0 .. n
      BY <1>1, <1>4
    <3>2. f[0] = 0 /\ f[1] = f[1 - 1] + lens[1]
      BY <1>2, <3>1 DEF SumAt
    <3>3. f[1] = 4 * Len(parts[1])
      BY <2>3, <3>1, <3>2
    <3>4. Ok(1)
      BY <2>2, <2>3, <3>1, <3>3
    <3> HIDE DEF Ok
    <3> QED
      BY <3>4
  <2>5. ASSUME NEW k \in Nat, k \in N PROVE k + 1 \in N
    <3> SUFFICES ASSUME NEW b \in 1 .. n, b = (k + 1) + 1 PROVE Ok(b)
      <4> HIDE DEF Ok
      <4> QED
        OBVIOUS
    <3>1. PICK a : a = k + 1
      OBVIOUS
    <3>2. a \in 1 .. n - 1 /\ a \in 1 .. n /\ b = a + 1 /\ b # 0 /\ b - 1 = a /\ b \in 0 .. n
      BY <3>1
    <3>3. Ok(a)
      <4> HIDE DEF Ok
      <4> QED
        BY <2>5, <3>1, <3>2
    <3>4. g[b] = g[a] \o parts[b]
      BY <2>2, <3>2
    <3>5. Listed(g[a]) /\ Listed(parts[b])
      BY <2>3, <3>3
    <3>6. Listed(g[b]) /\ Len(g[b]) = Len(g[a]) + Len(parts[b])
      BY <3>4, <3>5, Joined
    <3>7. f[b] = f[a] + lens[b]
      BY <1>2, <3>2 DEF SumAt
    <3>8. Len(g[a]) \in Nat
      BY <3>5, ListIs
    <3>9. PICK x \in Nat, y \in Nat : x = Len(g[a]) /\ y = Len(parts[b])
      BY <2>3, <3>8
    <3>10. f[a] = 4 * x /\ lens[b] = 4 * y /\ Len(g[b]) = x + y
      BY <2>3, <3>3, <3>6, <3>9
    <3>11. PICK z : z = Len(g[b])
      OBVIOUS
    <3>12. f[b] = 4 * x + 4 * y /\ z = x + y
      BY <3>7, <3>10, <3>11
    <3>13. f[b] = 4 * z
      BY <3>12
    <3> QED
      BY <3>6, <3>11, <3>13
  <2>6. \A k \in Nat : k \in N
    <3> HIDE DEF N
    <3> QED
      BY <2>4, <2>5, InductionOverSet
  <2>7. PICK k \in Nat : k + 1 = n
    <3>1. n - 1 \in Nat /\ (n - 1) + 1 = n
      BY <1>1, <1>4
    <3> QED
      BY <3>1
  <2>8. Ok(n)
    <3>1. k \in N /\ n \in 1 .. n
      <4> HIDE DEF N
      <4> QED
        BY <1>1, <1>4, <2>6
    <3> HIDE DEF Ok
    <3> QED
      BY <2>7, <3>1
  <2> QED
    BY <2>2, <2>8
<1> QED
  BY <1>3, <1>4

(* TotalLen of the subobjects is the length of their words.                *)
LEMMA SegmentsTotal ==
    ASSUME NEW seq, NEW parts, Parts(parts), Listed(seq), Len(parts) = Len(seq),
           \A i \in 1 .. Len(seq) : EroSubobjectLen(seq[i]) = 4 * Len(parts[i])
    PROVE  TotalLen(seq, EroSubobjectLen) = 4 * Len(FlattenSeq(parts))
<1> DEFINE P(h) == h = [i \in 0 .. Len(seq) |-> IF i = 0 THEN 0 ELSE h[i - 1] + EroSubobjectLen(seq[i])]
<1>1. TotalLen(seq, EroSubobjectLen) = (CHOOSE h : P(h))[Len(seq)]
  BY DEF TotalLen
<1>2. Len(seq) \in Nat
  BY ListIs
<1>3. PICK lens : lens = [i \in 1 .. Len(seq) |-> EroSubobjectLen(seq[i])]
  OBVIOUS
<1>4. PICK n \in Nat : n = Len(seq)
  BY <1>2
<1>5. ASSUME NEW h PROVE P(h) <=> IsSum(h, n, lens)
  <2>1. ASSUME NEW i \in 0 .. n
        PROVE  SumAt(h, i, lens) = IF i = 0 THEN 0 ELSE h[i - 1] + EroSubobjectLen(seq[i])
    <3>1. CASE i = 0
      BY <3>1 DEF SumAt
    <3>2. CASE i # 0
      <4>1. i \in 1 .. Len(seq)
        BY <1>4, <3>2
      <4>2. lens[i] = EroSubobjectLen(seq[i])
        BY <1>3, <4>1, Zenon
      <4> QED
        BY <3>2, <4>2, Zenon DEF SumAt
    <3> QED
      BY <3>1, <3>2
  <2> QED
    BY <1>4, <2>1, Zenon DEF IsSum
<1>6. P(CHOOSE h : P(h))
  <2>1. PICK g : IsSum(g, n, lens)
    BY SumExists
  <2> HIDE DEF P
  <2> QED
    BY <1>5, <2>1
<1>7. Measures(lens, parts)
  <2>1. ASSUME NEW i \in 1 .. Len(parts) PROVE lens[i] = 4 * Len(parts[i])
    <3>1. i \in 1 .. Len(seq)
      OBVIOUS
    <3>2. lens[i] = EroSubobjectLen(seq[i])
      BY <1>3, <3>1, Zenon
    <3> QED
      BY <3>1, <3>2, Zenon
  <2> QED
    BY <2>1 DEF Measures
<1>8. PICK f : f = CHOOSE h : P(h)
  OBVIOUS
<1> HIDE DEF P
<1>9. IsSum(f, n, lens) /\ TotalLen(seq, EroSubobjectLen) = f[n]
  BY <1>1, <1>4, <1>5, <1>6, <1>8
<1>10. f[n] = 4 * Len(FlattenSeq(parts))
  BY <1>4, <1>7, <1>9, SumOfParts
<1> QED
  BY <1>9, <1>10

(* TotalLen of the TLVs is the length of their words.                      *)
LEMMA TLVsTotal ==
    ASSUME NEW seq, NEW parts, Parts(parts), Listed(seq), Len(parts) = Len(seq),
           \A i \in 1 .. Len(seq) : TLVLen(seq[i]) = 4 * Len(parts[i])
    PROVE  TotalLen(seq, TLVLen) = 4 * Len(FlattenSeq(parts))
<1> DEFINE P(h) == h = [i \in 0 .. Len(seq) |-> IF i = 0 THEN 0 ELSE h[i - 1] + TLVLen(seq[i])]
<1>1. TotalLen(seq, TLVLen) = (CHOOSE h : P(h))[Len(seq)]
  BY DEF TotalLen
<1>2. Len(seq) \in Nat
  BY ListIs
<1>3. PICK lens : lens = [i \in 1 .. Len(seq) |-> TLVLen(seq[i])]
  OBVIOUS
<1>4. PICK n \in Nat : n = Len(seq)
  BY <1>2
<1>5. ASSUME NEW h PROVE P(h) <=> IsSum(h, n, lens)
  <2>1. ASSUME NEW i \in 0 .. n
        PROVE  SumAt(h, i, lens) = IF i = 0 THEN 0 ELSE h[i - 1] + TLVLen(seq[i])
    <3>1. CASE i = 0
      BY <3>1 DEF SumAt
    <3>2. CASE i # 0
      <4>1. i \in 1 .. Len(seq)
        BY <1>4, <3>2
      <4>2. lens[i] = TLVLen(seq[i])
        BY <1>3, <4>1, Zenon
      <4> QED
        BY <3>2, <4>2, Zenon DEF SumAt
    <3> QED
      BY <3>1, <3>2
  <2> QED
    BY <1>4, <2>1, Zenon DEF IsSum
<1>6. P(CHOOSE h : P(h))
  <2>1. PICK g : IsSum(g, n, lens)
    BY SumExists
  <2> HIDE DEF P
  <2> QED
    BY <1>5, <2>1
<1>7. Measures(lens, parts)
  <2>1. ASSUME NEW i \in 1 .. Len(parts) PROVE lens[i] = 4 * Len(parts[i])
    <3>1. i \in 1 .. Len(seq)
      OBVIOUS
    <3>2. lens[i] = TLVLen(seq[i])
      BY <1>3, <3>1, Zenon
    <3> QED
      BY <3>1, <3>2, Zenon
  <2> QED
    BY <2>1 DEF Measures
<1>8. PICK f : f = CHOOSE h : P(h)
  OBVIOUS
<1> HIDE DEF P
<1>9. IsSum(f, n, lens) /\ TotalLen(seq, TLVLen) = f[n]
  BY <1>1, <1>4, <1>5, <1>6, <1>8
<1>10. f[n] = 4 * Len(FlattenSeq(parts))
  BY <1>4, <1>7, <1>9, SumOfParts
<1> QED
  BY <1>9, <1>10

(* TotalLen of the objects is the length of their words.                   *)
LEMMA ObjectsTotal ==
    ASSUME NEW seq, NEW parts, Parts(parts), Listed(seq), Len(parts) = Len(seq),
           \A i \in 1 .. Len(seq) : ObjectLen(seq[i]) = 4 * Len(parts[i])
    PROVE  TotalLen(seq, ObjectLen) = 4 * Len(FlattenSeq(parts))
<1> DEFINE P(h) == h = [i \in 0 .. Len(seq) |-> IF i = 0 THEN 0 ELSE h[i - 1] + ObjectLen(seq[i])]
<1>1. TotalLen(seq, ObjectLen) = (CHOOSE h : P(h))[Len(seq)]
  BY DEF TotalLen
<1>2. Len(seq) \in Nat
  BY ListIs
<1>3. PICK lens : lens = [i \in 1 .. Len(seq) |-> ObjectLen(seq[i])]
  OBVIOUS
<1>4. PICK n \in Nat : n = Len(seq)
  BY <1>2
<1>5. ASSUME NEW h PROVE P(h) <=> IsSum(h, n, lens)
  <2>1. ASSUME NEW i \in 0 .. n
        PROVE  SumAt(h, i, lens) = IF i = 0 THEN 0 ELSE h[i - 1] + ObjectLen(seq[i])
    <3>1. CASE i = 0
      BY <3>1 DEF SumAt
    <3>2. CASE i # 0
      <4>1. i \in 1 .. Len(seq)
        BY <1>4, <3>2
      <4>2. lens[i] = ObjectLen(seq[i])
        BY <1>3, <4>1, Zenon
      <4> QED
        BY <3>2, <4>2, Zenon DEF SumAt
    <3> QED
      BY <3>1, <3>2
  <2> QED
    BY <1>4, <2>1, Zenon DEF IsSum
<1>6. P(CHOOSE h : P(h))
  <2>1. PICK g : IsSum(g, n, lens)
    BY SumExists
  <2> HIDE DEF P
  <2> QED
    BY <1>5, <2>1
<1>7. Measures(lens, parts)
  <2>1. ASSUME NEW i \in 1 .. Len(parts) PROVE lens[i] = 4 * Len(parts[i])
    <3>1. i \in 1 .. Len(seq)
      OBVIOUS
    <3>2. lens[i] = ObjectLen(seq[i])
      BY <1>3, <3>1, Zenon
    <3> QED
      BY <3>1, <3>2, Zenon
  <2> QED
    BY <2>1 DEF Measures
<1>8. PICK f : f = CHOOSE h : P(h)
  OBVIOUS
<1> HIDE DEF P
<1>9. IsSum(f, n, lens) /\ TotalLen(seq, ObjectLen) = f[n]
  BY <1>1, <1>4, <1>5, <1>6, <1>8
<1>10. f[n] = 4 * Len(FlattenSeq(parts))
  BY <1>4, <1>7, <1>9, SumOfParts
<1> QED
  BY <1>9, <1>10

------------------------------------------------------------------------------
(* The ERO                                                                 *)

(* A list all of whose elements are marked is kept whole.                  *)
LEMMA KeptWhole ==
    ASSUME NEW parts, NEW s, Marked(parts, s), \A i \in 1 .. Len(s) : parts[i] = <<s[i]>>
    PROVE  FlattenSeq(parts) = s
<1>1. IsKept(FlattenSeq(parts), parts, s)
  BY KeptIs
<1>2. \A i \in 1 .. Len(s) : <<s[i]>> # <<>>
  OBVIOUS
<1> QED
  BY <1>1, <1>2 DEF IsKept

(* A segment is read back from the subobject written for it.               *)
LEMMA SegmentBack ==
    ASSUME NEW seg, IsSegment(seg), Encodable(seg)
    PROVE  LET ws == EroSubobjectWords(seg)
           IN  /\ IsText(ws) /\ ws # <<>> /\ SubobjectLen(ws[1]) = 4 * Len(ws)
               /\ EroSubobjectLen(seg) = 4 * Len(ws)
               /\ SubobjectSegment(ws) = seg /\ seg.family # "RSVP"
<1>1. CASE IsSRMPLS(seg)
  <2>1. seg.family = "SRMPLS"
    BY <1>1 DEF IsSRMPLS, SegmentSRMPLS
  <2>2. NAITypeSRFor(seg) # "error"
    BY <2>1 DEF Encodable
  <2>3. EroSubobjectWords(seg) = SREroWords(seg)
    BY <2>1 DEF EroSubobjectWords
  <2>4. EroSubobjectLen(seg) = SREroLen(NAITypeSRFor(seg), SREroFlags(seg))
    BY <2>1 DEF EroSubobjectLen
  <2>5. seg.family # "RSVP"
    BY <2>1
  <2> QED
    BY <1>1, <2>2, <2>3, <2>4, <2>5, SRBack, Zenon
<1>2. CASE IsSRv6(seg)
  <2>1. seg.family = "SRv6"
    BY <1>2 DEF IsSRv6, SegmentSRv6
  <2>2. IsAddr(seg.local)
    BY <2>1 DEF Encodable
  <2>3. EroSubobjectWords(seg) = SRv6EroWords(seg)
    BY <2>1 DEF EroSubobjectWords
  <2>4. EroSubobjectLen(seg) = SRv6EroLen(NAITypeSRv6For(seg), SRv6EroFlags(seg))
    BY <2>1 DEF EroSubobjectLen
  <2>5. seg.family # "RSVP"
    BY <2>1
  <2> QED
    BY <1>2, <2>2, <2>3, <2>4, <2>5, SRv6Back, Zenon
<1> QED
  BY <1>1, <1>2 DEF IsSegment

(* A path Pola can encode, and the words of its subobjects.                *)
EncodablePath(segs) ==
    Listed(segs) /\ \A i \in 1 .. Len(segs) : IsSegment(segs[i]) /\ Encodable(segs[i])

SubobjectsOf(p, segs) ==
    /\ EncodablePath(segs) /\ Listed(p) /\ Len(p) = Len(segs)
    /\ \A i \in 1 .. Len(segs) : p[i] = EroSubobjectWords(segs[i])

(* The subobjects of a path are texts as long as their lengths say.        *)
LEMMA SubobjectTexts ==
    ASSUME NEW p, NEW segs, SubobjectsOf(p, segs)
    PROVE  /\ Texts(p) /\ Parts(p)
           /\ \A i \in 1 .. Len(segs) : EroSubobjectLen(segs[i]) = 4 * Len(p[i])
<1>1. ASSUME NEW i \in 1 .. Len(segs)
      PROVE  IsText(p[i]) /\ EroSubobjectLen(segs[i]) = 4 * Len(p[i])
  <2>1. IsSegment(segs[i]) /\ Encodable(segs[i]) /\ p[i] = EroSubobjectWords(segs[i])
    BY DEF SubobjectsOf, EncodablePath
  <2> QED
    BY <2>1, SegmentBack
<1>2. Texts(p)
  BY <1>1 DEF Texts, SubobjectsOf
<1> QED
  BY <1>1, <1>2, TextsAreParts

(* A path is read back from the subobjects written for it.                 *)
LEMMA PathBack ==
    ASSUME NEW p, NEW segs, SubobjectsOf(p, segs)
    PROVE  EroSegments(FlattenSeq(p)) = segs
<1> DEFINE N == {n \in Nat : \A q, s : SubobjectsOf(q, s) /\ Len(s) = n
                                         => EroSegments(FlattenSeq(q)) = s}
<1>1. 0 \in N
  <2> SUFFICES ASSUME NEW q, NEW s, SubobjectsOf(q, s), Len(s) = 0
               PROVE  EroSegments(FlattenSeq(q)) = s
    OBVIOUS
  <2>1. q = <<>> /\ s = <<>>
    BY ListIs DEF SubobjectsOf, EncodablePath
  <2> QED
    BY <2>1, FlattenNone, NoSegments
<1>2. ASSUME NEW n \in Nat, n \in N PROVE n + 1 \in N
  <2> SUFFICES ASSUME NEW q, NEW s, SubobjectsOf(q, s), Len(s) = n + 1
               PROVE  EroSegments(FlattenSeq(q)) = s
    OBVIOUS
  <2>1. /\ Listed(q) /\ Listed(s) /\ Len(q) = n + 1
        /\ \A i \in 1 .. n + 1 : /\ IsSegment(s[i]) /\ Encodable(s[i])
                                 /\ q[i] = EroSubobjectWords(s[i])
    BY DEF SubobjectsOf, EncodablePath
  <2>2. q # <<>> /\ s # <<>>
    BY <2>1, ListIs
  <2>3. Texts(q) /\ Parts(q)
    BY SubobjectTexts
  <2>4. /\ FlattenSeq(q) = q[1] \o FlattenSeq(Tail(q))
        /\ Parts(Tail(q)) /\ Len(q) = Len(Tail(q)) + 1 /\ Listed(q[1])
        /\ \A i \in 1 .. Len(Tail(q)) : Tail(q)[i] = q[i + 1]
    BY <2>2, <2>3, FlattenCons
  <2>5. /\ Listed(Tail(s)) /\ Len(Tail(s)) = (n + 1) - 1
        /\ \A i \in 1 .. (n + 1) - 1 : Tail(s)[i] = s[i + 1]
    BY <2>1, <2>2, TailOf
  <2>6. PICK r, t : r = Tail(q) /\ t = Tail(s)
    OBVIOUS
  <2>7. Listed(r) /\ Len(r) \in Nat
    BY <2>4, <2>6, ListIs DEF Parts
  <2>8. /\ Len(r) = n /\ Listed(t) /\ Len(t) = n
        /\ \A i \in 1 .. n : r[i] = q[i + 1] /\ t[i] = s[i + 1]
    BY <2>1, <2>4, <2>5, <2>6, <2>7
  <2>9. ASSUME NEW i \in 1 .. n
        PROVE  IsSegment(t[i]) /\ Encodable(t[i]) /\ r[i] = EroSubobjectWords(t[i])
    <3>1. PICK j \in 1 .. n + 1 : j = i + 1
      OBVIOUS
    <3>2. r[i] = q[j] /\ t[i] = s[j]
      BY <2>8, <3>1
    <3> QED
      BY <2>1, <3>2
  <2>10. SubobjectsOf(r, t)
    BY <2>7, <2>8, <2>9 DEF SubobjectsOf, EncodablePath
  <2>11. EroSegments(FlattenSeq(r)) = t
    BY <1>2, <2>8, <2>10
  <2>12. Listed(FlattenSeq(r))
    BY <2>4, <2>6, FlattenListed
  <2>13. 1 \in 1 .. n + 1
    OBVIOUS
  <2>14. PICK w : w = q[1]
    OBVIOUS
  <2>15. /\ IsText(w) /\ w # <<>> /\ SubobjectLen(w[1]) = 4 * Len(w)
         /\ SubobjectSegment(w) = s[1]
    BY <2>1, <2>13, <2>14, SegmentBack
  <2>16. EroSegments(w \o FlattenSeq(r)) = <<SubobjectSegment(w)>> \o EroSegments(FlattenSeq(r))
    BY <2>12, <2>15, SegmentsFirst DEF IsText
  <2>17. s = <<s[1]>> \o t
    BY <2>1, <2>2, <2>6, ConsOf
  <2> QED
    BY <2>4, <2>6, <2>11, <2>14, <2>15, <2>16, <2>17
<1>3. \A n \in Nat : n \in N
  <2> HIDE DEF N
  <2> QED
    BY <1>1, <1>2, InductionOverSet
<1>4. PICK n \in Nat : n = Len(segs)
  BY ListIs DEF SubobjectsOf, EncodablePath
<1>5. n \in N
  <2> HIDE DEF N
  <2> QED
    BY <1>3
<1> QED
  BY <1>4, <1>5

(* The ERO of a path: as long as its header says, and the path again.      *)
LEMMA EroBack ==
    ASSUME NEW segs, EncodablePath(segs), NEW o, o = EroObject(segs)
    PROVE  /\ IsText(EroBody(o)) /\ EroLen(o) = 4 + 4 * Len(EroBody(o))
           /\ ToSegmentList(EroBody(o)) = segs
<1>1. PICK p : p = [i \in 1 .. Len(segs) |-> EroSubobjectWords(segs[i])]
  OBVIOUS
<1>2. PICK n \in Nat : n = Len(segs)
  BY ListIs DEF EncodablePath
<1>3. Listed(p) /\ Len(p) = n
  <2>1. p = [i \in 1 .. n |-> p[i]]
    BY <1>1, <1>2
  <2> QED
    BY <2>1, ListOf
<1>4. SubobjectsOf(p, segs)
  <2>1. \A i \in 1 .. Len(segs) : p[i] = EroSubobjectWords(segs[i])
    BY <1>1
  <2> QED
    BY <1>2, <1>3, <2>1 DEF SubobjectsOf
<1>5. o.segs = segs
  BY DEF EroObject
<1>6. EroBody(o) = FlattenSeq(p)
  BY <1>1, <1>5 DEF EroBody
<1>7. /\ Texts(p) /\ Parts(p)
      /\ \A i \in 1 .. Len(segs) : EroSubobjectLen(segs[i]) = 4 * Len(p[i])
  BY <1>4, SubobjectTexts
<1>8. IsText(EroBody(o))
  BY <1>6, <1>7, TextsJoined
<1>9. TotalLen(segs, EroSubobjectLen) = 4 * Len(FlattenSeq(p))
  BY <1>2, <1>3, <1>7, SegmentsTotal DEF EncodablePath
<1>10. EroLen(o) = 4 + 4 * Len(EroBody(o))
  BY <1>5, <1>6, <1>9 DEF EroLen
<1>11. EroSegments(EroBody(o)) = segs
  BY <1>4, <1>6, PathBack
<1>12. ToSegmentList(EroBody(o)) = segs
  <2>1. PICK q : q = [i \in 1 .. Len(segs) |-> IF segs[i].family # "RSVP" THEN <<segs[i]>> ELSE <<>>]
    OBVIOUS
  <2>2. ASSUME NEW i \in 1 .. Len(segs) PROVE q[i] = <<segs[i]>>
    <3>1. segs[i].family # "RSVP"
      BY SegmentBack DEF EncodablePath
    <3> QED
      BY <2>1, <3>1
  <2>3. Listed(q) /\ Len(q) = n
    <3>1. q = [i \in 1 .. n |-> q[i]]
      BY <1>2, <2>1
    <3> QED
      BY <3>1, ListOf
  <2>4. Marked(q, segs)
    BY <1>2, <2>2, <2>3 DEF Marked, EncodablePath
  <2>5. FlattenSeq(q) = segs
    BY <2>2, <2>4, KeptWhole
  <2> QED
    BY <1>11, <2>1, <2>5 DEF ToSegmentList, Keep
<1> QED
  BY <1>8, <1>10, <1>12

------------------------------------------------------------------------------
(* TLVs: written and read                                                  *)

(* A TLV that fills the words its length says and is read as what it is.   *)
TLVFramed(t) ==
    /\ ~HoldsTLVs(t) /\ PlainLength(t) \in Nat /\ IsText(PlainValue(t))
    /\ Len(PlainValue(t)) = PaddedWords(PlainLength(t)) /\ t # ErrorTLV

TLVBack(t) ==
    TLVFramed(t) /\ DecodeTLV(WireType(t), PlainLength(t), PlainValue(t)) = t

(* The words that octets are padded to.                                    *)
LEMMA Padding ==
    /\ PaddedWords(4) = 1 /\ PaddedWords(8) = 2 /\ PaddedWords(20) = 5 /\ PaddedWords(28) = 7
    /\ \A n \in Nat : PaddedWords(n) \in Nat
BY DEF PaddedWords

(* A Color TLV is read back.                                               *)
LEMMA ColorBack ==
    ASSUME NEW color
    PROVE  TLVBack(Color(color))
<1>1. PICK t : t = Color(color)
  OBVIOUS
<1>2. t.type = "Color" /\ t.color = color
  BY <1>1 DEF Color
<1>3. PICK v : v = <<Uint(color)>>
  OBVIOUS
<1>4. PlainValue(t) = v /\ PlainLength(t) = 4
  <2>1. PlainValue(t) = ColorValue(t)
    BY <1>2 DEF PlainValue, CPathIDs, CPathPreferences, ExtendedAssociationIDs
  <2>2. PlainLength(t) = ValueLength[t.type]
    BY <1>2 DEF PlainLength
  <2>3. ValueLength["Color"] = 4
    BY DEF ValueLength
  <2> QED
    BY <1>2, <1>3, <2>1, <2>2, <2>3 DEF ColorValue
<1>5. IsText(v) /\ Len(v) = 1 /\ v[1] = Uint(color)
  BY <1>3, Words, TextOfOne, SingleList
<1>6. t # ErrorTLV
  BY <1>2 DEF ErrorTLV
<1>7. DecodeTLV(WireType(t), PlainLength(t), PlainValue(t)) = t
  <2>1. WireType(t) = "Color"
    BY <1>2 DEF WireType
  <2>2. DecodeTLV("Color", 4, v) = DecodePlain("Color", 4, v)
    BY DEF DecodeTLV
  <2>3. LengthAccepted("Color", 4)
    BY DEF LengthAccepted, ValueLength
  <2>4. DecodePlain("Color", 4, v) = ColorOf(v)
    BY <2>3 DEF DecodePlain, CPathIDs, CPathPreferences, ExtendedAssociationIDs
  <2>5. ColorOf(v) = t
    BY <1>1, <1>5, Words DEF ColorOf
  <2> QED
    BY <1>4, <2>1, <2>2, <2>4, <2>5
<1> QED
  BY <1>1, <1>2, <1>4, <1>5, <1>6, <1>7, Padding DEF TLVBack, TLVFramed, HoldsTLVs

(* A path setup type is read back.                                         *)
LEMMA PathSetupTypeBack ==
    ASSUME NEW pst
    PROVE  TLVBack(PathSetupType(pst))
<1>1. PICK t : t = PathSetupType(pst)
  OBVIOUS
<1>2. t.type = "PathSetupType" /\ t.pst = pst
  BY <1>1 DEF PathSetupType
<1>3. PICK v : v = Data(pst, 1)
  OBVIOUS
<1>4. PlainValue(t) = v /\ PlainLength(t) = 4
  <2>1. PlainValue(t) = PathSetupTypeValue(t)
    BY <1>2 DEF PlainValue, CPathIDs, CPathPreferences, ExtendedAssociationIDs
  <2>2. PlainLength(t) = ValueLength[t.type]
    BY <1>2 DEF PlainLength
  <2>3. ValueLength["PathSetupType"] = 4
    BY DEF ValueLength
  <2> QED
    BY <1>2, <1>3, <2>1, <2>2, <2>3 DEF PathSetupTypeValue
<1>5. IsText(v) /\ Len(v) = 1 /\ DataAt(v) = pst
  BY <1>3, DataListed, DataBack
<1>6. t # ErrorTLV
  BY <1>2 DEF ErrorTLV
<1>7. DecodeTLV(WireType(t), PlainLength(t), PlainValue(t)) = t
  <2>1. WireType(t) = "PathSetupType"
    BY <1>2 DEF WireType
  <2>2. DecodeTLV("PathSetupType", 4, v) = DecodePlain("PathSetupType", 4, v)
    BY DEF DecodeTLV
  <2>3. LengthAccepted("PathSetupType", 4)
    BY DEF LengthAccepted, ValueLength
  <2>4. DecodePlain("PathSetupType", 4, v) = PathSetupTypeOf(v)
    BY <2>3 DEF DecodePlain, CPathIDs, CPathPreferences, ExtendedAssociationIDs
  <2>5. PathSetupTypeOf(v) = t
    BY <1>1, <1>5 DEF PathSetupTypeOf
  <2> QED
    BY <1>4, <2>1, <2>2, <2>4, <2>5
<1> QED
  BY <1>1, <1>2, <1>4, <1>5, <1>6, <1>7, Padding DEF TLVBack, TLVFramed, HoldsTLVs

(* A name and its length; only the empty one has none.                     *)
IsName(name) ==
    name \in DOMAIN Octets /\ Octets[name] \in Nat /\ (Octets[name] = 0 => name = "")

(* A name is read back.                                                    *)
LEMMA SymbolicPathNameBack ==
    ASSUME NEW name, IsName(name)
    PROVE  TLVBack(SymbolicPathName(name))
<1>1. PICK t : t = SymbolicPathName(name)
  OBVIOUS
<1>2. t.type = "SymbolicPathName" /\ t.name = name
  BY <1>1 DEF SymbolicPathName
<1>3. PICK n : n = Octets[name]
  OBVIOUS
<1>4. n \in Nat
  BY <1>3, Zenon DEF IsName
<1>5. PICK v : v = Data(name, PaddedWords(n))
  OBVIOUS
<1>6. PlainValue(t) = v /\ PlainLength(t) = n
  <2>1. PlainValue(t) = SymbolicPathNameValue(t)
    BY <1>2 DEF PlainValue, CPathIDs, CPathPreferences, ExtendedAssociationIDs
  <2>2. PlainLength(t) = Octets[t.name]
    BY <1>2 DEF PlainLength
  <2> QED
    BY <1>2, <1>3, <1>5, <2>1, <2>2 DEF SymbolicPathNameValue
<1>7. IsText(v) /\ Len(v) = PaddedWords(n)
  <2>1. PICK m \in Nat : m = PaddedWords(n)
    BY <1>4, Padding
  <2> QED
    BY <1>5, <2>1, DataListed
<1>8. DataAt(v) = name
  <2>1. CASE n = 0
    <3>1. name = ""
      BY <1>3, <2>1, Zenon DEF IsName
    <3>2. PaddedWords(n) = 0
      BY <2>1 DEF PaddedWords
    <3>3. v = <<>>
      BY <1>7, <3>2, ListIs DEF IsText
    <3>4. DataAt(v) = ""
      BY <3>3, Zenon DEF DataAt
    <3> QED
      BY <3>1, <3>4, Zenon
  <2>2. CASE n # 0
    <3>1. PICK m \in Nat : m = PaddedWords(n)
      BY <1>4, Padding
    <3>2. m # 0
      BY <1>4, <2>2, <3>1 DEF PaddedWords
    <3> QED
      BY <1>5, <3>1, <3>2, DataBack
  <2> QED
    BY <2>1, <2>2
<1>9. t # ErrorTLV
  BY <1>2 DEF ErrorTLV
<1>10. DecodeTLV(WireType(t), PlainLength(t), PlainValue(t)) = t
  <2>1. WireType(t) = "SymbolicPathName"
    BY <1>2 DEF WireType
  <2>2. DecodeTLV("SymbolicPathName", n, v) = DecodePlain("SymbolicPathName", n, v)
    BY DEF DecodeTLV
  <2>3. LengthAccepted("SymbolicPathName", n)
    BY DEF LengthAccepted, ValueLength
  <2>4. DecodePlain("SymbolicPathName", n, v) = SymbolicPathNameOf(v)
    BY <2>3 DEF DecodePlain, CPathIDs, CPathPreferences, ExtendedAssociationIDs
  <2>5. SymbolicPathNameOf(v) = t
    BY <1>1, <1>8 DEF SymbolicPathNameOf
  <2> QED
    BY <1>6, <2>1, <2>2, <2>4, <2>5
<1> QED
  BY <1>1, <1>2, <1>4, <1>6, <1>7, <1>9, <1>10 DEF TLVBack, TLVFramed, HoldsTLVs

(* A candidate path preference is read back.                               *)
LEMMA CPathPreferenceBack ==
    ASSUME NEW type \in CPathPreferences, NEW preference
    PROVE  TLVBack(CandidatePathPreference(type, preference))
<1>1. PICK t : t = CandidatePathPreference(type, preference)
  OBVIOUS
<1>2. t.type = type /\ t.preference = preference
  BY <1>1 DEF CandidatePathPreference
<1>3. PICK v : v = <<Uint(preference)>>
  OBVIOUS
<1>4. PlainValue(t) = v /\ PlainLength(t) = 4
  <2>1. PlainValue(t) = CandidatePathPreferenceValue(t)
    BY <1>2 DEF PlainValue, CPathIDs, CPathPreferences, ExtendedAssociationIDs
  <2>2. PlainLength(t) = ValueLength[t.type]
    BY <1>2 DEF PlainLength, CPathPreferences
  <2>3. ValueLength[type] = 4
    BY DEF ValueLength, CPathPreferences
  <2> QED
    BY <1>2, <1>3, <2>1, <2>2, <2>3 DEF CandidatePathPreferenceValue
<1>5. IsText(v) /\ Len(v) = 1 /\ v[1] = Uint(preference)
  BY <1>3, Words, TextOfOne, SingleList
<1>6. t # ErrorTLV /\ ~HoldsTLVs(t)
  <2>1. type # "error" /\ type # "PathSetupTypeCapability"
    BY DEF CPathPreferences
  <2> QED
    BY <1>2, <2>1 DEF ErrorTLV, HoldsTLVs
<1>7. DecodeTLV(WireType(t), PlainLength(t), PlainValue(t)) = t
  <2>1. WireType(t) = type
    BY <1>2 DEF WireType, CPathPreferences
  <2>2. DecodeTLV(type, 4, v) = DecodePlain(type, 4, v)
    BY DEF DecodeTLV, CPathPreferences
  <2>3. LengthAccepted(type, 4)
    BY DEF LengthAccepted, ValueLength, CPathPreferences
  <2>4. DecodePlain(type, 4, v) = CandidatePathPreferenceOf(type, v)
    BY <2>3 DEF DecodePlain, CPathIDs, CPathPreferences, ExtendedAssociationIDs
  <2>5. CandidatePathPreferenceOf(type, v) = t
    BY <1>1, <1>5, Words DEF CandidatePathPreferenceOf
  <2> QED
    BY <1>4, <2>1, <2>2, <2>4, <2>5
<1> QED
  BY <1>1, <1>4, <1>5, <1>6, <1>7, Padding DEF TLVBack, TLVFramed

(* An endpoint the type has room for.                                      *)
LEMMA ExtendedAssociationIDBack ==
    ASSUME NEW type \in ExtendedAssociationIDs, NEW color, NEW endpoint \in Addr,
           type = "ExtendedAssociationIDIPv4Juniper" => endpoint \in IPv4
    PROVE  TLVBack(ExtendedAssociationID(type, color, endpoint))
<1>1. PICK t : t = ExtendedAssociationID(type, color, endpoint)
  OBVIOUS
<1>2. t.type = type /\ t.color = color /\ t.endpoint = endpoint
  BY <1>1 DEF ExtendedAssociationID
<1>3. PICK a, k : a = AsSlice(endpoint) /\ k = AddrLen(endpoint)
  OBVIOUS
<1>4. IsText(a) /\ Len(a) = k /\ DataAt(a) = endpoint
  BY <1>3, SliceBack
<1>5. k \in {1, 4} /\ (type = "ExtendedAssociationIDIPv4Juniper" => k = 1)
  BY <1>3, AddrLengths DEF Addr
<1>6. PICK v : v = <<Uint(color)>> \o a
  OBVIOUS
<1>7. IsText(v) /\ Len(v) = 1 + k
  <2>1. IsText(<<Uint(color)>>) /\ Listed(<<Uint(color)>>) /\ Listed(a)
    BY <1>4, Words, TextOfOne DEF IsText
  <2>2. IsText(v)
    BY <1>4, <1>6, <2>1, TextJoined
  <2>3. Len(v) = Len(<<Uint(color)>>) + Len(a)
    BY <1>6, <2>1, Joined
  <2> QED
    BY <1>4, <2>2, <2>3, SingleList
<1>8. v[1] = Uint(color) /\ SubSeq(v, 2, 1 + k) = a
  <2>1. PICK u : u = <<Uint(color)>>
    OBVIOUS
  <2>2. Listed(u) /\ Listed(a) /\ Len(u) = 1 /\ u[1] = Uint(color)
    BY <1>4, <2>1, SingleList DEF IsText
  <2>3. SubSeq(u \o a, Len(u) + 1, Len(u) + k) = SubSeq(a, 1, k)
    <3>1. 1 \in Nat /\ k \in Nat /\ 1 <= 1 /\ 1 <= k + 1 /\ k <= Len(a)
      BY <1>4, <1>5
    <3>2. Listed(u) /\ Listed(a)
      BY <2>2
    <3> QED
      BY <3>1, <3>2, PartOfSecond
  <2>4. SubSeq(a, 1, k) = a
    BY <1>4, <2>2, WholePart
  <2>5. \A i \in 1 .. Len(u) : (u \o a)[i] = u[i]
    <3>1. Listed(u) /\ Listed(a)
      BY <2>2
    <3> QED
      BY <3>1, Joined
  <2>6. Len(u) + 1 = 2 /\ 1 \in 1 .. Len(u)
    BY <2>2
  <2> QED
    BY <1>6, <2>1, <2>2, <2>3, <2>4, <2>5, <2>6
<1>9. PlainValue(t) = v /\ PlainLength(t) = 4 + 4 * k
  <2>1. PlainValue(t) = ExtendedAssociationIDValue(t)
    BY <1>2 DEF PlainValue, CPathIDs, CPathPreferences, ExtendedAssociationIDs
  <2>2. PlainLength(t) = 4 + 4 * k
    <3>1. CASE type = "ExtendedAssociationID"
      BY <1>2, <1>3, <3>1 DEF PlainLength
    <3>2. CASE type = "ExtendedAssociationIDIPv4Juniper"
      <4>1. PlainLength(t) = ValueLength[t.type]
        BY <1>2, <3>2 DEF PlainLength
      <4>2. ValueLength[type] = 8
        BY <3>2 DEF ValueLength
      <4> QED
        BY <1>2, <1>5, <3>2, <4>1, <4>2
    <3> QED
      BY <3>1, <3>2 DEF ExtendedAssociationIDs
  <2> QED
    BY <1>2, <1>3, <1>6, <2>1, <2>2 DEF ExtendedAssociationIDValue
<1>10. 4 + 4 * k \in {8, 20} /\ PaddedWords(4 + 4 * k) = 1 + k
  BY <1>5, Padding
<1>11. t # ErrorTLV /\ ~HoldsTLVs(t)
  <2>1. type # "error" /\ type # "PathSetupTypeCapability"
    BY DEF ExtendedAssociationIDs
  <2> QED
    BY <1>2, <2>1 DEF ErrorTLV, HoldsTLVs
<1>12. DecodeTLV(WireType(t), PlainLength(t), PlainValue(t)) = t
  <2>1. WireType(t) = type
    BY <1>2 DEF WireType, ExtendedAssociationIDs
  <2>2. PICK l : l = 4 + 4 * k
    OBVIOUS
  <2>3. DecodeTLV(type, l, v) = DecodePlain(type, l, v)
    BY DEF DecodeTLV, ExtendedAssociationIDs
  <2>4. LengthAccepted(type, l)
    <3>1. CASE type = "ExtendedAssociationID"
      <4>1. l \in {8, 20}
        BY <1>10, <2>2
      <4> QED
        BY <3>1, <4>1 DEF LengthAccepted, ValueLength
    <3>2. CASE type = "ExtendedAssociationIDIPv4Juniper"
      <4>1. l = 8
        BY <1>5, <2>2, <3>2
      <4> QED
        BY <3>2, <4>1 DEF LengthAccepted, ValueLength
    <3> QED
      BY <3>1, <3>2 DEF ExtendedAssociationIDs
  <2>5. DecodePlain(type, l, v) = ExtendedAssociationIDOf(type, v)
    BY <2>4 DEF DecodePlain, CPathIDs, CPathPreferences, ExtendedAssociationIDs
  <2>6. Slice(v, 2, Len(v) - 1) = a
    <3>1. 2 + (Len(v) - 1) - 1 = 1 + k
      BY <1>5, <1>7
    <3> QED
      BY <1>8, <3>1 DEF Slice
  <2>7. ExtendedAssociationIDOf(type, v) = t
    BY <1>1, <1>4, <1>8, <2>6, Words DEF ExtendedAssociationIDOf
  <2> QED
    BY <1>9, <2>1, <2>2, <2>3, <2>5, <2>7
<1>13. PlainLength(t) \in Nat
  BY <1>5, <1>9
<1> QED
  BY <1>1, <1>7, <1>9, <1>10, <1>11, <1>12, <1>13 DEF TLVBack, TLVFramed

(* The seven words of a candidate path identifier.                         *)
OriginLayout(ws, asn, addr, k) ==
    /\ IsText(ws) /\ Len(ws) = 7 /\ ws[2] = Uint(asn) /\ ws[7] = Uint(1)
    /\ \A i \in 1 .. 4 - k : ws[2 + i] = <<>>
    /\ \A j \in 1 .. k : ws[6 - k + j] = <<"data", addr, j>>

(* How many words there are of it and before it.                           *)
LEMMA OriginCounts ==
    ASSUME NEW k, k = 0 \/ k = 1 \/ k = 4, NEW m, m = 4 - k, NEW n, n = 2 + m
    PROVE  k \in Nat /\ k <= 4 /\ m = 4 - k /\ n = 6 - k
OBVIOUS

(* Where the originator stands.                                            *)
LEMMA OriginPlace ==
    ASSUME NEW k \in Nat, k <= 4, NEW j \in Nat, 1 <= j, j <= k, NEW n, n = 6 - k
    PROVE  n + j \in 1 .. 6 /\ 6 - k + j = n + j
OBVIOUS

(* The originator is read back.                                            *)
LEMMA OriginWords ==
    ASSUME NEW asn, NEW addr \in Addr \cup {Unspecified}, NEW k \in {0, 1, 4}, k = AddrLen(addr),
           NEW ws, ws = <<<<"origin">>, Uint(asn)>> \o [i \in 1 .. 4 - k |-> <<>>]
                           \o AsSlice(addr) \o <<Uint(1)>>
    PROVE  OriginLayout(ws, asn, addr, k)
<1>1. PICK h, z, a, u :
         /\ h = <<<<"origin">>, Uint(asn)>> /\ z = [i \in 1 .. 4 - k |-> <<>>]
         /\ a = AsSlice(addr) /\ u = <<Uint(1)>>
  OBVIOUS
<1>2. PICK c, d : c = h \o z /\ d = c \o a
  OBVIOUS
<1>3. ws = d \o u
  BY <1>1, <1>2
<1>4. Listed(h) /\ Len(h) = 2 /\ h[2] = Uint(asn) /\ IsText(h)
  <2>1. PICK w : w = <<"origin">>
    OBVIOUS
  <2>2. IsWord(w)
    BY <2>1 DEF IsWord, Field
  <2>3. h = [i \in 1 .. 2 |-> h[i]] /\ h[1] = w /\ h[2] = Uint(asn)
    BY <1>1, <2>1
  <2>4. Listed(h) /\ Len(h) = 2
    <3>1. 2 \in Nat
      OBVIOUS
    <3> QED
      BY <2>3, <3>1, ListOf
  <2>5. IsWord(h[1]) /\ IsWord(h[2])
    BY <2>2, <2>3, Words
  <2>6. ASSUME NEW i \in 1 .. Len(h) PROVE IsWord(h[i])
    <3>1. i = 1 \/ i = 2
      BY <2>4
    <3> QED
      BY <2>5, <3>1
  <2> QED
    BY <2>3, <2>4, <2>6 DEF IsText
<1>5. PICK m \in Nat : m = 4 - k
  OBVIOUS
<1>6. Listed(z) /\ Len(z) = m /\ IsText(z) /\ \A i \in 1 .. m : z[i] = <<>>
  <2>1. z = [i \in 1 .. m |-> z[i]] /\ \A i \in 1 .. m : z[i] = <<>>
    BY <1>1, <1>5
  <2>2. Listed(z) /\ Len(z) = m
    BY <2>1, ListOf
  <2> QED
    BY <2>1, <2>2, Words DEF IsText
<1>7. Listed(a) /\ Len(a) = k /\ IsText(a) /\ \A j \in 1 .. k : a[j] = <<"data", addr, j>>
  <2>1. k \in Nat /\ a = Data(addr, k)
    BY <1>1 DEF AsSlice
  <2> QED
    BY <2>1, DataListed
<1>8. Listed(u) /\ Len(u) = 1 /\ IsText(u) /\ u[1] = Uint(1)
  BY <1>1, SingleList, TextOfOne, Words
<1>9. IsText(c) /\ IsText(d) /\ IsText(ws)
  BY <1>2, <1>3, <1>4, <1>6, <1>7, <1>8, TextJoined
<1>10. Listed(c) /\ Listed(d)
  BY <1>9 DEF IsText
<1>11. Longer(h, 2, z, m, c)
  <2>1. 2 \in Nat
    OBVIOUS
  <2> QED
    BY <1>2, <1>4, <1>6, <2>1, Continued
<1>12. Len(c) = 2 + m
  BY <1>11 DEF Longer
<1>13. PICK n \in Nat : n = 2 + m
  BY <1>5
<1>14. Longer(c, n, a, k, d)
  <2>1. k \in Nat
    OBVIOUS
  <2> QED
    BY <1>2, <1>7, <1>10, <1>12, <1>13, <2>1, Continued
<1>15. Len(d) = n + k
  BY <1>14 DEF Longer
<1>16. n + k = 6
  BY <1>5, <1>13
<1>17. Longer(d, 6, u, 1, ws)
  <2>1. 6 \in Nat /\ 1 \in Nat /\ Len(d) = 6
    BY <1>15, <1>16
  <2> QED
    BY <1>3, <1>8, <1>10, <2>1, Continued
<1>18. Len(ws) = 7 /\ ws[7] = Uint(1) /\ \A i \in 1 .. 6 : ws[i] = d[i]
  <2>1. Len(ws) = 6 + 1 /\ (\A i \in 1 .. 6 : ws[i] = d[i]) /\ \A i \in 1 .. 1 : ws[6 + i] = u[i]
    BY <1>17 DEF Longer
  <2>2. 6 + 1 = 7 /\ 1 \in 1 .. 1
    OBVIOUS
  <2>3. ws[6 + 1] = u[1]
    BY <2>1, <2>2
  <2>4. Len(ws) = 7 /\ ws[7] = u[1]
    BY <2>1, <2>2, <2>3
  <2> QED
    BY <1>8, <2>1, <2>4
<1>19. \A i \in 1 .. n : ws[i] = c[i]
  <2>1. \A i \in 1 .. n : d[i] = c[i]
    BY <1>14 DEF Longer
  <2>2. ASSUME NEW i \in 1 .. n PROVE i \in 1 .. 6
    BY <1>16
  <2> QED
    BY <1>18, <2>1, <2>2
<1>20. ws[2] = Uint(asn)
  <2>1. \A i \in 1 .. 2 : c[i] = h[i]
    BY <1>11 DEF Longer
  <2>2. 2 \in 1 .. n /\ 2 \in 1 .. 2
    BY <1>5, <1>13
  <2> QED
    BY <1>4, <1>19, <2>1, <2>2
<1>21. ASSUME NEW i \in 1 .. 4 - k PROVE ws[2 + i] = <<>>
  <2>1. \A j \in 1 .. m : c[2 + j] = z[j]
    BY <1>11 DEF Longer
  <2>2. i \in 1 .. m /\ 2 + i \in 1 .. n
    BY <1>5, <1>13
  <2> QED
    BY <1>6, <1>19, <2>1, <2>2
<1>22. ASSUME NEW j \in 1 .. k PROVE ws[6 - k + j] = <<"data", addr, j>>
  <2>1. \A i \in 1 .. k : d[n + i] = a[i]
    BY <1>14 DEF Longer
  <2>2. n + j \in 1 .. 6 /\ 6 - k + j = n + j
    <3>1. k \in Nat /\ k <= 4 /\ m = 4 - k /\ n = 6 - k
      <4>1. (k = 0 \/ k = 1 \/ k = 4) /\ m = 4 - k /\ n = 2 + m
        BY <1>5, <1>13, Zenon
      <4> QED
        BY <4>1, OriginCounts, Zenon
    <3>2. j \in Nat /\ 1 <= j /\ j <= k
      BY <3>1
    <3> QED
      BY <3>1, <3>2, OriginPlace
  <2> QED
    BY <1>7, <1>18, <2>1, <2>2
<1> QED
  BY <1>9, <1>18, <1>20, <1>21, <1>22 DEF OriginLayout

(* A candidate path identifier is read back.                               *)
LEMMA CPathIDBack ==
    ASSUME NEW type \in CPathIDs, NEW asn, NEW addr \in Addr \cup {Unspecified}
    PROVE  TLVBack(CandidatePathIdentifier(type, asn, addr))
<1>1. PICK t : t = CandidatePathIdentifier(type, asn, addr)
  OBVIOUS
<1>2. t.type = type /\ t.asn = asn /\ t.addr = addr /\ t.discriminator = 1
  BY <1>1 DEF CandidatePathIdentifier
<1>3. PICK k : k = AddrLen(addr)
  OBVIOUS
<1>4. /\ k \in {0, 1, 4} /\ (k = 0 <=> addr = Unspecified) /\ (k = 1 <=> addr \in IPv4)
  <2>1. Unspecified \notin Addr /\ IPv4 \cap IPv6 = {}
    BY CodecAssumption, Zenon DEF Addr
  <2> QED
    BY <1>3, <2>1, AddrLengths DEF Addr
<1>5. PICK v : v = <<<<"origin">>, Uint(asn)>> \o [i \in 1 .. 4 - k |-> <<>>]
                     \o AsSlice(addr) \o <<Uint(1)>>
  OBVIOUS
<1>6. OriginLayout(v, asn, addr, k)
  BY <1>3, <1>4, <1>5, OriginWords
<1>7. /\ IsText(v) /\ Len(v) = 7 /\ v[2] = Uint(asn) /\ v[7] = Uint(1)
      /\ \A i \in 1 .. 4 - k : v[2 + i] = <<>>
      /\ \A j \in 1 .. k : v[6 - k + j] = <<"data", addr, j>>
  BY <1>6 DEF OriginLayout
<1>8. PlainValue(t) = v /\ PlainLength(t) = 28
  <2>1. PlainValue(t) = CandidatePathIdentifierValue(t)
    BY <1>2 DEF PlainValue, CPathIDs, CPathPreferences, ExtendedAssociationIDs
  <2>2. PlainLength(t) = ValueLength[t.type]
    BY <1>2 DEF PlainLength, CPathIDs
  <2>3. ValueLength[type] = 28
    BY DEF ValueLength, CPathIDs
  <2>4. CandidatePathIdentifierValue(t) = v
    BY <1>2, <1>3, <1>5, Zenon DEF CandidatePathIdentifierValue
  <2> QED
    BY <1>2, <2>1, <2>2, <2>3, <2>4
<1>9. t # ErrorTLV /\ ~HoldsTLVs(t)
  <2>1. type # "error" /\ type # "PathSetupTypeCapability"
    BY DEF CPathIDs
  <2> QED
    BY <1>2, <2>1 DEF ErrorTLV, HoldsTLVs
<1>10. PICK first : first = IF \A i \in 3 .. 5 : v[i] = <<>> THEN 6 ELSE 3
  OBVIOUS
<1>11. DataAt(SubSeq(v, first, 6)) = addr
  <2>1. Listed(v)
    BY <1>7 DEF IsText
  <2>2. CASE addr = Unspecified
    <3>1. k = 0
      BY <1>4, <2>2
    <3>2. ASSUME NEW i \in 3 .. 6 PROVE v[i] = <<>>
      <4>1. PICK j \in 1 .. 4 - k : i = 2 + j
        <5>1. i - 2 \in 1 .. 4 - k /\ i = 2 + (i - 2)
          BY <3>1
        <5> QED
          BY <5>1
      <4> QED
        BY <1>7, <4>1
    <3>3. first = 6
      BY <1>10, <3>2
    <3>4. PICK s : s = SubSeq(v, 6, 6)
      OBVIOUS
    <3>5. Listed(s) /\ Len(s) = 1 /\ s[1] = v[6]
      <4>1. 6 \in Nat /\ 1 <= 6 /\ 6 <= 6 + 1 /\ 6 <= Len(v)
        BY <1>7
      <4>2. /\ Listed(SubSeq(v, 6, 6)) /\ Len(SubSeq(v, 6, 6)) = 6 - 6 + 1
            /\ \A i \in 1 .. 6 - 6 + 1 : SubSeq(v, 6, 6)[i] = v[6 + i - 1]
        BY <2>1, <4>1, PartOf
      <4> QED
        BY <3>4, <4>2
    <3>6. s # <<>> /\ \A i \in 1 .. Len(s) : s[i] = <<>>
      <4>1. 6 \in 3 .. 6
        OBVIOUS
      <4>2. s[1] = <<>>
        BY <3>2, <3>5, <4>1
      <4>3. s # <<>>
        <5>1. Len(s) = 1 /\ Len(<<>>) = 0
          BY <3>5, EmptyList, Zenon
        <5>2. 1 # 0
          OBVIOUS
        <5> QED
          BY <5>1, <5>2, Zenon
      <4>4. ASSUME NEW i \in 1 .. Len(s) PROVE s[i] = <<>>
        <5>1. i = 1
          BY <3>5
        <5> QED
          BY <4>2, <5>1
      <4> QED
        BY <4>3, <4>4
    <3>7. DataAt(s) = Unspecified
      BY <3>6, Zenon DEF DataAt
    <3> QED
      BY <2>2, <3>3, <3>4, <3>7
  <2>3. CASE addr \in IPv4
    <3>1. k = 1
      BY <1>4, <2>3
    <3>2. ASSUME NEW i \in 3 .. 5 PROVE v[i] = <<>>
      <4>1. PICK j \in 1 .. 4 - k : i = 2 + j
        <5>1. i - 2 \in 1 .. 4 - k /\ i = 2 + (i - 2)
          BY <3>1
        <5> QED
          BY <5>1
      <4> QED
        BY <1>7, <4>1
    <3>3. first = 6
      BY <1>10, <3>2
    <3>4. PICK p \in Nat, q \in Nat : p = 5 /\ q = 1
      OBVIOUS
    <3>5. \A j \in 1 .. q : v[p + j] = <<"data", addr, j>>
      BY <1>7, <3>1, <3>4
    <3>6. q # 0 /\ p + q <= Len(v) /\ p + 1 = 6 /\ p + q = 6
      BY <1>7, <3>4
    <3>7. DataAt(SubSeq(v, p + 1, p + q)) = addr
      BY <2>1, <3>5, <3>6, DataInside
    <3> QED
      BY <3>3, <3>6, <3>7
  <2>4. CASE addr \in IPv6
    <3>1. k = 4
      BY <1>4, <2>4, CodecAssumption
    <3>2. \A j \in 1 .. 4 : v[2 + j] = <<"data", addr, j>>
      BY <1>7, <3>1
    <3>3. v[3] = <<"data", addr, 1>>
      <4>1. 1 \in 1 .. 4
        OBVIOUS
      <4> QED
        BY <3>2, <4>1
    <3>4. v[3] # <<>>
      BY <3>3
    <3>5. first = 3
      BY <1>10, <3>4
    <3>6. PICK p \in Nat, q \in Nat : p = 2 /\ q = 4
      OBVIOUS
    <3>7. \A j \in 1 .. q : v[p + j] = <<"data", addr, j>>
      BY <3>2, <3>6
    <3>8. q # 0 /\ p + q <= Len(v) /\ p + 1 = 3 /\ p + q = 6
      BY <1>7, <3>6
    <3>9. DataAt(SubSeq(v, p + 1, p + q)) = addr
      BY <2>1, <3>7, <3>8, DataInside
    <3> QED
      BY <3>5, <3>8, <3>9
  <2> QED
    BY <2>2, <2>3, <2>4 DEF Addr
<1>12. DecodeTLV(WireType(t), PlainLength(t), PlainValue(t)) = t
  <2>1. WireType(t) = type
    BY <1>2 DEF WireType, CPathIDs
  <2>2. DecodeTLV(type, 28, v) = DecodePlain(type, 28, v)
    BY DEF DecodeTLV, CPathIDs
  <2>3. LengthAccepted(type, 28)
    BY DEF LengthAccepted, ValueLength, CPathIDs
  <2>4. DecodePlain(type, 28, v) = CandidatePathIdentifierOf(type, v)
    BY <2>3 DEF DecodePlain, CPathIDs, CPathPreferences, ExtendedAssociationIDs
  <2>5. PICK x : x = UintAt(v[2])
    OBVIOUS
  <2>6. CandidatePathIdentifierOf(type, v) =
          [CandidatePathIdentifier(type, x, addr) EXCEPT !.discriminator = UintAt(v[7])]
    BY <1>10, <1>11, <2>5, Zenon DEF CandidatePathIdentifierOf
  <2>7. x = asn /\ UintAt(v[7]) = 1
    BY <1>7, <2>5, Words
  <2>8. [t EXCEPT !.discriminator = 1] = t
    BY <1>1 DEF CandidatePathIdentifier
  <2>9. CandidatePathIdentifierOf(type, v) = t
    BY <1>1, <2>6, <2>7, <2>8
  <2> QED
    BY <1>8, <2>1, <2>2, <2>4, <2>9
<1>13. PlainLength(t) \in Nat /\ Len(PlainValue(t)) = PaddedWords(PlainLength(t)) /\ IsText(PlainValue(t))
  <2>1. PaddedWords(28) = 7 /\ 28 \in Nat
    BY Padding
  <2> QED
    BY <1>7, <1>8, <2>1, Zenon
<1> QED
  BY <1>1, <1>9, <1>12, <1>13 DEF TLVBack, TLVFramed

(* The words of a TLV are a header, a value and its padding.               *)
LEMMA FramedWords ==
    ASSUME NEW t, TLVFramed(t)
    PROVE  /\ TLVWords(t) = <<TLVHdr(WireType(t), PlainLength(t))>> \o PlainValue(t)
           /\ IsText(TLVWords(t)) /\ TLVLen(t) = 4 * Len(TLVWords(t))
<1>1. PICK n, v, w : n = PlainLength(t) /\ v = PlainValue(t) /\ w = TLVHdr(WireType(t), n)
  OBVIOUS
<1>2. n \in Nat /\ IsText(v) /\ Len(v) = PaddedWords(n) /\ ~HoldsTLVs(t)
  BY <1>1 DEF TLVFramed
<1>3. TLVWords(t) = <<w>> \o v
  BY <1>1, <1>2 DEF TLVWords, PlainWords
<1>4. IsWord(w)
  <2>1. w[1] = "tlv" /\ Field(w, 3, 0) = n /\ Field(w, 1, "zero") = "tlv"
    BY <1>1 DEF TLVHdr, Field
  <2> QED
    BY <1>2, <2>1 DEF IsWord
<1>5. IsText(<<w>>)
  BY <1>4, TextOfOne
<1>6. IsText(<<w>> \o v)
  BY <1>2, <1>5, TextJoined
<1>7. Len(<<w>> \o v) = 1 + Len(v)
  <2>1. Listed(<<w>>) /\ Listed(v)
    BY <1>2, <1>5 DEF IsText
  <2>2. Len(<<w>> \o v) = Len(<<w>>) + Len(v)
    BY <2>1, Joined
  <2> QED
    BY <2>2, SingleList
<1>8. TLVLen(t) = 4 + 4 * PaddedWords(n)
  BY <1>1, <1>2 DEF TLVLen, PlainLen
<1>9. PICK m \in Nat : m = PaddedWords(n)
  BY <1>2, Padding
<1>10. PICK l : l = Len(<<w>> \o v)
  OBVIOUS
<1>11. l = 1 + m
  BY <1>2, <1>7, <1>9, <1>10
<1>12. 4 + 4 * m = 4 * l
  BY <1>11
<1> QED
  BY <1>1, <1>3, <1>6, <1>8, <1>9, <1>10, <1>12

(* TLVs and their words.                                                   *)
TLVParts(p, tlvs) ==
    /\ Listed(p) /\ Listed(tlvs) /\ Len(p) = Len(tlvs)
    /\ \A i \in 1 .. Len(tlvs) : TLVFramed(tlvs[i]) /\ p[i] = TLVWords(tlvs[i])

(* The words of TLVs are texts.                                            *)
LEMMA TLVTexts ==
    ASSUME NEW p, NEW tlvs, TLVParts(p, tlvs)
    PROVE  /\ Texts(p) /\ Parts(p) /\ \A i \in 1 .. Len(tlvs) : TLVLen(tlvs[i]) = 4 * Len(p[i])
<1>1. ASSUME NEW i \in 1 .. Len(tlvs)
      PROVE  IsText(p[i]) /\ TLVLen(tlvs[i]) = 4 * Len(p[i])
  <2>1. TLVFramed(tlvs[i]) /\ p[i] = TLVWords(tlvs[i])
    BY DEF TLVParts
  <2> QED
    BY <2>1, FramedWords
<1>2. Texts(p)
  BY <1>1 DEF Texts, TLVParts
<1> QED
  BY <1>1, <1>2, TextsAreParts

(* TLVs have their words.                                                  *)
LEMMA TLVPartsExist ==
    ASSUME NEW tlvs, Listed(tlvs), \A i \in 1 .. Len(tlvs) : TLVFramed(tlvs[i])
    PROVE  \E p : TLVParts(p, tlvs) /\ TLVsWords(tlvs) = FlattenSeq(p)
<1>1. PICK p : p = [i \in 1 .. Len(tlvs) |-> TLVWords(tlvs[i])]
  OBVIOUS
<1>2. PICK n \in Nat : n = Len(tlvs)
  BY ListIs
<1>3. p = [i \in 1 .. n |-> p[i]] /\ \A i \in 1 .. n : p[i] = TLVWords(tlvs[i])
  BY <1>1, <1>2
<1>4. Listed(p) /\ Len(p) = n
  BY <1>3, ListOf
<1>5. TLVParts(p, tlvs)
  BY <1>2, <1>3, <1>4 DEF TLVParts
<1>6. TLVsWords(tlvs) = FlattenSeq(p)
  BY <1>1 DEF TLVsWords
<1> QED
  BY <1>5, <1>6

(* TLVs are as long as Pola says.                                          *)
LEMMA TLVsFramed ==
    ASSUME NEW tlvs, Listed(tlvs), \A i \in 1 .. Len(tlvs) : TLVFramed(tlvs[i])
    PROVE  IsText(TLVsWords(tlvs)) /\ TLVsLen(tlvs) = 4 * Len(TLVsWords(tlvs))
<1>1. PICK p : TLVParts(p, tlvs) /\ TLVsWords(tlvs) = FlattenSeq(p)
  BY TLVPartsExist
<1>2. /\ Texts(p) /\ Parts(p) /\ \A i \in 1 .. Len(tlvs) : TLVLen(tlvs[i]) = 4 * Len(p[i])
  BY <1>1, TLVTexts
<1>3. IsText(FlattenSeq(p))
  BY <1>2, TextsJoined
<1>4. Len(p) = Len(tlvs)
  BY <1>1 DEF TLVParts
<1>5. TotalLen(tlvs, TLVLen) = 4 * Len(FlattenSeq(p))
  BY <1>2, <1>4, TLVsTotal
<1> QED
  BY <1>1, <1>3, <1>5 DEF TLVsLen

(* The first of several TLVs, then the rest.                               *)
LEMMA TLVsOne ==
    ASSUME NEW t, TLVFramed(t), TLVBack(t), NEW rest, IsText(rest)
    PROVE  DecodeTLVs(TLVWords(t) \o rest) = <<t>> \o DecodeTLVs(rest)
<1>1. PICK type, length, value :
         type = WireType(t) /\ length = PlainLength(t) /\ value = PlainValue(t)
  OBVIOUS
<1>2. TLVWords(t) = <<TLVHdr(type, length)>> \o value
  BY <1>1, FramedWords
<1>3. length \in Nat /\ IsText(value) /\ Len(value) = PaddedWords(length)
  BY <1>1 DEF TLVFramed
<1>4. DecodeTLV(type, length, value) = t /\ t # ErrorTLV
  BY <1>1 DEF TLVFramed, TLVBack
<1>5. PICK w : w = TLVHdr(type, length)
  OBVIOUS
<1>6. DecodeTLVs(Led(w, value, rest)) = Cons(t, DecodeTLVs(rest))
  <2>1. ValueFits(length, value, rest) /\ DecodeTLV(type, length, value) # ErrorTLV
    BY <1>3, <1>4 DEF ValueFits
  <2>2. DecodeTLVs(Led(TLVHdr(type, length), value, rest)) = Cons(DecodeTLV(type, length, value), DecodeTLVs(rest))
    BY <2>1, AnyTLVsFirst
  <2> QED
    BY <1>4, <1>5, <2>2
<1>7. Led(w, value, rest) = TLVWords(t) \o rest
  BY <1>2, <1>5 DEF Led
<1> QED
  BY <1>6, <1>7 DEF Cons

(* TLVs are read back from their words, by induction on their number.      *)
LEMMA TLVsBack ==
    ASSUME NEW p, NEW tlvs, TLVParts(p, tlvs), \A i \in 1 .. Len(tlvs) : TLVBack(tlvs[i])
    PROVE  DecodeTLVs(FlattenSeq(p)) = tlvs
<1> DEFINE N == {n \in Nat : \A q, s : /\ TLVParts(q, s) /\ Len(s) = n
                                       /\ \A i \in 1 .. n : TLVBack(s[i])
                                       => DecodeTLVs(FlattenSeq(q)) = s}
<1>1. 0 \in N
  <2> SUFFICES ASSUME NEW q, NEW s, TLVParts(q, s), Len(s) = 0
               PROVE  DecodeTLVs(FlattenSeq(q)) = s
    OBVIOUS
  <2>1. q = <<>> /\ s = <<>>
    BY ListIs DEF TLVParts
  <2> QED
    BY <2>1, FlattenNone, NoAnyTLVs
<1>2. ASSUME NEW n \in Nat, n \in N PROVE n + 1 \in N
  <2> SUFFICES ASSUME NEW q, NEW s, TLVParts(q, s), Len(s) = n + 1,
                      \A i \in 1 .. n + 1 : TLVBack(s[i])
               PROVE  DecodeTLVs(FlattenSeq(q)) = s
    OBVIOUS
  <2>1. /\ Listed(q) /\ Listed(s) /\ Len(q) = n + 1
        /\ \A i \in 1 .. n + 1 : TLVFramed(s[i]) /\ q[i] = TLVWords(s[i])
    BY DEF TLVParts
  <2>2. q # <<>> /\ s # <<>>
    BY <2>1, ListIs
  <2>3. Texts(q) /\ Parts(q)
    BY TLVTexts
  <2>4. /\ FlattenSeq(q) = q[1] \o FlattenSeq(Tail(q))
        /\ Parts(Tail(q)) /\ Len(q) = Len(Tail(q)) + 1 /\ Listed(q[1])
        /\ \A i \in 1 .. Len(Tail(q)) : Tail(q)[i] = q[i + 1]
    BY <2>2, <2>3, FlattenCons
  <2>5. /\ Listed(Tail(s)) /\ Len(Tail(s)) = (n + 1) - 1
        /\ \A i \in 1 .. (n + 1) - 1 : Tail(s)[i] = s[i + 1]
    BY <2>1, <2>2, TailOf
  <2>6. PICK r, u : r = Tail(q) /\ u = Tail(s)
    OBVIOUS
  <2>7. Listed(r) /\ Len(r) \in Nat
    BY <2>4, <2>6, ListIs DEF Parts
  <2>8. /\ Len(r) = n /\ Listed(u) /\ Len(u) = n
        /\ \A i \in 1 .. n : r[i] = q[i + 1] /\ u[i] = s[i + 1]
    BY <2>1, <2>4, <2>5, <2>6, <2>7
  <2>9. ASSUME NEW i \in 1 .. n
        PROVE  TLVFramed(u[i]) /\ TLVBack(u[i]) /\ r[i] = TLVWords(u[i])
    <3>1. PICK j \in 1 .. n + 1 : j = i + 1
      OBVIOUS
    <3>2. r[i] = q[j] /\ u[i] = s[j]
      BY <2>8, <3>1
    <3> QED
      BY <2>1, <3>2
  <2>10. TLVParts(r, u)
    BY <2>7, <2>8, <2>9 DEF TLVParts
  <2>11. DecodeTLVs(FlattenSeq(r)) = u
    BY <1>2, <2>8, <2>9, <2>10
  <2>12. IsText(FlattenSeq(r))
    <3>1. Texts(r)
      BY <2>10, TLVTexts
    <3> QED
      BY <3>1, TextsJoined
  <2>13. PICK t : t = s[1]
    OBVIOUS
  <2>14. TLVFramed(t) /\ TLVBack(t) /\ q[1] = TLVWords(t)
    <3>1. 1 \in 1 .. n + 1
      OBVIOUS
    <3> QED
      BY <2>1, <2>13, <3>1
  <2>15. DecodeTLVs(TLVWords(t) \o FlattenSeq(r)) = <<t>> \o DecodeTLVs(FlattenSeq(r))
    <3> HIDE DEF N
    <3> QED
      BY <2>12, <2>14, TLVsOne
  <2>19. s = <<s[1]>> \o u
    BY <2>1, <2>2, <2>6, ConsOf
  <2> QED
    BY <2>4, <2>6, <2>11, <2>13, <2>14, <2>15, <2>19
<1>3. \A n \in Nat : n \in N
  <2> HIDE DEF N
  <2> QED
    BY <1>1, <1>2, InductionOverSet
<1>4. PICK n \in Nat : n = Len(tlvs)
  BY ListIs DEF TLVParts
<1>5. n \in N
  <2> HIDE DEF N
  <2> QED
    BY <1>3
<1> QED
  BY <1>4, <1>5

(* TLVs are read back by DecodeTLVs.                                       *)
LEMMA TLVsRead ==
    ASSUME NEW tlvs, Listed(tlvs),
           \A i \in 1 .. Len(tlvs) : TLVFramed(tlvs[i]) /\ TLVBack(tlvs[i])
    PROVE  DecodeTLVs(TLVsWords(tlvs)) = tlvs
<1>1. PICK p : TLVParts(p, tlvs) /\ TLVsWords(tlvs) = FlattenSeq(p)
  BY TLVPartsExist
<1> QED
  BY <1>1, TLVsBack

KeptRaw(t) == DecodeUnknown(WireType(t), PlainLength(t), PlainValue(t)) = t

(* The first of several TLVs of a vendor, then the rest.                   *)
LEMMA VendorTLVsOne ==
    ASSUME NEW t, TLVFramed(t), KeptRaw(t), NEW rest, IsText(rest)
    PROVE  DecodeVendorTLVs(TLVWords(t) \o rest) = <<t>> \o DecodeVendorTLVs(rest)
<1>1. PICK type, length, value :
         type = WireType(t) /\ length = PlainLength(t) /\ value = PlainValue(t)
  OBVIOUS
<1>2. TLVWords(t) = <<TLVHdr(type, length)>> \o value
  BY <1>1, FramedWords
<1>3. length \in Nat /\ IsText(value) /\ Len(value) = PaddedWords(length)
  BY <1>1 DEF TLVFramed
<1>4. DecodeUnknown(type, length, value) = t /\ t # ErrorTLV
  BY <1>1 DEF TLVFramed, KeptRaw
<1>5. PICK w : w = TLVHdr(type, length)
  OBVIOUS
<1>6. DecodeVendorTLVs(Led(w, value, rest)) = Cons(t, DecodeVendorTLVs(rest))
  <2>1. ValueFits(length, value, rest) /\ DecodeUnknown(type, length, value) # ErrorTLV
    BY <1>3, <1>4 DEF ValueFits
  <2>2. DecodeVendorTLVs(Led(TLVHdr(type, length), value, rest)) = Cons(DecodeUnknown(type, length, value), DecodeVendorTLVs(rest))
    BY <2>1, VendorTLVsFirst
  <2> QED
    BY <1>4, <1>5, <2>2
<1>7. Led(w, value, rest) = TLVWords(t) \o rest
  BY <1>2, <1>5 DEF Led
<1> QED
  BY <1>6, <1>7 DEF Cons

(* TLVs of a vendor are read back from their words.                        *)
LEMMA VendorTLVsBack ==
    ASSUME NEW p, NEW tlvs, TLVParts(p, tlvs), \A i \in 1 .. Len(tlvs) : KeptRaw(tlvs[i])
    PROVE  DecodeVendorTLVs(FlattenSeq(p)) = tlvs
<1> DEFINE N == {n \in Nat : \A q, s : /\ TLVParts(q, s) /\ Len(s) = n
                                       /\ \A i \in 1 .. n : KeptRaw(s[i])
                                       => DecodeVendorTLVs(FlattenSeq(q)) = s}
<1>1. 0 \in N
  <2> SUFFICES ASSUME NEW q, NEW s, TLVParts(q, s), Len(s) = 0
               PROVE  DecodeVendorTLVs(FlattenSeq(q)) = s
    OBVIOUS
  <2>1. q = <<>> /\ s = <<>>
    BY ListIs DEF TLVParts
  <2> QED
    BY <2>1, FlattenNone, NoVendorTLVs
<1>2. ASSUME NEW n \in Nat, n \in N PROVE n + 1 \in N
  <2> SUFFICES ASSUME NEW q, NEW s, TLVParts(q, s), Len(s) = n + 1,
                      \A i \in 1 .. n + 1 : KeptRaw(s[i])
               PROVE  DecodeVendorTLVs(FlattenSeq(q)) = s
    OBVIOUS
  <2>1. /\ Listed(q) /\ Listed(s) /\ Len(q) = n + 1
        /\ \A i \in 1 .. n + 1 : TLVFramed(s[i]) /\ q[i] = TLVWords(s[i])
    BY DEF TLVParts
  <2>2. q # <<>> /\ s # <<>>
    BY <2>1, ListIs
  <2>3. Texts(q) /\ Parts(q)
    BY TLVTexts
  <2>4. /\ FlattenSeq(q) = q[1] \o FlattenSeq(Tail(q))
        /\ Parts(Tail(q)) /\ Len(q) = Len(Tail(q)) + 1 /\ Listed(q[1])
        /\ \A i \in 1 .. Len(Tail(q)) : Tail(q)[i] = q[i + 1]
    BY <2>2, <2>3, FlattenCons
  <2>5. /\ Listed(Tail(s)) /\ Len(Tail(s)) = (n + 1) - 1
        /\ \A i \in 1 .. (n + 1) - 1 : Tail(s)[i] = s[i + 1]
    BY <2>1, <2>2, TailOf
  <2>6. PICK r, u : r = Tail(q) /\ u = Tail(s)
    OBVIOUS
  <2>7. Listed(r) /\ Len(r) \in Nat
    BY <2>4, <2>6, ListIs DEF Parts
  <2>8. /\ Len(r) = n /\ Listed(u) /\ Len(u) = n
        /\ \A i \in 1 .. n : r[i] = q[i + 1] /\ u[i] = s[i + 1]
    BY <2>1, <2>4, <2>5, <2>6, <2>7
  <2>9. ASSUME NEW i \in 1 .. n
        PROVE  TLVFramed(u[i]) /\ KeptRaw(u[i]) /\ r[i] = TLVWords(u[i])
    <3>1. PICK j \in 1 .. n + 1 : j = i + 1
      OBVIOUS
    <3>2. r[i] = q[j] /\ u[i] = s[j]
      BY <2>8, <3>1
    <3> QED
      BY <2>1, <3>2
  <2>10. TLVParts(r, u)
    BY <2>7, <2>8, <2>9 DEF TLVParts
  <2>11. DecodeVendorTLVs(FlattenSeq(r)) = u
    BY <1>2, <2>8, <2>9, <2>10
  <2>12. IsText(FlattenSeq(r))
    <3>1. Texts(r)
      BY <2>10, TLVTexts
    <3> QED
      BY <3>1, TextsJoined
  <2>13. PICK t : t = s[1]
    OBVIOUS
  <2>14. TLVFramed(t) /\ KeptRaw(t) /\ q[1] = TLVWords(t)
    <3>1. 1 \in 1 .. n + 1
      OBVIOUS
    <3> QED
      BY <2>1, <2>13, <3>1
  <2>15. DecodeVendorTLVs(TLVWords(t) \o FlattenSeq(r)) = <<t>> \o DecodeVendorTLVs(FlattenSeq(r))
    <3> HIDE DEF N
    <3> QED
      BY <2>12, <2>14, VendorTLVsOne
  <2>19. s = <<s[1]>> \o u
    BY <2>1, <2>2, <2>6, ConsOf
  <2> QED
    BY <2>4, <2>6, <2>11, <2>13, <2>14, <2>15, <2>19
<1>3. \A n \in Nat : n \in N
  <2> HIDE DEF N
  <2> QED
    BY <1>1, <1>2, InductionOverSet
<1>4. PICK n \in Nat : n = Len(tlvs)
  BY ListIs DEF TLVParts
<1>5. n \in N
  <2> HIDE DEF N
  <2> QED
    BY <1>3
<1> QED
  BY <1>4, <1>5

(* TLVs of a vendor are read back by DecodeVendorTLVs.                     *)
LEMMA VendorTLVsRead ==
    ASSUME NEW tlvs, Listed(tlvs),
           \A i \in 1 .. Len(tlvs) : TLVFramed(tlvs[i]) /\ KeptRaw(tlvs[i])
    PROVE  DecodeVendorTLVs(TLVsWords(tlvs)) = tlvs
<1>1. PICK p : TLVParts(p, tlvs) /\ TLVsWords(tlvs) = FlattenSeq(p)
  BY TLVPartsExist
<1> QED
  BY <1>1, VendorTLVsBack

------------------------------------------------------------------------------
(* Objects and messages: written and read                                  *)

(* An object that is as long as its header says, and how it is read.       *)
ObjectFits(o) == IsText(ObjectBody(o)) /\ ObjectLen(o) = 4 + 4 * Len(ObjectBody(o))

ReadOf(o) == ObjectOf(o.class, o.otype, ObjectBody(o))

(* The first of several objects, then the rest.                            *)
LEMMA ObjectOne ==
    ASSUME NEW o, ObjectFits(o), NEW rest, IsText(rest)
    PROVE  /\ IsText(ObjectWords(o)) /\ ObjectLen(o) = 4 * Len(ObjectWords(o))
           /\ ObjectsOf(ObjectWords(o) \o rest) = Cons(ReadOf(o), ObjectsOf(rest))
<1>1. PICK w, b, l : w = ObjHdr(o.class, o.otype, l) /\ b = ObjectBody(o) /\ l = ObjectLen(o)
  OBVIOUS
<1>2. ObjectWords(o) = <<w>> \o b
  BY <1>1 DEF ObjectWords
<1>3. IsText(b) /\ l = 4 + 4 * Len(b)
  BY <1>1 DEF ObjectFits
<1>4. PICK n \in Nat : n = Len(b)
  BY <1>3, ListIs DEF IsText
<1>5. IsWord(w)
  <2>1. w[1] = "obj" /\ w[4] = l /\ Field(w, 1, "zero") = "obj"
    BY <1>1 DEF ObjHdr, Field
  <2>2. l \in Nat
    BY <1>3, <1>4
  <2> QED
    BY <2>1, <2>2 DEF IsWord
<1>6. IsText(<<w>>)
  BY <1>5, TextOfOne
<1>7. IsText(<<w>> \o b)
  BY <1>3, <1>6, TextJoined
<1>8. Len(<<w>> \o b) = 1 + Len(b)
  <2>1. Listed(<<w>>) /\ Listed(b)
    BY <1>3, <1>6 DEF IsText
  <2>2. Len(<<w>> \o b) = Len(<<w>>) + Len(b)
    BY <2>1, Joined
  <2> QED
    BY <2>2, SingleList
<1>9. l = 4 * Len(<<w>> \o b)
  <2>1. PICK m : m = Len(<<w>> \o b)
    OBVIOUS
  <2>2. m = 1 + n /\ l = 4 + 4 * n
    BY <1>3, <1>4, <1>8, <2>1
  <2>3. l = 4 * m
    BY <2>2
  <2> QED
    BY <2>1, <2>3
<1>10. ObjectsOf(Led(w, b, rest)) = Cons(ReadOf(o), ObjectsOf(rest))
  <2>1. PICK c, t : c = o.class /\ t = o.otype
    OBVIOUS
  <2>2. ObjectsOf(Led(ObjHdr(c, t, l), b, rest)) = Cons(ObjectOf(c, t, b), ObjectsOf(rest))
    BY <1>3, ObjectsFirst
  <2> QED
    BY <1>1, <2>1, <2>2 DEF ReadOf
<1>11. Led(w, b, rest) = ObjectWords(o) \o rest
  BY <1>2 DEF Led
<1> QED
  BY <1>1, <1>2, <1>7, <1>9, <1>10, <1>11

ObjectParts(p, objs) ==
    /\ Listed(p) /\ Listed(objs) /\ Len(p) = Len(objs)
    /\ \A i \in 1 .. Len(objs) : ObjectFits(objs[i]) /\ p[i] = ObjectWords(objs[i])

IsRead(read, objs) ==
    /\ Listed(read) /\ Len(read) = Len(objs)
    /\ \A i \in 1 .. Len(objs) : read[i] = ReadOf(objs[i])

(* The words of objects that fit are lists.                                *)
LEMMA ObjectTexts ==
    ASSUME NEW p, NEW objs, ObjectParts(p, objs)
    PROVE  /\ Texts(p) /\ Parts(p) /\ \A i \in 1 .. Len(objs) : ObjectLen(objs[i]) = 4 * Len(p[i])
<1>1. ASSUME NEW i \in 1 .. Len(objs)
      PROVE  IsText(p[i]) /\ ObjectLen(objs[i]) = 4 * Len(p[i])
  <2>1. ObjectFits(objs[i]) /\ p[i] = ObjectWords(objs[i])
    BY DEF ObjectParts
  <2>2. IsText(<<>>)
    BY NoText
  <2> QED
    BY <2>1, <2>2, ObjectOne
<1>2. Texts(p)
  BY <1>1 DEF Texts, ObjectParts
<1> QED
  BY <1>1, <1>2, TextsAreParts

(* Objects are read as they are written, whatever their lengths.           *)
LEMMA ObjectsBack ==
    ASSUME NEW p, NEW objs, NEW read, ObjectParts(p, objs), IsRead(read, objs)
    PROVE  ObjectsOf(FlattenSeq(p)) = read
<1> DEFINE N == {n \in Nat : \A q, s, v : ObjectParts(q, s) /\ IsRead(v, s) /\ Len(s) = n
                                            => ObjectsOf(FlattenSeq(q)) = v}
<1>1. 0 \in N
  <2> SUFFICES ASSUME NEW q, NEW s, NEW v, ObjectParts(q, s), IsRead(v, s), Len(s) = 0
               PROVE  ObjectsOf(FlattenSeq(q)) = v
    OBVIOUS
  <2>1. q = <<>> /\ v = <<>>
    BY ListIs DEF ObjectParts, IsRead
  <2> QED
    BY <2>1, FlattenNone, NoObjects
<1>2. ASSUME NEW n \in Nat, n \in N PROVE n + 1 \in N
  <2> SUFFICES ASSUME NEW q, NEW s, NEW v, ObjectParts(q, s), IsRead(v, s), Len(s) = n + 1
               PROVE  ObjectsOf(FlattenSeq(q)) = v
    OBVIOUS
  <2>1. /\ Listed(q) /\ Listed(s) /\ Listed(v) /\ Len(q) = n + 1 /\ Len(v) = n + 1
        /\ \A i \in 1 .. n + 1 : /\ ObjectFits(s[i]) /\ q[i] = ObjectWords(s[i])
                                 /\ v[i] = ReadOf(s[i])
    BY DEF ObjectParts, IsRead
  <2>2. q # <<>> /\ s # <<>> /\ v # <<>>
    BY <2>1, ListIs
  <2>3. Texts(q) /\ Parts(q)
    BY ObjectTexts
  <2>4. /\ FlattenSeq(q) = q[1] \o FlattenSeq(Tail(q))
        /\ Parts(Tail(q)) /\ Len(q) = Len(Tail(q)) + 1 /\ Listed(q[1])
        /\ \A i \in 1 .. Len(Tail(q)) : Tail(q)[i] = q[i + 1]
    BY <2>2, <2>3, FlattenCons
  <2>5. /\ Listed(Tail(s)) /\ Len(Tail(s)) = (n + 1) - 1
        /\ \A i \in 1 .. (n + 1) - 1 : Tail(s)[i] = s[i + 1]
    BY <2>1, <2>2, TailOf
  <2>6. /\ Listed(Tail(v)) /\ Len(Tail(v)) = (n + 1) - 1
        /\ \A i \in 1 .. (n + 1) - 1 : Tail(v)[i] = v[i + 1]
    BY <2>1, <2>2, TailOf
  <2>7. PICK r, u, x : r = Tail(q) /\ u = Tail(s) /\ x = Tail(v)
    OBVIOUS
  <2>8. Listed(r) /\ Len(r) \in Nat
    BY <2>4, <2>7, ListIs DEF Parts
  <2>9. /\ Len(r) = n /\ Listed(u) /\ Len(u) = n /\ Listed(x) /\ Len(x) = n
        /\ \A i \in 1 .. n : r[i] = q[i + 1] /\ u[i] = s[i + 1] /\ x[i] = v[i + 1]
    BY <2>1, <2>4, <2>5, <2>6, <2>7, <2>8
  <2>10. ASSUME NEW i \in 1 .. n
         PROVE  ObjectFits(u[i]) /\ r[i] = ObjectWords(u[i]) /\ x[i] = ReadOf(u[i])
    <3>1. PICK j \in 1 .. n + 1 : j = i + 1
      OBVIOUS
    <3>2. r[i] = q[j] /\ u[i] = s[j] /\ x[i] = v[j]
      BY <2>9, <3>1
    <3> QED
      BY <2>1, <3>2
  <2>11. ObjectParts(r, u) /\ IsRead(x, u)
    BY <2>8, <2>9, <2>10 DEF ObjectParts, IsRead
  <2>12. ObjectsOf(FlattenSeq(r)) = x
    BY <1>2, <2>9, <2>11
  <2>13. IsText(FlattenSeq(r))
    <3>1. Texts(r)
      BY <2>11, ObjectTexts
    <3> QED
      BY <3>1, TextsJoined
  <2>14. PICK o : o = s[1]
    OBVIOUS
  <2>15. ObjectFits(o) /\ q[1] = ObjectWords(o) /\ v[1] = ReadOf(o)
    <3>1. 1 \in 1 .. n + 1
      OBVIOUS
    <3> QED
      BY <2>1, <2>14, <3>1
  <2>16. ObjectsOf(ObjectWords(o) \o FlattenSeq(r)) = Cons(ReadOf(o), ObjectsOf(FlattenSeq(r)))
    <3> HIDE DEF N
    <3> QED
      BY <2>13, <2>15, ObjectOne
  <2>17. v = <<v[1]>> \o x
    BY <2>1, <2>2, <2>7, ConsOf
  <2> QED
    BY <2>4, <2>7, <2>12, <2>15, <2>16, <2>17 DEF Cons
<1>3. \A n \in Nat : n \in N
  <2> HIDE DEF N
  <2> QED
    BY <1>1, <1>2, InductionOverSet
<1>4. PICK n \in Nat : n = Len(objs)
  BY ListIs DEF ObjectParts
<1>5. n \in N
  <2> HIDE DEF N
  <2> QED
    BY <1>3
<1> QED
  BY <1>4, <1>5

(* A message of objects that fit: its length, and what is read from it.    *)
ReadAsObjects(words, type, read) ==
    /\ words[1] = MsgHdr(type, 4 * Len(words))
    /\ ObjectsOf(Tail(words)) = read

LEMMA MessageBack ==
    ASSUME NEW type, NEW objs, Listed(objs), \A i \in 1 .. Len(objs) : ObjectFits(objs[i]),
           NEW read, IsRead(read, objs)
    PROVE  ReadAsObjects(MessageWords(type, objs), type, read)
<1>1. PICK p : p = [i \in 1 .. Len(objs) |-> ObjectWords(objs[i])]
  OBVIOUS
<1>2. PICK n \in Nat : n = Len(objs)
  BY ListIs
<1>3. p = [i \in 1 .. n |-> p[i]] /\ \A i \in 1 .. n : p[i] = ObjectWords(objs[i])
  BY <1>1, <1>2
<1>4. Listed(p) /\ Len(p) = n
  BY <1>3, ListOf
<1>5. ObjectParts(p, objs)
  BY <1>2, <1>3, <1>4 DEF ObjectParts
<1>6. PICK body, w, ws :
        /\ body = FlattenSeq(p) /\ w = MsgHdr(type, 4 + TotalLen(objs, ObjectLen))
        /\ ws = <<w>> \o body
  OBVIOUS
<1>7. MessageWords(type, objs) = ws
  BY <1>1, <1>6 DEF MessageWords
<1>8. /\ Texts(p) /\ Parts(p) /\ \A i \in 1 .. Len(objs) : ObjectLen(objs[i]) = 4 * Len(p[i])
  BY <1>5, ObjectTexts
<1>9. TotalLen(objs, ObjectLen) = 4 * Len(body)
  BY <1>2, <1>4, <1>6, <1>8, ObjectsTotal
<1>10. Listed(body)
  BY <1>6, <1>8, FlattenListed
<1>11. PICK m \in Nat : m = Len(body)
  BY <1>10, ListIs
<1>12. Len(ws) = 1 + m /\ ws[1] = w /\ Listed(ws) /\ \A i \in 1 .. m : ws[1 + i] = body[i]
  <2>1. PICK h : h = <<w>>
    OBVIOUS
  <2>2. Listed(h) /\ Len(h) = 1 /\ h[1] = w
    BY <2>1, SingleList
  <2>3. 1 \in Nat
    OBVIOUS
  <2>4. Longer(h, 1, body, m, ws)
    BY <1>6, <1>10, <1>11, <2>1, <2>2, <2>3, Continued
  <2>5. 1 \in 1 .. 1
    OBVIOUS
  <2> QED
    BY <2>2, <2>4, <2>5 DEF Longer
<1>13. Tail(ws) = body
  <2>1. ws # <<>>
    BY <1>12, EmptyList
  <2>2. PICK t : t = Tail(ws)
    OBVIOUS
  <2>3. Listed(t) /\ Len(t) = Len(ws) - 1 /\ \A i \in 1 .. Len(ws) - 1 : t[i] = ws[i + 1]
    BY <1>12, <2>1, <2>2, TailOf
  <2>4. Len(t) = m
    BY <1>12, <2>3
  <2>5. ASSUME NEW i \in 1 .. m PROVE t[i] = body[i]
    <3>1. PICK j : j = 1 + i
      OBVIOUS
    <3>2. t[i] = ws[j]
      BY <1>12, <2>3, <3>1
    <3> QED
      BY <1>12, <3>1, <3>2
  <2> QED
    BY <1>10, <1>11, <2>2, <2>3, <2>4, <2>5, SameList
<1>14. ws[1] = MsgHdr(type, 4 * Len(ws))
  <2>1. 4 + 4 * m = 4 * (1 + m)
    OBVIOUS
  <2> QED
    BY <1>6, <1>9, <1>11, <1>12, <2>1
<1>15. ObjectsOf(body) = read
  BY <1>5, <1>6, ObjectsBack
<1> QED
  BY <1>7, <1>13, <1>14, <1>15 DEF ReadAsObjects

------------------------------------------------------------------------------
(* The objects Pola sends                                                  *)

(* Lists of two and three elements.                                        *)
LEMMA PairList ==
    ASSUME NEW a, NEW b, NEW s, s = <<a, b>>
    PROVE  Listed(s) /\ Len(s) = 2 /\ s[1] = a /\ s[2] = b
<1>1. s = [i \in 1 .. 2 |-> s[i]] /\ s[1] = a /\ s[2] = b
  OBVIOUS
<1>2. 2 \in Nat
  OBVIOUS
<1> QED
  BY <1>1, <1>2, ListOf

LEMMA TripleList ==
    ASSUME NEW a, NEW b, NEW c, NEW s, s = <<a, b, c>>
    PROVE  Listed(s) /\ Len(s) = 3 /\ s[1] = a /\ s[2] = b /\ s[3] = c
<1>1. s = [i \in 1 .. 3 |-> s[i]] /\ s[1] = a /\ s[2] = b /\ s[3] = c
  OBVIOUS
<1>2. 3 \in Nat
  OBVIOUS
<1> QED
  BY <1>1, <1>2, ListOf

(* Words behind others.                                                    *)
Behind(body, h, n, rest) ==
    /\ IsText(body) /\ Listed(body) /\ (\A i \in 1 .. n : body[i] = h[i])
    /\ SubSeq(body, n + 1, Len(body)) = rest /\ Len(body) = n + Len(rest)

RestIs(s, body, n, m) ==
    /\ Listed(body) /\ n \in Nat /\ m \in Nat /\ Len(body) = n + m
    /\ s = SubSeq(body, n + 1, Len(body))

RestHas(s, body, n, m) ==
    Listed(s) /\ Len(s) = m /\ \A i \in 1 .. m : s[i] = body[n + i]

(* What follows the first words.                                           *)
LEMMA RestOf ==
    ASSUME NEW s, NEW body, NEW n, NEW m, RestIs(s, body, n, m)
    PROVE  RestHas(s, body, n, m)
<1>0. /\ Listed(body) /\ n \in Nat /\ m \in Nat /\ Len(body) = n + m
      /\ s = SubSeq(body, n + 1, Len(body))
  BY DEF RestIs
<1>1. PICK p, q : p = n + 1 /\ q = n + m
  OBVIOUS
<1>2. p \in Nat /\ q \in Nat /\ 1 <= p /\ p <= q + 1 /\ q <= Len(body) /\ q - p + 1 = m
  BY <1>0, <1>1
<1>3. s = SubSeq(body, p, q)
  BY <1>0, <1>1
<1>4. Listed(s) /\ Len(s) = q - p + 1 /\ \A i \in 1 .. q - p + 1 : s[i] = body[p + i - 1]
  <2>1. p \in Nat /\ q \in Nat /\ 1 <= p /\ p <= q + 1 /\ q <= Len(body) /\ Listed(body)
    BY <1>0, <1>2
  <2>2. /\ Listed(SubSeq(body, p, q)) /\ Len(SubSeq(body, p, q)) = q - p + 1
        /\ \A i \in 1 .. q - p + 1 : SubSeq(body, p, q)[i] = body[p + i - 1]
    BY <2>1, PartOf
  <2> QED
    BY <1>3, <2>2, Zenon
<1>5. ASSUME NEW i \in 1 .. m PROVE s[i] = body[n + i]
  <2>1. s[i] = body[p + i - 1]
    BY <1>2, <1>4
  <2>2. p + i - 1 = n + i
    BY <1>0, <1>1
  <2> QED
    BY <2>1, <2>2
<1> QED
  BY <1>2, <1>4, <1>5 DEF RestHas

(* A text behind a text.                                                   *)
LEMMA TextBehind ==
    ASSUME NEW h, IsText(h), NEW n \in Nat, n = Len(h), NEW rest, IsText(rest), NEW body, body = h \o rest
    PROVE  Behind(body, h, n, rest)
<1>1. IsText(body)
  BY TextJoined
<1>2. Listed(body) /\ Listed(h) /\ Listed(rest)
  BY <1>1 DEF IsText
<1>3. PICK m \in Nat : m = Len(rest)
  BY <1>2, ListIs
<1>4. Longer(h, n, rest, m, body)
  BY <1>2, <1>3, Continued
<1>5. Len(body) = n + m /\ (\A i \in 1 .. n : body[i] = h[i])
      /\ \A i \in 1 .. m : body[n + i] = rest[i]
  BY <1>4 DEF Longer
<1>6. SubSeq(body, n + 1, Len(body)) = rest
  <2>1. PICK s : s = SubSeq(body, n + 1, Len(body))
    OBVIOUS
  <2>2. Listed(s) /\ Len(s) = m /\ \A i \in 1 .. m : s[i] = body[n + i]
    <3>1. RestIs(s, body, n, m)
      BY <1>2, <1>3, <1>5, <2>1 DEF RestIs
    <3>2. RestHas(s, body, n, m)
      BY <3>1, RestOf
    <3> QED
      BY <3>2 DEF RestHas
  <2>3. \A i \in 1 .. m : s[i] = rest[i]
    BY <1>5, <2>2
  <2>4. s = rest
    BY <1>2, <1>3, <2>2, <2>3, SameList
  <2> QED
    BY <2>1, <2>4
<1> QED
  BY <1>1, <1>2, <1>3, <1>5, <1>6 DEF Behind

After(body, w, rest) ==
    /\ IsText(body) /\ Len(body) = 1 + Len(rest) /\ body[1] = w /\ body # <<>>
    /\ Tail(body) = rest

(* A text behind one word.                                                 *)
LEMMA TextBehindOne ==
    ASSUME NEW w, IsWord(w), NEW rest, IsText(rest), NEW body, body = <<w>> \o rest
    PROVE  After(body, w, rest)
<1>1. PICK h : h = <<w>>
  OBVIOUS
<1>2. IsText(h) /\ Listed(h) /\ Len(h) = 1 /\ h[1] = w /\ 1 \in Nat
  BY <1>1, TextOfOne, SingleList
<1>3. Behind(body, h, 1, rest)
  BY <1>1, <1>2, TextBehind
<1>4. /\ IsText(body) /\ Listed(body) /\ body[1] = w
      /\ SubSeq(body, 1 + 1, Len(body)) = rest /\ Len(body) = 1 + Len(rest)
  <2>1. 1 \in 1 .. 1
    OBVIOUS
  <2> QED
    BY <1>2, <1>3, <2>1 DEF Behind
<1>5. PICK m \in Nat : m = Len(rest)
  BY ListIs DEF IsText
<1>6. body # <<>>
  BY <1>4, <1>5, EmptyList
<1>7. Tail(body) = rest
  <2>1. PICK t : t = Tail(body)
    OBVIOUS
  <2>2. Listed(t) /\ Len(t) = Len(body) - 1 /\ \A i \in 1 .. Len(body) - 1 : t[i] = body[i + 1]
    BY <1>4, <1>6, <2>1, TailOf
  <2>3. PICK s : s = SubSeq(body, 1 + 1, Len(body))
    OBVIOUS
  <2>4. Listed(s) /\ Len(s) = m /\ \A i \in 1 .. m : s[i] = body[1 + i]
    <3>1. RestIs(s, body, 1, m)
      BY <1>4, <1>5, <2>3 DEF RestIs
    <3>2. RestHas(s, body, 1, m)
      BY <3>1, RestOf
    <3> QED
      BY <3>2 DEF RestHas
  <2>5. Len(t) = m
    BY <1>4, <1>5, <2>2
  <2>6. ASSUME NEW i \in 1 .. m PROVE s[i] = t[i]
    <3>1. 1 + i = i + 1 /\ i \in 1 .. Len(body) - 1
      BY <1>4, <1>5
    <3> QED
      BY <2>2, <2>4, <3>1
  <2>7. s = t
    BY <2>2, <2>4, <2>5, <2>6, SameList
  <2> QED
    BY <1>4, <2>1, <2>3, <2>7
<1> QED
  BY <1>4, <1>6, <1>7 DEF After

(* The objects of a class in a message.                                    *)
LEMMA OfClassIs ==
    ASSUME NEW objs, Listed(objs), NEW class
    PROVE  \E parts : /\ OfClass(objs, class) = FlattenSeq(parts) /\ IsKept(FlattenSeq(parts), parts, objs)
                      /\ \A i \in 1 .. Len(objs) :
                            parts[i] = IF objs[i].class = class THEN <<objs[i]>> ELSE <<>>
<1>1. PICK parts : parts = [i \in 1 .. Len(objs) |-> IF objs[i].class = class THEN <<objs[i]>> ELSE <<>>]
  OBVIOUS
<1>2. PICK n \in Nat : n = Len(objs)
  BY ListIs
<1>3. /\ parts = [i \in 1 .. n |-> parts[i]]
      /\ \A i \in 1 .. n : parts[i] = IF objs[i].class = class THEN <<objs[i]>> ELSE <<>>
  BY <1>1, <1>2
<1>4. Listed(parts) /\ Len(parts) = n
  BY <1>3, ListOf
<1>5. Marked(parts, objs)
  BY <1>2, <1>3, <1>4 DEF Marked
<1>6. OfClass(objs, class) = FlattenSeq(parts)
  BY <1>1 DEF OfClass, Keep
<1>7. IsKept(FlattenSeq(parts), parts, objs)
  BY <1>5, KeptIs
<1> QED
  BY <1>2, <1>3, <1>6, <1>7

(* The first object of a class that a list holds.                          *)
LEMMA FirstOfClass ==
    ASSUME NEW objs, Listed(objs), NEW class, NEW i \in 1 .. Len(objs), objs[i].class = class,
           \A j \in 1 .. i - 1 : objs[j].class # class
    PROVE  OfClass(objs, class) # <<>> /\ OfClass(objs, class)[1] = objs[i]
<1>1. PICK parts : /\ OfClass(objs, class) = FlattenSeq(parts) /\ IsKept(FlattenSeq(parts), parts, objs)
                   /\ \A k \in 1 .. Len(objs) :
                         parts[k] = IF objs[k].class = class THEN <<objs[k]>> ELSE <<>>
  BY OfClassIs
<1>2. parts[i] # <<>>
  <2>1. parts[i] = <<objs[i]>>
    BY <1>1, Zenon
  <2>2. <<objs[i]>> # <<>>
    OBVIOUS
  <2> QED
    BY <2>1, <2>2
<1>3. ASSUME NEW j \in 1 .. i - 1 PROVE parts[j] = <<>>
  <2>1. j \in 1 .. Len(objs)
    BY ListIs
  <2> QED
    BY <1>1, <2>1
<1> QED
  BY <1>1, <1>2, <1>3 DEF IsKept

(* A list without an object of a class.                                    *)
LEMMA NoneOfClass ==
    ASSUME NEW objs, Listed(objs), NEW class, \A i \in 1 .. Len(objs) : objs[i].class # class
    PROVE  OfClass(objs, class) = <<>>
<1>1. PICK parts : /\ OfClass(objs, class) = FlattenSeq(parts) /\ IsKept(FlattenSeq(parts), parts, objs)
                   /\ \A k \in 1 .. Len(objs) :
                         parts[k] = IF objs[k].class = class THEN <<objs[k]>> ELSE <<>>
  BY OfClassIs
<1>2. \A j \in 1 .. Len(objs) : parts[j] = <<>>
  BY <1>1
<1> QED
  BY <1>1, <1>2 DEF IsKept

(* SRP.                                                                    *)
LEMMA SrpTLVs ==
    ASSUME NEW segs, NEW id, NEW remove, NEW tlvs, tlvs = SrpObject(segs, id, remove).tlvs
    PROVE  /\ IsText(TLVsWords(tlvs)) /\ TLVsLen(tlvs) = 4 * Len(TLVsWords(tlvs))
           /\ DecodeTLVs(TLVsWords(tlvs)) = tlvs
<1>1. Listed(tlvs) /\ \A i \in 1 .. Len(tlvs) : TLVBack(tlvs[i])
  <2>1. CASE segs = <<>>
    <3>1. tlvs = <<>>
      BY <2>1 DEF SrpObject
    <3> QED
      BY <3>1, EmptyList
  <2>2. CASE segs # <<>>
    <3>1. PICK pst : tlvs = <<PathSetupType(pst)>>
      BY <2>2 DEF SrpObject, PathSetupTypeOfSegment
    <3>2. TLVBack(PathSetupType(pst))
      BY PathSetupTypeBack
    <3>3. PICK t : t = PathSetupType(pst)
      OBVIOUS
    <3>4. Listed(tlvs) /\ Len(tlvs) = 1 /\ tlvs[1] = t
      BY <3>1, <3>3, SingleList
    <3> QED
      BY <3>2, <3>3, <3>4
  <2> QED
    BY <2>1, <2>2
<1>2. \A i \in 1 .. Len(tlvs) : TLVFramed(tlvs[i]) /\ TLVBack(tlvs[i])
  BY <1>1 DEF TLVBack
<1> QED
  BY <1>1, <1>2, TLVsFramed, TLVsRead

SrpFields(o) == [rFlag |-> o.rFlag, srpID |-> o.srpID, tlvs |-> o.tlvs]

SrpRead(o, id, remove) ==
    /\ ObjectFits(o) /\ SrpOf(ObjectBody(o)) = SrpFields(o)
    /\ o.class = "SRP" /\ o.rFlag = remove /\ o.srpID = id

(* An SRP object fits, and is read as it was built.                        *)
LEMMA SrpBack ==
    ASSUME NEW segs, NEW id, NEW remove \in BOOLEAN, NEW o, o = SrpObject(segs, id, remove)
    PROVE  SrpRead(o, id, remove)
<1>1. PICK tlvs, rest : tlvs = o.tlvs /\ rest = TLVsWords(tlvs)
  OBVIOUS
<1>2. IsText(rest) /\ TLVsLen(tlvs) = 4 * Len(rest) /\ DecodeTLVs(rest) = tlvs
  BY <1>1, SrpTLVs
<1>3. o.class = "SRP" /\ o.rFlag = remove /\ o.srpID = id
  BY DEF SrpObject
<1>4. PICK a, b, h : /\ a = Flags(IF remove THEN {"R"} ELSE {}) /\ b = Uint(id) /\ h = <<a, b>>
  OBVIOUS
<1>5. IsWord(a) /\ IsWord(b) /\ FlagsAt(a) = (IF remove THEN {"R"} ELSE {}) /\ UintAt(b) = id
  BY <1>4, Words
<1>6. Listed(h) /\ Len(h) = 2 /\ h[1] = a /\ h[2] = b
  BY <1>4, PairList
<1>7. IsText(h)
  BY <1>5, <1>6 DEF IsText
<1>8. PICK body : body = h \o rest
  OBVIOUS
<1>9. Behind(body, h, 2, rest)
  BY <1>2, <1>6, <1>7, <1>8, TextBehind
<1>10. /\ IsText(body) /\ body[1] = a /\ body[2] = b
       /\ SubSeq(body, 3, Len(body)) = rest /\ Len(body) = 2 + Len(rest)
  <2>1. /\ IsText(body) /\ (\A i \in 1 .. 2 : body[i] = h[i])
        /\ SubSeq(body, 2 + 1, Len(body)) = rest /\ Len(body) = 2 + Len(rest)
    BY <1>9 DEF Behind
  <2> QED
    BY <1>6, <2>1
<1>11. SrpBody(o) = body
  BY <1>1, <1>3, <1>4, <1>8, Zenon DEF SrpBody
<1>12. ObjectBody(o) = body /\ ObjectLen(o) = SrpLen(o)
  BY <1>3, <1>11 DEF ObjectBody, ObjectLen
<1>13. SrpLen(o) = 4 + 4 * Len(body)
  <2>1. PICK n \in Nat : n = Len(rest)
    BY <1>2, ListIs DEF IsText
  <2>2. SrpLen(o) = 12 + 4 * n /\ Len(body) = 2 + n
    BY <1>1, <1>2, <1>10, <2>1 DEF SrpLen
  <2> QED
    BY <2>2
<1>14. SrpOf(body) = [rFlag |-> remove, srpID |-> id, tlvs |-> tlvs]
  <2>1. ("R" \in FlagsAt(a)) = remove
    BY <1>5
  <2>2. SrpOf(body) = [rFlag |-> "R" \in FlagsAt(a), srpID |-> UintAt(b), tlvs |-> DecodeTLVs(rest)]
    BY <1>10, Zenon DEF SrpOf
  <2> QED
    BY <1>2, <1>5, <2>1, <2>2, Zenon
<1> QED
  BY <1>1, <1>3, <1>10, <1>12, <1>13, <1>14 DEF ObjectFits, SrpFields, SrpRead

(* Two lists of one element joined.                                        *)
LEMMA TwoJoined ==
    ASSUME NEW a, NEW b
    PROVE  <<a>> \o <<b>> = <<a, b>>
<1>1. PICK s, t, u, v : s = <<a>> /\ t = <<b>> /\ u = s \o t /\ v = <<a, b>>
  OBVIOUS
<1>2. Listed(s) /\ Len(s) = 1 /\ s[1] = a /\ Listed(t) /\ Len(t) = 1 /\ t[1] = b
  BY <1>1, SingleList
<1>3. Listed(v) /\ Len(v) = 2 /\ v[1] = a /\ v[2] = b
  BY <1>1, PairList
<1>4. 1 \in Nat
  OBVIOUS
<1>5. Longer(s, 1, t, 1, u)
  BY <1>1, <1>2, <1>4, Continued
<1>6. Listed(u) /\ Len(u) = 2 /\ u[1] = a /\ u[2] = b
  <2>1. /\ Listed(u) /\ Len(u) = 1 + 1 /\ \A i \in 1 .. 1 : u[i] = s[i]
        /\ \A i \in 1 .. 1 : u[1 + i] = t[i]
    BY <1>5 DEF Longer
  <2> QED
    BY <1>2, <2>1
<1>7. u = v
  BY <1>3, <1>6, SameList
<1> QED
  BY <1>1, <1>7

(* The TLVs of a kind among one or two others.                             *)
LEMMA LastOfOne ==
    ASSUME NEW a, NEW tlvs, tlvs = <<a>>, NEW types, a.type \in types
    PROVE  HasTLV(tlvs, types) /\ LastTLV(tlvs, types) = a
<1>1. Len(tlvs) = 1 /\ tlvs[1] = a
  OBVIOUS
<1>2. HasTLV(tlvs, types)
  BY <1>1 DEF HasTLV
<1>3. PICK I : I = {i \in 1 .. Len(tlvs) : tlvs[i].type \in types}
  OBVIOUS
<1>4. I = {1}
  BY <1>1, <1>3
<1>5. Max(I) = 1
  BY <1>4 DEF Max
<1>6. SelectLastInSeq(tlvs, LAMBDA t : t.type \in types) = 1
  BY <1>3, <1>4, <1>5 DEF SelectLastInSeq
<1> QED
  BY <1>1, <1>2, <1>6 DEF LastTLV

(* The last TLV of a type among two.                                       *)
LEMMA LastOfTwo ==
    ASSUME NEW a, NEW b, NEW tlvs, tlvs = <<a, b>>, NEW types, a.type \in types, b.type \notin types
    PROVE  HasTLV(tlvs, types) /\ LastTLV(tlvs, types) = a
<1>1. Len(tlvs) = 2 /\ tlvs[1] = a /\ tlvs[2] = b
  OBVIOUS
<1>2. HasTLV(tlvs, types)
  BY <1>1 DEF HasTLV
<1>3. PICK I : I = {i \in 1 .. Len(tlvs) : tlvs[i].type \in types}
  OBVIOUS
<1>4. I = {1}
  BY <1>1, <1>3
<1>5. Max(I) = 1
  BY <1>4 DEF Max
<1>6. SelectLastInSeq(tlvs, LAMBDA t : t.type \in types) = 1
  BY <1>3, <1>4, <1>5 DEF SelectLastInSeq
<1> QED
  BY <1>1, <1>2, <1>6 DEF LastTLV

(* The first of the types is the i-th TLV.                                 *)
FirstAt(tlvs, types, i) ==
    /\ i \in 1 .. Len(tlvs) /\ Len(tlvs) \in Nat /\ tlvs[i].type \in types
    /\ \A j \in 1 .. i - 1 : tlvs[j].type \notin types

(* The TLV that FirstTLV finds.                                            *)
LEMMA FirstOfTypes ==
    ASSUME NEW tlvs, NEW types, NEW i, FirstAt(tlvs, types, i)
    PROVE  HasTLV(tlvs, types) /\ FirstTLV(tlvs, types) = tlvs[i]
<1>1. /\ i \in 1 .. Len(tlvs) /\ Len(tlvs) \in Nat /\ tlvs[i].type \in types
      /\ \A j \in 1 .. i - 1 : tlvs[j].type \notin types
  BY DEF FirstAt
<1>2. HasTLV(tlvs, types)
  BY <1>1 DEF HasTLV
<1>3. PICK I : I = {j \in 1 .. Len(tlvs) : tlvs[j].type \in types}
  OBVIOUS
<1>4. i \in I /\ \A j \in I : i <= j
  BY <1>1, <1>3
<1>5. Min(I) = i
  <2>1. \A k \in I : (\A j \in I : k <= j) => k = i
    <3>1. I \subseteq Nat
      BY <1>1, <1>3
    <3> QED
      BY <1>4, <3>1
  <2> QED
    BY <1>4, <2>1 DEF Min
<1>6. SelectInSeq(tlvs, LAMBDA t : t.type \in types) = i
  BY <1>3, <1>4, <1>5 DEF SelectInSeq
<1> QED
  BY <1>2, <1>6 DEF FirstTLV

(* LSP: an update's has a name, a creation's and a deletion's a color too. *)
LEMMA LSPTLVs ==
    ASSUME NEW name, IsName(name), NEW color, color = <<>> \/ \E c : color = <<c>>,
           NEW plspID, NEW tlvs, tlvs = LSPObject(name, color, plspID).tlvs
    PROVE  /\ IsText(TLVsWords(tlvs)) /\ TLVsLen(tlvs) = 4 * Len(TLVsWords(tlvs))
           /\ DecodeTLVs(TLVsWords(tlvs)) = tlvs
           /\ tlvs = IF color = <<>> THEN <<SymbolicPathName(name)>>
                     ELSE <<SymbolicPathName(name), Color(color[1])>>
<1>1. PICK n, c : n = SymbolicPathName(name) /\ c = Color(color[1])
  OBVIOUS
<1>2. TLVBack(n) /\ TLVBack(c)
  BY <1>1, SymbolicPathNameBack, ColorBack
<1>3. tlvs = IF color = <<>> THEN <<n>> ELSE <<n, c>>
  <2>1. tlvs = <<n>> \o (IF color = <<>> THEN <<>> ELSE <<c>>)
    BY <1>1 DEF LSPObject
  <2>2. <<n>> \o <<>> = <<n>>
    BY SingleList, NoneBefore
  <2>3. <<n>> \o <<c>> = <<n, c>>
    BY TwoJoined
  <2> QED
    BY <2>1, <2>2, <2>3
<1>4. Listed(tlvs) /\ \A i \in 1 .. Len(tlvs) : TLVBack(tlvs[i])
  <2>1. CASE color = <<>>
    <3>1. Listed(tlvs) /\ Len(tlvs) = 1 /\ tlvs[1] = n
      BY <1>3, <2>1, SingleList
    <3> QED
      BY <1>2, <3>1
  <2>2. CASE color # <<>>
    <3>1. Listed(tlvs) /\ Len(tlvs) = 2 /\ tlvs[1] = n /\ tlvs[2] = c
      BY <1>3, <2>2, PairList
    <3> QED
      BY <1>2, <3>1
  <2> QED
    BY <2>1, <2>2
<1>5. \A i \in 1 .. Len(tlvs) : TLVFramed(tlvs[i]) /\ TLVBack(tlvs[i])
  BY <1>4 DEF TLVBack
<1> QED
  BY <1>1, <1>3, <1>4, <1>5, TLVsFramed, TLVsRead

LSPRead(o, plspID, name, color) ==
    /\ ObjectFits(o) /\ o.class = "LSP"
    /\ LET lsp == LSPOf(ObjectBody(o))
       IN  /\ lsp.plspID = plspID /\ lsp.name = name
           /\ LSPColor(lsp) = IF color = <<>> THEN 0 ELSE color[1]

(* An LSP object fits, and is read as it was built.                        *)
LEMMA LSPBack ==
    ASSUME NEW name, IsName(name), NEW color, color = <<>> \/ \E c : color = <<c>>,
           NEW plspID, NEW o, o = LSPObject(name, color, plspID)
    PROVE  LSPRead(o, plspID, name, color)
<1>1. PICK tlvs, rest : tlvs = o.tlvs /\ rest = TLVsWords(tlvs)
  OBVIOUS
<1>2. /\ IsText(rest) /\ TLVsLen(tlvs) = 4 * Len(rest) /\ DecodeTLVs(rest) = tlvs
      /\ tlvs = IF color = <<>> THEN <<SymbolicPathName(name)>>
                ELSE <<SymbolicPathName(name), Color(color[1])>>
  BY <1>1, LSPTLVs
<1>3. /\ o.class = "LSP" /\ o.plspID = plspID /\ o.flags = {"C", "A", "D"} /\ o.oFlag = 1
  BY DEF LSPObject
<1>4. PICK w, body : w = <<"lsp", plspID, o.flags, o.oFlag>> /\ body = <<w>> \o rest
  OBVIOUS
<1>5. IsWord(w)
  <2>1. w[1] = "lsp" /\ Field(w, 1, "zero") = "lsp"
    BY <1>4 DEF Field
  <2> QED
    BY <2>1 DEF IsWord
<1>6. /\ IsText(body) /\ Len(body) = 1 + Len(rest) /\ body[1] = w /\ Tail(body) = rest
  <2>1. After(body, w, rest)
    BY <1>2, <1>4, <1>5, TextBehindOne
  <2> QED
    BY <2>1 DEF After
<1>7. LSPBody(o) = body
  BY <1>1, <1>3, <1>4, Zenon DEF LSPBody
<1>8. ObjectBody(o) = body /\ ObjectLen(o) = LSPLen(o)
  BY <1>3, <1>7 DEF ObjectBody, ObjectLen
<1>9. LSPLen(o) = 4 + 4 * Len(body)
  <2>1. PICK n \in Nat : n = Len(rest)
    BY <1>2, ListIs DEF IsText
  <2>2. LSPLen(o) = 8 + 4 * n /\ Len(body) = 1 + n
    BY <1>1, <1>2, <1>6, <2>1 DEF LSPLen
  <2> QED
    BY <2>2
<1>10. LSPOf(body) = LSPWith(w, tlvs)
  BY <1>2, <1>6, Zenon DEF LSPOf
<1>11. PICK n, c : n = SymbolicPathName(name) /\ c = Color(color[1])
  OBVIOUS
<1>12. /\ n.type = "SymbolicPathName" /\ n.name = name /\ c.type = "Color" /\ c.color = color[1]
  BY <1>11 DEF SymbolicPathName, Color
<1>13. tlvs = IF color = <<>> THEN <<n>> ELSE <<n, c>>
  BY <1>2, <1>11
<1>14. HasTLV(tlvs, {"SymbolicPathName"}) /\ LastTLV(tlvs, {"SymbolicPathName"}).name = name
  <2>1. n.type \in {"SymbolicPathName"} /\ c.type \notin {"SymbolicPathName"}
    BY <1>12
  <2>2. CASE color = <<>>
    BY <1>12, <1>13, <2>1, <2>2, LastOfOne
  <2>3. CASE color # <<>>
    BY <1>12, <1>13, <2>1, <2>3, LastOfTwo
  <2> QED
    BY <2>2, <2>3
<1>15. /\ LSPWith(w, tlvs).name = LastTLV(tlvs, {"SymbolicPathName"}).name
       /\ LSPWith(w, tlvs).plspID = Field(w, 2, 0) /\ LSPWith(w, tlvs).tlvs = tlvs
  BY <1>14, Zenon DEF LSPWith
<1>16. Field(w, 2, 0) = plspID
  BY <1>4 DEF Field
<1>17. LSPColor(LSPWith(w, tlvs)) = IF color = <<>> THEN 0 ELSE color[1]
  <2>1. LSPColor(LSPWith(w, tlvs)) = IF HasTLV(tlvs, {"Color"}) THEN FirstTLV(tlvs, {"Color"}).color ELSE 0
    BY <1>15, Zenon DEF LSPColor
  <2>2. CASE color = <<>>
    <3>1. Len(tlvs) = 1 /\ tlvs[1] = n
      BY <1>13, <2>2
    <3>2. ~HasTLV(tlvs, {"Color"})
      BY <1>12, <3>1 DEF HasTLV
    <3> QED
      BY <2>1, <2>2, <3>2
  <2>3. CASE color # <<>>
    <3>1. Len(tlvs) = 2 /\ tlvs[1] = n /\ tlvs[2] = c
      BY <1>13, <2>3
    <3>2. FirstAt(tlvs, {"Color"}, 2)
      BY <1>12, <3>1 DEF FirstAt
    <3>3. HasTLV(tlvs, {"Color"}) /\ FirstTLV(tlvs, {"Color"}) = tlvs[2]
      BY <3>2, FirstOfTypes
    <3> QED
      BY <1>12, <2>1, <2>3, <3>1, <3>3
  <2> QED
    BY <2>2, <2>3
<1> QED
  <2>1. ObjectFits(o)
    BY <1>6, <1>8, <1>9 DEF ObjectFits
  <2>2. LSPOf(ObjectBody(o)) = LSPWith(w, tlvs)
    BY <1>8, <1>10
  <2> QED
    BY <1>3, <1>14, <1>15, <1>16, <1>17, <2>1, <2>2, Zenon DEF LSPRead

(* An ERO object fits, and its path is read back.                          *)
LEMMA EroObjectBack ==
    ASSUME NEW segs, EncodablePath(segs), NEW o, o = EroObject(segs)
    PROVE  ObjectFits(o) /\ o.class = "ERO" /\ ToSegmentList(ObjectBody(o)) = segs
<1>1. o.class = "ERO"
  BY DEF EroObject
<1>2. ObjectBody(o) = EroBody(o) /\ ObjectLen(o) = EroLen(o)
  BY <1>1 DEF ObjectBody, ObjectLen
<1>3. /\ IsText(EroBody(o)) /\ EroLen(o) = 4 + 4 * Len(EroBody(o))
      /\ ToSegmentList(EroBody(o)) = segs
  BY EroBack
<1> QED
  BY <1>1, <1>2, <1>3 DEF ObjectFits

(* One word, which is no header.                                           *)
LEMMA OneWord ==
    ASSUME NEW w, w[1] \notin {"obj", "tlv"}, 1 \in DOMAIN w
    PROVE  IsText(<<w>>) /\ Len(<<w>>) = 1 /\ <<w>>[1] = w
<1>1. Field(w, 1, "zero") # "obj"
  BY DEF Field
<1>2. IsWord(w)
  BY <1>1 DEF IsWord
<1> QED
  BY <1>2, TextOfOne, SingleList

(* A Close object fits, and its reason is read back.                       *)
LEMMA CloseObjectBack ==
    ASSUME NEW reason, NEW o, o = CloseObject(reason)
    PROVE  ObjectFits(o) /\ o.class = "Close" /\ CloseOf(ObjectBody(o)).reason = reason
<1>1. o.class = "Close" /\ o.reason = reason
  BY DEF CloseObject
<1>2. ObjectBody(o) = CloseBody(o) /\ ObjectLen(o) = CloseLen
  BY <1>1 DEF ObjectBody, ObjectLen
<1>3. PICK w, body : w = <<"close", reason>> /\ body = <<w>>
  OBVIOUS
<1>4. CloseBody(o) = body
  BY <1>1, <1>3, Zenon DEF CloseBody
<1>5. IsText(body) /\ Len(body) = 1 /\ body[1] = w
  <2>1. w[1] \notin {"obj", "tlv"} /\ 1 \in DOMAIN w
    BY <1>3
  <2> QED
    BY <1>3, <2>1, OneWord
<1>6. Field(body[1], 2, 0) = reason
  BY <1>3, <1>5 DEF Field
<1>7. ObjectFits(o)
  BY <1>2, <1>4, <1>5 DEF ObjectFits, CloseLen
<1>8. CloseOf(body).reason = reason
  BY <1>6, Zenon DEF CloseOf, CloseObject
<1> QED
  BY <1>1, <1>2, <1>4, <1>7, <1>8

(* END-POINTS.                                                             *)
LEMMA EndpointsBack ==
    ASSUME NEW src, NEW dst, SameFamily(src, dst), NEW o, o = EndpointsObject(src, dst)
    PROVE  /\ ObjectFits(o) /\ o.class = "Endpoints"
           /\ LET body == ObjectBody(o)
                  n == Len(body) \div 2
              IN  DataAt(Slice(body, 1, n)) = src /\ DataAt(Slice(body, n + 1, n)) = dst
<1>1. o.class = "Endpoints" /\ o.src = src /\ o.dst = dst
  BY DEF EndpointsObject
<1>2. ObjectBody(o) = EndpointsBody(o) /\ ObjectLen(o) = EndpointsLen(o)
  BY <1>1 DEF ObjectBody, ObjectLen
<1>3. src \in Addr /\ dst \in Addr
  BY DEF SameFamily, Addr
<1>4. PICK k \in {1, 4} : AddrLen(src) = k /\ AddrLen(dst) = k /\ EndpointsLen(o) = 4 + 8 * k
  <2>1. CASE {src, dst} \subseteq IPv4
    <3>1. AddrLen(src) = 1 /\ AddrLen(dst) = 1
      BY <2>1, AddrLengths
    <3>2. EndpointsLen(o) = 12
      BY <1>1, <2>1 DEF EndpointsLen
    <3> QED
      BY <3>1, <3>2
  <2>2. CASE {src, dst} \subseteq IPv6
    <3>1. AddrLen(src) = 4 /\ AddrLen(dst) = 4
      BY <2>2, AddrLengths
    <3>2. EndpointsLen(o) = 36
      BY <1>1, <2>2, CodecAssumption DEF EndpointsLen
    <3> QED
      BY <3>1, <3>2
  <2> QED
    BY <2>1, <2>2 DEF SameFamily
<1>5. PICK a, b, body : a = AsSlice(src) /\ b = AsSlice(dst) /\ body = a \o b
  OBVIOUS
<1>6. /\ DataAt(a) = src /\ IsText(a) /\ Len(a) = k
      /\ DataAt(b) = dst /\ IsText(b) /\ Len(b) = k
  BY <1>3, <1>4, <1>5, SliceBack
<1>7. EndpointsBody(o) = body
  BY <1>1, <1>5, Zenon DEF EndpointsBody
<1>8. Behind(body, a, k, b)
  BY <1>5, <1>6, TextBehind
<1>9. /\ IsText(body) /\ Listed(body) /\ (\A i \in 1 .. k : body[i] = a[i])
      /\ SubSeq(body, k + 1, Len(body)) = b /\ Len(body) = k + k
  BY <1>6, <1>8 DEF Behind
<1>10. Len(body) \div 2 = k /\ Len(body) = 2 * k
  BY <1>9
<1>11. Slice(body, k + 1, k) = b
  <2>1. k + 1 + k - 1 = Len(body)
    BY <1>9
  <2> QED
    BY <1>9, <2>1, Zenon DEF Slice
<1>12. Slice(body, 1, k) = a
  <2>1. Listed(a) /\ Listed(b)
    BY <1>6 DEF IsText
  <2>2. SubSeq(a \o b, 1, k) = SubSeq(a, 1, k)
    <3>1. 1 \in Nat /\ k \in Nat /\ 1 <= 1 /\ 1 <= k + 1 /\ k <= Len(a)
      BY <1>6
    <3> QED
      BY <2>1, <3>1, PartOfFirst
  <2>3. SubSeq(a, 1, k) = a
    BY <1>6, <2>1, WholePart
  <2>4. 1 + k - 1 = k
    OBVIOUS
  <2> QED
    BY <1>5, <2>2, <2>3, <2>4, Zenon DEF Slice
<1>13. ObjectFits(o)
  <2>1. EndpointsLen(o) = 4 + 4 * Len(body)
    BY <1>4, <1>10
  <2> QED
    BY <1>2, <1>7, <1>9, <2>1 DEF ObjectFits
<1>14. ObjectBody(o) = body
  BY <1>2, <1>7
<1>15. DataAt(Slice(body, 1, k)) = src /\ DataAt(Slice(body, k + 1, k)) = dst
  BY <1>6, <1>11, <1>12
<1> QED
  BY <1>1, <1>10, <1>13, <1>14, <1>15, Zenon

(* ASSOCIATION.  A Juniper PCC's has an endpoint of IPv4 and no originator. *)
AssociationTLVs(tlvs, idType, pathType, preferenceType, color, dst, asn, origin, preference) ==
    /\ idType \in ExtendedAssociationIDs /\ pathType \in CPathIDs
    /\ preferenceType \in CPathPreferences
    /\ dst \in Addr /\ (idType = "ExtendedAssociationIDIPv4Juniper" => dst \in IPv4)
    /\ origin \in Addr \cup {Unspecified}
    /\ tlvs = <<ExtendedAssociationID(idType, color, dst),
                CandidatePathIdentifier(pathType, asn, origin),
                CandidatePathPreference(preferenceType, preference)>>

(* The TLVs of an ASSOCIATION object are read back.                        *)
LEMMA AssociationTLVsBack ==
    ASSUME NEW tlvs, NEW idType, NEW pathType, NEW preferenceType, NEW color, NEW dst, NEW asn,
           NEW origin, NEW preference,
           AssociationTLVs(tlvs, idType, pathType, preferenceType, color, dst, asn, origin, preference)
    PROVE  /\ IsText(TLVsWords(tlvs)) /\ TLVsLen(tlvs) = 4 * Len(TLVsWords(tlvs))
           /\ DecodeTLVs(TLVsWords(tlvs)) = tlvs
           /\ HasTLV(tlvs, ExtendedAssociationIDs) /\ HasTLV(tlvs, CPathPreferences)
           /\ FirstTLV(tlvs, ExtendedAssociationIDs).color = color
           /\ FirstTLV(tlvs, ExtendedAssociationIDs).endpoint = dst
           /\ FirstTLV(tlvs, CPathPreferences).preference = preference
           /\ FirstTLV(tlvs, CPathIDs).asn = asn /\ FirstTLV(tlvs, CPathIDs).addr = origin
<1>1. /\ idType \in ExtendedAssociationIDs /\ pathType \in CPathIDs
      /\ preferenceType \in CPathPreferences
      /\ dst \in Addr /\ (idType = "ExtendedAssociationIDIPv4Juniper" => dst \in IPv4)
      /\ origin \in Addr \cup {Unspecified}
  BY DEF AssociationTLVs
<1>2. PICK a, b, c : /\ a = ExtendedAssociationID(idType, color, dst)
                     /\ b = CandidatePathIdentifier(pathType, asn, origin)
                     /\ c = CandidatePathPreference(preferenceType, preference)
  OBVIOUS
<1>3. tlvs = <<a, b, c>>
  BY <1>2 DEF AssociationTLVs
<1>4. TLVBack(a) /\ TLVBack(b) /\ TLVBack(c)
  BY <1>1, <1>2, ExtendedAssociationIDBack, CPathIDBack, CPathPreferenceBack
<1>5. Listed(tlvs) /\ Len(tlvs) = 3 /\ tlvs[1] = a /\ tlvs[2] = b /\ tlvs[3] = c
  BY <1>3, TripleList
<1>6. \A i \in 1 .. Len(tlvs) : TLVFramed(tlvs[i]) /\ TLVBack(tlvs[i])
  BY <1>4, <1>5 DEF TLVBack
<1>7. /\ a.type = idType /\ a.color = color /\ a.endpoint = dst
      /\ b.type = pathType /\ b.asn = asn /\ b.addr = origin
      /\ c.type = preferenceType /\ c.preference = preference
  BY <1>2 DEF ExtendedAssociationID, CandidatePathIdentifier, CandidatePathPreference
<1>8. /\ ExtendedAssociationIDs \cap CPathIDs = {} /\ ExtendedAssociationIDs \cap CPathPreferences = {}
      /\ CPathIDs \cap CPathPreferences = {}
  BY DEF ExtendedAssociationIDs, CPathIDs, CPathPreferences
<1>9. /\ a.type \in ExtendedAssociationIDs
      /\ a.type \notin CPathIDs /\ b.type \in CPathIDs
      /\ a.type \notin CPathPreferences /\ b.type \notin CPathPreferences /\ c.type \in CPathPreferences
  BY <1>1, <1>7, <1>8
<1>10. /\ FirstAt(tlvs, ExtendedAssociationIDs, 1) /\ FirstAt(tlvs, CPathIDs, 2)
       /\ FirstAt(tlvs, CPathPreferences, 3)
  BY <1>5, <1>9 DEF FirstAt
<1>11. /\ HasTLV(tlvs, ExtendedAssociationIDs) /\ FirstTLV(tlvs, ExtendedAssociationIDs) = tlvs[1]
       /\ HasTLV(tlvs, CPathIDs) /\ FirstTLV(tlvs, CPathIDs) = tlvs[2]
       /\ HasTLV(tlvs, CPathPreferences) /\ FirstTLV(tlvs, CPathPreferences) = tlvs[3]
  BY <1>10, FirstOfTypes
<1>12. /\ IsText(TLVsWords(tlvs)) /\ TLVsLen(tlvs) = 4 * Len(TLVsWords(tlvs))
       /\ DecodeTLVs(TLVsWords(tlvs)) = tlvs
  BY <1>5, <1>6, TLVsFramed, TLVsRead
<1> QED
  BY <1>5, <1>7, <1>11, <1>12

ReadAssociation(o, color, dst, preference, asn, origin) ==
    LET a == AssociationOf(o.otype, ObjectBody(o))
        id == FirstTLV(a.tlvs, CPathIDs)
    IN  /\ AssociationColor(a) = color /\ AssociationEndpoint(a) = dst
        /\ AssociationPreference(a) = preference
        /\ id.asn = asn /\ id.addr = origin

(* An ASSOCIATION object fits, and says color, endpoint, preference, ASN   *)
(* and originator.                                                         *)
LEMMA AssociationBack ==
    ASSUME NEW kind, NEW src, NEW dst, AssociationEncodable(kind, src, dst),
           NEW color, NEW preference, NEW asn,
           NEW o, o = AssociationObject(kind, src, dst, color, preference, asn),
           NEW origin, origin = IF kind = "JuniperLegacy" THEN Unspecified ELSE dst
    PROVE  /\ ObjectFits(o) /\ o.class = "Association"
           /\ ReadAssociation(o, color, dst, preference, asn, origin)
<1>1. PICK tlvs, rest : tlvs = o.tlvs /\ rest = TLVsWords(tlvs)
  OBVIOUS
<1>2. /\ o.class = "Association" /\ o.src = src /\ o.otype = IF src \in IPv4 THEN 1 ELSE 2
  BY DEF AssociationObject
<1>3. src \in Addr /\ dst \in Addr /\ (kind = "JuniperLegacy" => dst \in IPv4)
  BY DEF AssociationEncodable, SameFamily, Addr
<1>4. \E idType, pathType, preferenceType :
         AssociationTLVs(tlvs, idType, pathType, preferenceType, color, dst, asn, origin, preference)
  <2>1. CASE kind = "JuniperLegacy"
    <3>1. tlvs = <<ExtendedAssociationID("ExtendedAssociationIDIPv4Juniper", color, dst),
                   CandidatePathIdentifier("SRPolicyCPathIDJuniper", asn, origin),
                   CandidatePathPreference("SRPolicyCPathPreferenceJuniper", preference)>>
      BY <1>1, <2>1 DEF AssociationObject
    <3>2. /\ "ExtendedAssociationIDIPv4Juniper" \in ExtendedAssociationIDs
          /\ "SRPolicyCPathIDJuniper" \in CPathIDs
          /\ "SRPolicyCPathPreferenceJuniper" \in CPathPreferences
      BY DEF ExtendedAssociationIDs, CPathIDs, CPathPreferences
    <3>3. dst \in IPv4 /\ origin \in Addr \cup {Unspecified}
      BY <1>3, <2>1
    <3> QED
      BY <1>3, <3>1, <3>2, <3>3 DEF AssociationTLVs
  <2>2. CASE kind # "JuniperLegacy"
    <3>1. tlvs = <<ExtendedAssociationID("ExtendedAssociationID", color, dst),
                   CandidatePathIdentifier("SRPolicyCPathID", asn, origin),
                   CandidatePathPreference("SRPolicyCPathPreference", preference)>>
      BY <1>1, <2>2 DEF AssociationObject
    <3>2. /\ "ExtendedAssociationID" \in ExtendedAssociationIDs
          /\ "SRPolicyCPathID" \in CPathIDs /\ "SRPolicyCPathPreference" \in CPathPreferences
          /\ "ExtendedAssociationID" # "ExtendedAssociationIDIPv4Juniper"
      BY DEF ExtendedAssociationIDs, CPathIDs, CPathPreferences
    <3>3. origin \in Addr \cup {Unspecified}
      BY <1>3, <2>2
    <3> QED
      BY <1>3, <3>1, <3>2, <3>3 DEF AssociationTLVs
  <2> QED
    BY <2>1, <2>2
<1>5. /\ IsText(rest) /\ TLVsLen(tlvs) = 4 * Len(rest)
      /\ DecodeTLVs(rest) = tlvs
      /\ HasTLV(tlvs, ExtendedAssociationIDs) /\ HasTLV(tlvs, CPathPreferences)
      /\ FirstTLV(tlvs, ExtendedAssociationIDs).color = color
      /\ FirstTLV(tlvs, ExtendedAssociationIDs).endpoint = dst
      /\ FirstTLV(tlvs, CPathPreferences).preference = preference
      /\ FirstTLV(tlvs, CPathIDs).asn = asn /\ FirstTLV(tlvs, CPathIDs).addr = origin
  BY <1>1, <1>4, AssociationTLVsBack
<1>6. PICK k \in {1, 4} :
         AddrLen(src) = k /\ k = (IF src \in IPv4 THEN 1 ELSE 4) /\ k = AssociationSrcWords(o.otype)
  <2>1. CASE src \in IPv4
    <3>1. AddrLen(src) = 1 /\ o.otype = 1
      BY <1>2, <2>1, AddrLengths
    <3> QED
      BY <2>1, <3>1 DEF AssociationSrcWords
  <2>2. CASE src \notin IPv4
    <3>1. AddrLen(src) = 4 /\ o.otype = 2
      BY <1>2, <1>3, <2>2, AddrLengths DEF Addr
    <3> QED
      BY <2>2, <3>1 DEF AssociationSrcWords
  <2> QED
    BY <2>1, <2>2
<1>7. PICK w, v, h, a : /\ w = <<>> /\ v = <<"assoc", o.assocType, o.assocID>> /\ h = <<w, v>>
                        /\ a = AsSlice(src)
  OBVIOUS
<1>8. IsWord(w) /\ IsWord(v)
  <2>1. v[1] = "assoc" /\ Field(v, 1, "zero") = "assoc"
    BY <1>7 DEF Field
  <2>2. IsWord(w)
    BY <1>7, Words
  <2> QED
    BY <2>1, <2>2 DEF IsWord
<1>9. Listed(h) /\ Len(h) = 2 /\ h[1] = w /\ h[2] = v
  BY <1>7, PairList
<1>10. IsText(h)
  BY <1>8, <1>9 DEF IsText
<1>11. DataAt(a) = src /\ IsText(a) /\ Len(a) = k
  BY <1>3, <1>6, <1>7, SliceBack
<1>12. PICK front, body : front = h \o a /\ body = front \o rest
  OBVIOUS
<1>13. Behind(front, h, 2, a)
  BY <1>9, <1>10, <1>11, <1>12, TextBehind
<1>14. /\ IsText(front) /\ Listed(front) /\ SubSeq(front, 2 + 1, Len(front)) = a
       /\ Len(front) = 2 + k
  BY <1>11, <1>13 DEF Behind
<1>15. PICK n \in Nat : n = 2 + k
  OBVIOUS
<1>16. Behind(body, front, n, rest)
  BY <1>5, <1>12, <1>14, <1>15, TextBehind
<1>17. /\ IsText(body) /\ SubSeq(body, n + 1, Len(body)) = rest /\ Len(body) = n + Len(rest)
  BY <1>16 DEF Behind
<1>18. SubSeq(body, 3, n) = a
  <2>1. Listed(front) /\ Listed(rest)
    BY <1>5, <1>14 DEF IsText
  <2>2. 3 \in Nat /\ 1 <= 3 /\ 3 <= n + 1 /\ n <= Len(front)
    BY <1>14, <1>15
  <2>3. SubSeq(front \o rest, 3, n) = SubSeq(front, 3, n)
    BY <2>1, <2>2, PartOfFirst
  <2>4. 2 + 1 = 3 /\ Len(front) = n
    BY <1>14, <1>15
  <2> QED
    BY <1>12, <1>14, <2>3, <2>4
<1>19. AssociationBody(o) = body
  BY <1>1, <1>2, <1>7, <1>12, Zenon DEF AssociationBody
<1>20. ObjectBody(o) = body /\ ObjectLen(o) = AssociationLen(o)
  BY <1>2, <1>19 DEF ObjectBody, ObjectLen
<1>21. AssociationLen(o) = 4 + 4 * Len(body)
  <2>1. PICK m \in Nat : m = Len(rest)
    BY <1>5, ListIs DEF IsText
  <2>2. AssociationLen(o) = 4 + (IF src \in IPv4 THEN 12 ELSE 24) + 4 * m
    BY <1>1, <1>2, <1>5, <2>1 DEF AssociationLen
  <2>3. Len(body) = 2 + k + m
    BY <1>15, <1>17, <2>1
  <2> QED
    BY <1>6, <2>2, <2>3
<1>22. AssociationOf(o.otype, body).tlvs = tlvs
  <2>1. PICK first : first = 3 + AssociationSrcWords(o.otype)
    OBVIOUS
  <2>2. first = n + 1
    BY <1>6, <1>15, <2>1
  <2>3. DecodeTLVs(SubSeq(body, first, Len(body))) = tlvs
    BY <1>5, <1>17, <2>2
  <2> QED
    BY <2>1, <2>3, Zenon DEF AssociationOf
<1>23. ReadAssociation(o, color, dst, preference, asn, origin)
  <2>1. PICK x : x = AssociationOf(o.otype, body)
    OBVIOUS
  <2>2. /\ AssociationColor(x) = color /\ AssociationEndpoint(x) = dst
        /\ AssociationPreference(x) = preference
    BY <1>5, <1>22, <2>1, Zenon DEF AssociationColor, AssociationEndpoint, AssociationPreference
  <2>3. FirstTLV(x.tlvs, CPathIDs).asn = asn /\ FirstTLV(x.tlvs, CPathIDs).addr = origin
    BY <1>5, <1>22, <2>1
  <2> QED
    BY <1>20, <2>1, <2>2, <2>3, Zenon DEF ReadAssociation
<1> QED
  BY <1>2, <1>17, <1>20, <1>21, <1>23 DEF ObjectFits

(* VENDOR-INFORMATION.                                                     *)
LEMMA RawBack ==
    ASSUME NEW typ, NEW n, NEW t, t = UnknownTLV(typ, 4, <<Uint(n)>>)
    PROVE  TLVFramed(t) /\ KeptRaw(t)
<1>1. PICK value : value = <<Uint(n)>>
  OBVIOUS
<1>2. /\ t.type = "UnknownTLV" /\ t.typ = typ /\ t.octets = 4 /\ t.value = value
  BY <1>1 DEF UnknownTLV
<1>3. IsText(value) /\ Len(value) = 1
  <2>1. IsWord(Uint(n))
    BY Words
  <2> QED
    BY <1>1, <2>1, TextOfOne, SingleList
<1>4. PlainLength(t) = 4
  BY <1>2 DEF PlainLength
<1>5. PlainValue(t) = value
  BY <1>2 DEF PlainValue, CPathIDs, CPathPreferences, ExtendedAssociationIDs
<1>6. WireType(t) = typ /\ ~HoldsTLVs(t) /\ t # ErrorTLV
  BY <1>2 DEF WireType, HoldsTLVs, ErrorTLV
<1>7. DecodeUnknown(typ, 4, value) = t
  BY <1>1 DEF DecodeUnknown
<1>8. PlainLength(t) \in Nat /\ PaddedWords(PlainLength(t)) = 1
  BY <1>4, Padding
<1>9. TLVFramed(t)
  BY <1>3, <1>5, <1>6, <1>8 DEF TLVFramed
<1>10. KeptRaw(t)
  BY <1>4, <1>5, <1>6, <1>7 DEF KeptRaw
<1> QED
  BY <1>9, <1>10

ReadVendor(o, color, preference) ==
    LET v == VendorInformationObjectOf(ObjectBody(o))
    IN  SubTLVUint32(v, "ColorCisco") = color /\ SubTLVUint32(v, "PreferenceCisco") = preference

(* A VENDOR-INFORMATION object fits, and says color and preference.        *)
LEMMA VendorBack ==
    ASSUME NEW color, NEW preference, NEW o, o = VendorInformationObject(color, preference)
    PROVE  /\ ObjectFits(o) /\ o.class = "VendorInformation" /\ ReadVendor(o, color, preference)
<1>1. PICK tlvs, rest : tlvs = o.tlvs /\ rest = TLVsWords(tlvs)
  OBVIOUS
<1>2. o.class = "VendorInformation" /\ o.enterprise = "Cisco"
  BY DEF VendorInformationObject
<1>3. PICK a, b : /\ a = UnknownTLV("ColorCisco", 4, <<Uint(color)>>)
                  /\ b = UnknownTLV("PreferenceCisco", 4, <<Uint(preference)>>)
  OBVIOUS
<1>4. tlvs = <<a, b>>
  BY <1>1, <1>3, Zenon DEF VendorInformationObject
<1>5. Listed(tlvs) /\ Len(tlvs) = 2 /\ tlvs[1] = a /\ tlvs[2] = b
  BY <1>4, PairList
<1>6. TLVFramed(a) /\ KeptRaw(a) /\ TLVFramed(b) /\ KeptRaw(b)
  BY <1>3, RawBack
<1>7. \A i \in 1 .. Len(tlvs) : TLVFramed(tlvs[i]) /\ KeptRaw(tlvs[i])
  BY <1>5, <1>6
<1>8. /\ IsText(rest) /\ TLVsLen(tlvs) = 4 * Len(rest) /\ DecodeVendorTLVs(rest) = tlvs
  BY <1>1, <1>5, <1>7, TLVsFramed, VendorTLVsRead
<1>9. PICK w, h, body : w = <<"data", "Cisco", 1>> /\ h = <<w>> /\ body = h \o rest
  OBVIOUS
<1>10. Data("Cisco", 1) = h
  <2>1. PICK d : d = Data("Cisco", 1)
    OBVIOUS
  <2>2. Listed(d) /\ Len(d) = 1 /\ \A i \in 1 .. 1 : d[i] = <<"data", "Cisco", i>>
    BY <2>1, DataListed
  <2>3. Listed(h) /\ Len(h) = 1 /\ h[1] = w
    BY <1>9, SingleList
  <2>4. d[1] = h[1]
    BY <1>9, <2>2, <2>3
  <2>5. \A i \in 1 .. Len(d) : d[i] = h[i]
    BY <2>2, <2>4
  <2>6. d = h
    BY <2>2, <2>3, <2>5, SameList
  <2> QED
    BY <2>1, <2>6
<1>11. IsWord(w)
  <2>1. w[1] = "data" /\ Field(w, 1, "zero") = "data"
    BY <1>9 DEF Field
  <2> QED
    BY <2>1 DEF IsWord
<1>12. IsText(body) /\ Len(body) = 1 + Len(rest) /\ Tail(body) = rest
  <2>1. After(body, w, rest)
    BY <1>8, <1>9, <1>11, TextBehindOne
  <2> QED
    BY <2>1 DEF After
<1>13. VendorInformationBody(o) = body
  BY <1>1, <1>2, <1>9, <1>10, Zenon DEF VendorInformationBody
<1>14. ObjectBody(o) = body /\ ObjectLen(o) = VendorInformationLen(o)
  BY <1>2, <1>13 DEF ObjectBody, ObjectLen
<1>15. VendorInformationLen(o) = 4 + 4 * Len(body)
  <2>1. PICK n \in Nat : n = Len(rest)
    BY <1>8, ListIs DEF IsText
  <2>2. VendorInformationLen(o) = 8 + 4 * n /\ Len(body) = 1 + n
    BY <1>1, <1>8, <1>12, <2>1 DEF VendorInformationLen
  <2> QED
    BY <2>2
<1>16. VendorInformationObjectOf(body).tlvs = tlvs
  BY <1>8, <1>12, Zenon DEF VendorInformationObjectOf
<1>17. /\ a.typ = "ColorCisco" /\ a.octets = 4 /\ a.value = <<Uint(color)>>
       /\ b.typ = "PreferenceCisco" /\ b.octets = 4 /\ b.value = <<Uint(preference)>>
  BY <1>3, Zenon DEF UnknownTLV
<1>18. ReadVendor(o, color, preference)
  <2>1. PICK x : x = VendorInformationObjectOf(body)
    OBVIOUS
  <2>2. x.tlvs = tlvs
    BY <1>16, <2>1
  <2>3. SelectInSeq(x.tlvs, LAMBDA t : t.typ = "ColorCisco") = 1
    <3>1. PICK I : I = {i \in 1 .. Len(tlvs) : tlvs[i].typ = "ColorCisco"}
      OBVIOUS
    <3>2. I = {1}
      BY <1>5, <1>17, <3>1
    <3>3. Min(I) = 1
      BY <3>2 DEF Min
    <3> QED
      BY <2>2, <3>1, <3>2, <3>3 DEF SelectInSeq
  <2>4. SelectInSeq(x.tlvs, LAMBDA t : t.typ = "PreferenceCisco") = 2
    <3>1. PICK I : I = {i \in 1 .. Len(tlvs) : tlvs[i].typ = "PreferenceCisco"}
      OBVIOUS
    <3>2. I = {2}
      BY <1>5, <1>17, <3>1
    <3>3. Min(I) = 2
      BY <3>2 DEF Min
    <3> QED
      BY <2>2, <3>1, <3>2, <3>3 DEF SelectInSeq
  <2>5. UintAt(a.value[1]) = color /\ UintAt(b.value[1]) = preference
    <3>1. a.value[1] = Uint(color) /\ b.value[1] = Uint(preference)
      BY <1>17
    <3> QED
      BY <3>1, Words
  <2>6. ~(4 < 4) /\ 1 # 0 /\ 2 # 0
    OBVIOUS
  <2>7. SubTLVUint32(x, "ColorCisco") = color
    BY <1>5, <1>17, <2>2, <2>3, <2>5, <2>6 DEF SubTLVUint32
  <2>8. SubTLVUint32(x, "PreferenceCisco") = preference
    BY <1>5, <1>17, <2>2, <2>4, <2>5, <2>6 DEF SubTLVUint32
  <2> QED
    BY <1>14, <2>1, <2>7, <2>8, Zenon DEF ReadVendor
<1> QED
  BY <1>2, <1>12, <1>14, <1>15, <1>18 DEF ObjectFits

(* What is read of an object.                                              *)
LEMMA ReadOfIs ==
    ASSUME NEW o
    PROVE  /\ ReadOf(o).class = o.class /\ ReadOf(o).otype = o.otype /\ ReadOf(o).framed
           /\ ReadOf(o).body = ObjectBody(o)
  BY DEF ReadOf, ObjectOf

------------------------------------------------------------------------------
(* What a message says                                                     *)

(* A message means what its objects mean.                                  *)
LEMMA MessageMeans ==
    ASSUME NEW type, NEW objs, Listed(objs), \A i \in 1 .. Len(objs) : ObjectFits(objs[i]),
           NEW meaning, \A read : IsRead(read, objs) => ObjectsMeaning(type, read) = meaning
    PROVE  ReadsAs(MessageWords(type, objs), meaning)
<1>1. PICK n \in Nat : n = Len(objs)
  BY ListIs
<1>2. PICK read : read = [i \in 1 .. n |-> ReadOf(objs[i])]
  OBVIOUS
<1>3. read = [i \in 1 .. n |-> read[i]] /\ \A i \in 1 .. n : read[i] = ReadOf(objs[i])
  BY <1>2
<1>4. Listed(read) /\ Len(read) = n
  BY <1>3, ListOf
<1>5. IsRead(read, objs)
  BY <1>1, <1>3, <1>4 DEF IsRead
<1>6. PICK words : words = MessageWords(type, objs)
  OBVIOUS
<1>7. ReadAsObjects(words, type, read)
  BY <1>5, <1>6, MessageBack
<1>8. words[1] = MsgHdr(type, 4 * Len(words)) /\ ObjectsOf(Tail(words)) = read
  BY <1>7 DEF ReadAsObjects
<1>9. words[1][2] = type /\ words[1][3] = 4 * Len(words)
  BY <1>8 DEF MsgHdr
<1>10. \A j \in 1 .. Len(read) : read[j].framed
  <2>1. \A j \in 1 .. Len(read) : read[j] = ReadOf(objs[j])
    BY <1>3, <1>4
  <2> QED
    BY <2>1, ReadOfIs
<1>11. Meaning(words) = meaning
  <2>1. Meaning(words) = ObjectsMeaning(type, read)
    BY <1>8, <1>9, Zenon DEF Meaning
  <2> QED
    BY <1>5, <2>1
<1> QED
  BY <1>6, <1>8, <1>9, <1>10, <1>11, Zenon DEF ReadsAs

(* The first object of a class in a message, and in what is read from it.  *)
FirstAmong(objs, class, o) ==
    \E i \in 1 .. Len(objs) :
       objs[i] = o /\ o.class = class /\ \A j \in 1 .. i - 1 : objs[j].class # class

NoneAmong(objs, class) == \A i \in 1 .. Len(objs) : objs[i].class # class

(* The first object of a class in a message is the first one the PCC       *)
(* reads.                                                                  *)
LEMMA FirstRead ==
    ASSUME NEW objs, Listed(objs), NEW read, IsRead(read, objs), NEW class, NEW o,
           FirstAmong(objs, class, o)
    PROVE  /\ OfClass(read, class)[1] = ReadOf(o) /\ FirstOf(read, class) = {ReadOf(o)}
<1>1. PICK i \in 1 .. Len(objs) :
         objs[i] = o /\ o.class = class /\ \A j \in 1 .. i - 1 : objs[j].class # class
  BY DEF FirstAmong
<1>2. Listed(read) /\ Len(read) = Len(objs) /\ \A j \in 1 .. Len(objs) : read[j] = ReadOf(objs[j])
  BY DEF IsRead
<1>3. i \in 1 .. Len(read) /\ read[i] = ReadOf(o) /\ read[i].class = class
  BY <1>1, <1>2, ReadOfIs
<1>4. \A j \in 1 .. i - 1 : read[j].class # class
  <2>1. \A j \in 1 .. i - 1 : j \in 1 .. Len(objs)
    BY ListIs
  <2> QED
    BY <1>1, <1>2, <2>1, ReadOfIs
<1>5. OfClass(read, class) # <<>> /\ OfClass(read, class)[1] = read[i]
  BY <1>2, <1>3, <1>4, FirstOfClass
<1> QED
  BY <1>3, <1>5 DEF FirstOf

(* A class without an object in a message has none in what is read.        *)
LEMMA NoneRead ==
    ASSUME NEW objs, Listed(objs), NEW read, IsRead(read, objs), NEW class, NoneAmong(objs, class)
    PROVE  FirstOf(read, class) = {}
<1>1. Listed(read) /\ Len(read) = Len(objs) /\ \A j \in 1 .. Len(objs) : read[j] = ReadOf(objs[j])
  BY DEF IsRead
<1>2. \A j \in 1 .. Len(read) : read[j].class # class
  BY <1>1, ReadOfIs DEF NoneAmong
<1>3. OfClass(read, class) = <<>>
  BY <1>1, <1>2, NoneOfClass
<1> QED
  BY <1>3 DEF FirstOf

(* What the objects of a request say, those a request may do without as    *)
(* sets of at most one element.                                            *)
SaysSRP(objs, srpID, remove) ==
    \E o : FirstAmong(objs, "SRP", o)
           /\ SrpOf(ObjectBody(o)).srpID = srpID /\ SrpOf(ObjectBody(o)).rFlag = remove

SaysLSP(objs, plspID, name, color) ==
    \E o : FirstAmong(objs, "LSP", o)
           /\ LSPOf(ObjectBody(o)).plspID = plspID /\ LSPOf(ObjectBody(o)).name = name
           /\ LSPColor(LSPOf(ObjectBody(o))) = color

SaysPath(objs, path) ==
    \/ NoneAmong(objs, "ERO") /\ path = <<>>
    \/ \E o : FirstAmong(objs, "ERO", o) /\ ToSegmentList(ObjectBody(o)) = path

SaysEnds(objs, ends) ==
    \/ NoneAmong(objs, "Endpoints") /\ ends = {}
    \/ \E o : FirstAmong(objs, "Endpoints", o) /\ ends = {EndsOf(ReadOf(o))}

SaysAssociation(objs, association) ==
    \/ NoneAmong(objs, "Association") /\ association = {}
    \/ \E o : FirstAmong(objs, "Association", o) /\ association = {AssociatedBy(ReadOf(o))}

SaysVendor(objs, vendor) ==
    \/ NoneAmong(objs, "VendorInformation") /\ vendor = {}
    \/ \E o : FirstAmong(objs, "VendorInformation", o) /\ vendor = {VendorSays(ReadOf(o))}

Says(objs, m) ==
    /\ SaysSRP(objs, m.srpID, m.remove) /\ SaysLSP(objs, m.plspID, m.name, m.lspColor)
    /\ SaysPath(objs, m.segs) /\ SaysEnds(objs, m.ends)
    /\ SaysAssociation(objs, m.association) /\ SaysVendor(objs, m.vendor)

(* The path the PCC reads is that of the ERO, if there is one.             *)
LEMMA PathRead ==
    ASSUME NEW objs, Listed(objs), NEW read, IsRead(read, objs), NEW path, SaysPath(objs, path)
    PROVE  (CHOOSE p \in PathsIn(read) \cup {<<>>} : PathsIn(read) \subseteq {p}) = path
<1>1. CASE NoneAmong(objs, "ERO") /\ path = <<>>
  <2>1. FirstOf(read, "ERO") = {}
    BY <1>1, NoneRead
  <2>2. PathsIn(read) = {}
    BY <2>1 DEF PathsIn
  <2> QED
    BY <1>1, <2>2
<1>2. ASSUME NEW o, FirstAmong(objs, "ERO", o), ToSegmentList(ObjectBody(o)) = path
      PROVE  (CHOOSE p \in PathsIn(read) \cup {<<>>} : PathsIn(read) \subseteq {p}) = path
  <2>1. FirstOf(read, "ERO") = {ReadOf(o)}
    BY <1>2, FirstRead
  <2>2. ToSegmentList(ReadOf(o).body) = path
    BY <1>2, ReadOfIs, Zenon
  <2>3. PathsIn(read) = {path}
    BY <2>1, <2>2 DEF PathsIn
  <2> QED
    BY <2>3
<1> QED
  BY <1>1, <1>2 DEF SaysPath

(* So with endpoints, association and vendor information.                  *)
LEMMA CarriedRead ==
    ASSUME NEW objs, Listed(objs), NEW read, IsRead(read, objs)
    PROVE  /\ \A ends : SaysEnds(objs, ends)
                           => {EndsOf(o) : o \in FirstOf(read, "Endpoints")} = ends
           /\ \A association : SaysAssociation(objs, association)
                           => {AssociatedBy(o) : o \in FirstOf(read, "Association")} = association
           /\ \A vendor : SaysVendor(objs, vendor)
                           => {VendorSays(o) : o \in FirstOf(read, "VendorInformation")} = vendor
<1>1. \A class : NoneAmong(objs, class) => FirstOf(read, class) = {}
  BY NoneRead
<1>2. \A class, o : FirstAmong(objs, class, o) => FirstOf(read, class) = {ReadOf(o)}
  BY FirstRead
<1>3. ASSUME NEW ends, SaysEnds(objs, ends)
      PROVE  {EndsOf(o) : o \in FirstOf(read, "Endpoints")} = ends
  BY <1>1, <1>2, <1>3 DEF SaysEnds
<1>4. ASSUME NEW association, SaysAssociation(objs, association)
      PROVE  {AssociatedBy(o) : o \in FirstOf(read, "Association")} = association
  BY <1>1, <1>2, <1>4 DEF SaysAssociation
<1>5. ASSUME NEW vendor, SaysVendor(objs, vendor)
      PROVE  {VendorSays(o) : o \in FirstOf(read, "VendorInformation")} = vendor
  BY <1>1, <1>2, <1>5 DEF SaysVendor
<1> QED
  BY <1>3, <1>4, <1>5

(* A request whose objects say what is meant is read as what is meant.     *)
LEMMA RequestRead ==
    ASSUME NEW type \in {"LSPInitReq", "Update"}, NEW objs, Listed(objs),
           \A i \in 1 .. Len(objs) : ObjectFits(objs[i]),
           NEW m, Says(objs, m),
           m = [type |-> type, srpID |-> m.srpID, remove |-> m.remove, plspID |-> m.plspID,
                name |-> m.name, lspColor |-> m.lspColor, segs |-> m.segs, ends |-> m.ends,
                association |-> m.association, vendor |-> m.vendor]
    PROVE  ReadsAs(MessageWords(type, objs), m)
<1>1. ASSUME NEW read, IsRead(read, objs) PROVE ObjectsMeaning(type, read) = m
  <2>1. PICK s : /\ FirstAmong(objs, "SRP", s)
                 /\ SrpOf(ObjectBody(s)).srpID = m.srpID /\ SrpOf(ObjectBody(s)).rFlag = m.remove
    BY DEF Says, SaysSRP
  <2>2. PICK l : /\ FirstAmong(objs, "LSP", l)
                 /\ LSPOf(ObjectBody(l)).plspID = m.plspID /\ LSPOf(ObjectBody(l)).name = m.name
                 /\ LSPColor(LSPOf(ObjectBody(l))) = m.lspColor
    BY DEF Says, SaysLSP
  <2>3. OfClass(read, "SRP")[1].body = ObjectBody(s) /\ OfClass(read, "LSP")[1].body = ObjectBody(l)
    <3>1. OfClass(read, "SRP")[1] = ReadOf(s) /\ OfClass(read, "LSP")[1] = ReadOf(l)
      BY <1>1, <2>1, <2>2, FirstRead
    <3> QED
      BY <3>1, ReadOfIs
  <2>4. PICK srp, lsp : srp = SrpOf(ObjectBody(s)) /\ lsp = LSPOf(ObjectBody(l))
    OBVIOUS
  <2>5. ObjectsMeaning(type, read) = RequestMeaning(type, srp, lsp, read)
    <3>1. type # "Open" /\ type # "Keepalive" /\ type # "Close"
      OBVIOUS
    <3>2. srp = SrpOf(OfClass(read, "SRP")[1].body) /\ lsp = LSPOf(OfClass(read, "LSP")[1].body)
      BY <2>3, <2>4
    <3> QED
      BY <3>1, <3>2 DEF ObjectsMeaning
  <2>6. (CHOOSE p \in PathsIn(read) \cup {<<>>} : PathsIn(read) \subseteq {p}) = m.segs
    <3>1. SaysPath(objs, m.segs)
      BY DEF Says
    <3> QED
      BY <1>1, <3>1, PathRead
  <2>7. /\ {EndsOf(o) : o \in FirstOf(read, "Endpoints")} = m.ends
        /\ {AssociatedBy(o) : o \in FirstOf(read, "Association")} = m.association
        /\ {VendorSays(o) : o \in FirstOf(read, "VendorInformation")} = m.vendor
    <3>1. SaysEnds(objs, m.ends) /\ SaysAssociation(objs, m.association) /\ SaysVendor(objs, m.vendor)
      BY DEF Says
    <3> QED
      BY <1>1, <3>1, CarriedRead
  <2>8. srp.srpID = m.srpID /\ srp.rFlag = m.remove /\ lsp.plspID = m.plspID
        /\ lsp.name = m.name /\ LSPColor(lsp) = m.lspColor
    BY <2>1, <2>2, <2>4
  <2>9. RequestMeaning(type, srp, lsp, read)
        = [type |-> type, srpID |-> m.srpID, remove |-> m.remove, plspID |-> m.plspID,
           name |-> m.name, lspColor |-> m.lspColor, segs |-> m.segs, ends |-> m.ends,
           association |-> m.association, vendor |-> m.vendor]
    BY <2>6, <2>7, <2>8, Zenon DEF RequestMeaning
  <2> QED
    BY <2>5, <2>9
<1> QED
  BY <1>1, MessageMeans

------------------------------------------------------------------------------
(* Requests                                                                *)

(* What the request for an SR Policy has.                                  *)
LEMMA AskIs ==
    ASSUME NEW policy, IsAsk(policy)
    PROVE  /\ IsName(policy.name) /\ Listed(policy.segs)
           /\ \A i \in 1 .. Len(policy.segs) : IsSegment(policy.segs[i])
<1>1. policy.name \in DOMAIN Octets /\ Listed(policy.segs)
      /\ \A i \in 1 .. Len(policy.segs) : IsSegment(policy.segs[i])
  BY DEF IsAsk, Listed
<1>2. Octets[policy.name] \in Nat
  BY <1>1, CodecAssumption DEF CodecAssumption
<1>3. IsName(policy.name)
  BY <1>1, <1>2, NameAssumption, Zenon DEF IsName, NameAssumption
<1> QED
  BY <1>1, <1>3

(* The objects of an update: SRP, LSP and ERO.                             *)
LEMMA Trio ==
    ASSUME NEW a, NEW b, NEW c, NEW objs, objs = <<a, b, c>>,
           ObjectFits(a), ObjectFits(b), ObjectFits(c),
           a.class = "SRP", b.class = "LSP", c.class = "ERO"
    PROVE  /\ Listed(objs) /\ \A i \in 1 .. Len(objs) : ObjectFits(objs[i])
           /\ FirstAmong(objs, "SRP", a) /\ FirstAmong(objs, "LSP", b) /\ FirstAmong(objs, "ERO", c)
           /\ NoneAmong(objs, "Endpoints") /\ NoneAmong(objs, "Association")
           /\ NoneAmong(objs, "VendorInformation")
<1>1. Listed(objs) /\ Len(objs) = 3 /\ objs[1] = a /\ objs[2] = b /\ objs[3] = c
  BY TripleList
<1>2. FirstAmong(objs, "SRP", a) /\ FirstAmong(objs, "LSP", b) /\ FirstAmong(objs, "ERO", c)
  BY <1>1 DEF FirstAmong
<1>3. /\ NoneAmong(objs, "Endpoints") /\ NoneAmong(objs, "Association")
      /\ NoneAmong(objs, "VendorInformation")
  BY <1>1 DEF NoneAmong
<1> QED
  BY <1>1, <1>2, <1>3

(* A PCUpd, whatever the path, the name and the ID, is as long as its      *)
(* header says, and a PCC that follows its lengths reads from it the path  *)
(* that is meant.                                                          *)
THEOREM UpdateIsRead ==
    ASSUME NEW srpID, NEW policy, IsAsk(policy), PCUpdEncodable(policy)
    PROVE  ReadsAs(PCUpdMessage(srpID, policy), PCUpdMeaning(srpID, policy))
<1>1. PICK a, b, c : /\ a = SrpObject(policy.segs, srpID, FALSE)
                     /\ b = LSPObject(policy.name, <<>>, policy.plspID)
                     /\ c = EroObject(policy.segs)
  OBVIOUS
<1>2. IsName(policy.name) /\ EncodablePath(policy.segs)
  BY AskIs DEF PCUpdEncodable, EncodablePath
<1>3. /\ ObjectFits(a) /\ SrpOf(ObjectBody(a)) = SrpFields(a)
      /\ a.class = "SRP" /\ a.rFlag = FALSE /\ a.srpID = srpID
  <2>1. FALSE \in BOOLEAN
    OBVIOUS
  <2>2. SrpRead(a, srpID, FALSE)
    BY <1>1, <2>1, SrpBack
  <2> QED
    BY <2>2 DEF SrpRead
<1>4. /\ ObjectFits(b) /\ b.class = "LSP"
      /\ LET lsp == LSPOf(ObjectBody(b))
         IN  /\ lsp.plspID = policy.plspID /\ lsp.name = policy.name
             /\ LSPColor(lsp) = IF <<>> = <<>> THEN 0 ELSE <<>>[1]
  <2>1. PICK color : color = <<>>
    OBVIOUS
  <2>2. b = LSPObject(policy.name, color, policy.plspID)
    BY <1>1, <2>1
  <2>3. LSPRead(b, policy.plspID, policy.name, color)
    BY <1>2, <2>1, <2>2, LSPBack
  <2> QED
    BY <2>1, <2>3, Zenon DEF LSPRead
<1>5. ObjectFits(c) /\ c.class = "ERO" /\ ToSegmentList(ObjectBody(c)) = policy.segs
  BY <1>1, <1>2, EroObjectBack
<1>6. PICK objs : objs = <<a, b, c>>
  OBVIOUS
<1>7. /\ Listed(objs) /\ \A i \in 1 .. Len(objs) : ObjectFits(objs[i])
      /\ FirstAmong(objs, "SRP", a) /\ FirstAmong(objs, "LSP", b) /\ FirstAmong(objs, "ERO", c)
      /\ NoneAmong(objs, "Endpoints") /\ NoneAmong(objs, "Association")
      /\ NoneAmong(objs, "VendorInformation")
  BY <1>3, <1>4, <1>5, <1>6, Trio
<1>8. PICK m : m = PCUpdMeaning(srpID, policy)
  OBVIOUS
<1>9. m = [type |-> "Update", srpID |-> m.srpID, remove |-> m.remove, plspID |-> m.plspID,
           name |-> m.name, lspColor |-> m.lspColor, segs |-> m.segs, ends |-> m.ends,
           association |-> m.association, vendor |-> m.vendor]
  BY <1>8 DEF PCUpdMeaning
<1>10. /\ m.srpID = srpID /\ m.remove = FALSE /\ m.plspID = policy.plspID /\ m.name = policy.name
       /\ m.lspColor = 0 /\ m.segs = policy.segs /\ m.ends = {} /\ m.association = {}
       /\ m.vendor = {}
  BY <1>8 DEF PCUpdMeaning, Absent
<1>11. Says(objs, m)
  <2>1. SaysSRP(objs, m.srpID, m.remove)
    <3>1. SrpFields(a).srpID = srpID /\ SrpFields(a).rFlag = FALSE
      BY <1>3 DEF SrpFields
    <3> QED
      BY <1>3, <1>7, <1>10, <3>1 DEF SaysSRP
  <2>2. SaysLSP(objs, m.plspID, m.name, m.lspColor)
    BY <1>4, <1>7, <1>10, Zenon DEF SaysLSP
  <2>3. SaysPath(objs, m.segs)
    BY <1>5, <1>7, <1>10 DEF SaysPath
  <2>4. SaysEnds(objs, m.ends) /\ SaysAssociation(objs, m.association) /\ SaysVendor(objs, m.vendor)
    BY <1>7, <1>10 DEF SaysEnds, SaysAssociation, SaysVendor
  <2> QED
    BY <2>1, <2>2, <2>3, <2>4 DEF Says
<1>12. ReadsAs(MessageWords("Update", objs), m)
  <2>1. "Update" \in {"LSPInitReq", "Update"}
    OBVIOUS
  <2> QED
    BY <1>7, <1>9, <1>11, <2>1, RequestRead
<1> QED
  BY <1>1, <1>6, <1>8, <1>12, Zenon DEF PCUpdMessage

(* So is a PCInitiate that removes an LSP, toward any kind of PCC.         *)
THEOREM DeletionIsRead ==
    ASSUME NEW srpID, NEW policy, IsAsk(policy), NEW kind, NEW asn
    PROVE  ReadsAs(PCInitiateMessage(srpID, policy, TRUE, kind, asn), DeletionMeaning(srpID, policy))
<1>1. PICK a, b : /\ a = SrpObject(policy.segs, srpID, TRUE)
                  /\ b = LSPObject(policy.name, <<policy.color>>, policy.plspID)
  OBVIOUS
<1>2. IsName(policy.name)
  BY AskIs
<1>3. /\ ObjectFits(a) /\ SrpOf(ObjectBody(a)) = SrpFields(a)
      /\ a.class = "SRP" /\ a.rFlag = TRUE /\ a.srpID = srpID
  <2>1. TRUE \in BOOLEAN
    OBVIOUS
  <2>2. SrpRead(a, srpID, TRUE)
    BY <1>1, <2>1, SrpBack
  <2> QED
    BY <2>2 DEF SrpRead
<1>4. /\ ObjectFits(b) /\ b.class = "LSP"
      /\ LET lsp == LSPOf(ObjectBody(b))
         IN  /\ lsp.plspID = policy.plspID /\ lsp.name = policy.name
             /\ LSPColor(lsp) = policy.color
  <2>1. PICK color : color = <<policy.color>>
    OBVIOUS
  <2>2. b = LSPObject(policy.name, color, policy.plspID)
    BY <1>1, <2>1
  <2>3. color # <<>> /\ color[1] = policy.color
    BY <2>1
  <2>5. LSPRead(b, policy.plspID, policy.name, color)
    BY <1>2, <2>1, <2>2, LSPBack
  <2>4. /\ ObjectFits(b) /\ b.class = "LSP"
        /\ LET lsp == LSPOf(ObjectBody(b))
           IN  /\ lsp.plspID = policy.plspID /\ lsp.name = policy.name
               /\ LSPColor(lsp) = IF color = <<>> THEN 0 ELSE color[1]
    BY <2>5, Zenon DEF LSPRead
  <2> QED
    BY <2>3, <2>4, Zenon
<1>5. PICK objs : objs = <<a, b>>
  OBVIOUS
<1>6. Listed(objs) /\ Len(objs) = 2 /\ objs[1] = a /\ objs[2] = b
  BY <1>5, PairList
<1>7. \A i \in 1 .. Len(objs) : ObjectFits(objs[i])
  BY <1>3, <1>4, <1>6
<1>8. /\ FirstAmong(objs, "SRP", a) /\ FirstAmong(objs, "LSP", b)
      /\ NoneAmong(objs, "ERO") /\ NoneAmong(objs, "Endpoints") /\ NoneAmong(objs, "Association")
      /\ NoneAmong(objs, "VendorInformation")
  BY <1>3, <1>4, <1>6 DEF FirstAmong, NoneAmong
<1>9. PICK m : m = DeletionMeaning(srpID, policy)
  OBVIOUS
<1>10. m = [type |-> "LSPInitReq", srpID |-> m.srpID, remove |-> m.remove, plspID |-> m.plspID,
            name |-> m.name, lspColor |-> m.lspColor, segs |-> m.segs, ends |-> m.ends,
            association |-> m.association, vendor |-> m.vendor]
  BY <1>9 DEF DeletionMeaning
<1>11. /\ m.srpID = srpID /\ m.remove = TRUE /\ m.plspID = policy.plspID /\ m.name = policy.name
       /\ m.lspColor = policy.color /\ m.segs = <<>> /\ m.ends = {} /\ m.association = {}
       /\ m.vendor = {}
  BY <1>9 DEF DeletionMeaning, Absent
<1>12. Says(objs, m)
  <2>1. SaysSRP(objs, m.srpID, m.remove)
    <3>1. SrpFields(a).srpID = srpID /\ SrpFields(a).rFlag = TRUE
      BY <1>3 DEF SrpFields
    <3> QED
      BY <1>3, <1>8, <1>11, <3>1 DEF SaysSRP
  <2>2. SaysLSP(objs, m.plspID, m.name, m.lspColor)
    BY <1>4, <1>8, <1>11, Zenon DEF SaysLSP
  <2>3. SaysPath(objs, m.segs)
    BY <1>8, <1>11 DEF SaysPath
  <2>4. SaysEnds(objs, m.ends) /\ SaysAssociation(objs, m.association) /\ SaysVendor(objs, m.vendor)
    BY <1>8, <1>11 DEF SaysEnds, SaysAssociation, SaysVendor
  <2> QED
    BY <2>1, <2>2, <2>3, <2>4 DEF Says
<1>13. ReadsAs(MessageWords("LSPInitReq", objs), m)
  <2>1. "LSPInitReq" \in {"LSPInitReq", "Update"}
    OBVIOUS
  <2> QED
    BY <1>6, <1>7, <1>10, <1>12, <2>1, RequestRead
<1>14. PCInitiateMessage(srpID, policy, TRUE, kind, asn) = MessageWords("LSPInitReq", objs)
  BY <1>1, <1>5, Zenon DEF PCInitiateMessage
<1> QED
  BY <1>9, <1>13, <1>14

(* A Keepalive is read as what it is.                                      *)
LEMMA KeepaliveIsRead == ReadsAs(KeepaliveMessage, [type |-> "Keepalive"])
<1>1. PICK objs : objs = <<>>
  OBVIOUS
<1>2. Listed(objs) /\ \A i \in 1 .. Len(objs) : ObjectFits(objs[i])
  BY <1>1, EmptyList
<1>3. \A read : ObjectsMeaning("Keepalive", read) = [type |-> "Keepalive"]
  BY DEF ObjectsMeaning
<1>4. PICK type, m : type = "Keepalive" /\ m = [type |-> "Keepalive"]
  OBVIOUS
<1>5. \A read : IsRead(read, objs) => ObjectsMeaning(type, read) = m
  BY <1>3, <1>4
<1>6. ReadsAs(MessageWords(type, objs), m)
  BY <1>2, <1>5, MessageMeans
<1> QED
  BY <1>1, <1>4, <1>6, Zenon DEF KeepaliveMessage

(* A Close is read as what it is, whatever its reason.                     *)
LEMMA CloseIsRead ==
    ASSUME NEW reason
    PROVE  ReadsAs(CloseMessage(reason), [type |-> "Close", reason |-> reason])
<1>1. PICK o, objs : o = CloseObject(reason) /\ objs = <<o>>
  OBVIOUS
<1>2. ObjectFits(o) /\ CloseOf(ObjectBody(o)).reason = reason
  BY <1>1, CloseObjectBack
<1>3. Listed(objs) /\ Len(objs) = 1 /\ objs[1] = o
  BY <1>1, SingleList
<1>4. \A i \in 1 .. Len(objs) : ObjectFits(objs[i])
  BY <1>2, <1>3
<1>5. PICK type, m : type = "Close" /\ m = [type |-> "Close", reason |-> reason]
  OBVIOUS
<1>6. ASSUME NEW read, IsRead(read, objs) PROVE ObjectsMeaning(type, read) = m
  <2>1. read[1] = ReadOf(o)
    <3>1. 1 \in 1 .. Len(objs)
      BY <1>3
    <3> QED
      BY <1>3, <1>6, <3>1 DEF IsRead
  <2>2. CloseOf(read[1].body).reason = reason
    BY <1>2, <2>1, ReadOfIs
  <2>3. ObjectsMeaning("Close", read) = [type |-> "Close", reason |-> CloseOf(read[1].body).reason]
    BY DEF ObjectsMeaning
  <2> QED
    BY <1>5, <2>2, <2>3
<1>7. ReadsAs(MessageWords(type, objs), m)
  BY <1>3, <1>4, <1>6, MessageMeans
<1> QED
  BY <1>1, <1>5, <1>7, Zenon DEF CloseMessage

(* What a PCC makes of the objects of a creation.                          *)
LEMMA EndsRead ==
    ASSUME NEW src, NEW dst, SameFamily(src, dst), NEW o, o = EndpointsObject(src, dst)
    PROVE  ObjectFits(o) /\ o.class = "Endpoints" /\ EndsOf(ReadOf(o)) = <<src, dst>>
<1>1. PICK body : body = ObjectBody(o)
  OBVIOUS
<1>2. /\ ObjectFits(o) /\ o.class = "Endpoints"
      /\ DataAt(Slice(body, 1, Len(body) \div 2)) = src
      /\ DataAt(Slice(body, Len(body) \div 2 + 1, Len(body) \div 2)) = dst
  <2>1. ObjectFits(o) /\ o.class = "Endpoints"
    BY EndpointsBack, Zenon
  <2>2. /\ DataAt(Slice(ObjectBody(o), 1, Len(ObjectBody(o)) \div 2)) = src
        /\ DataAt(Slice(ObjectBody(o), Len(ObjectBody(o)) \div 2 + 1, Len(ObjectBody(o)) \div 2)) = dst
    BY EndpointsBack, Zenon
  <2> QED
    BY <1>1, <2>1, <2>2, Zenon
<1>3. ReadOf(o).body = body
  BY <1>1, ReadOfIs
<1> QED
  BY <1>2, <1>3, Zenon DEF EndsOf

(* What a PCC makes of the ASSOCIATION object of a creation.               *)
LEMMA AssociatedRead ==
    ASSUME NEW kind, NEW src, NEW dst, AssociationEncodable(kind, src, dst),
           NEW color, NEW preference, NEW asn,
           NEW o, o = AssociationObject(kind, src, dst, color, preference, asn)
    PROVE  /\ ObjectFits(o) /\ o.class = "Association"
           /\ AssociatedBy(ReadOf(o))
                = <<color, dst, preference, asn, IF kind = "JuniperLegacy" THEN Unspecified ELSE dst>>
<1>1. PICK origin : origin = IF kind = "JuniperLegacy" THEN Unspecified ELSE dst
  OBVIOUS
<1>2. ObjectFits(o) /\ o.class = "Association"
      /\ ReadAssociation(o, color, dst, preference, asn, origin)
  BY <1>1, AssociationBack
<1>3. PICK a, id : a = AssociationOf(o.otype, ObjectBody(o)) /\ id = FirstTLV(a.tlvs, CPathIDs)
  OBVIOUS
<1>4. /\ AssociationColor(a) = color /\ AssociationEndpoint(a) = dst
      /\ AssociationPreference(a) = preference /\ id.asn = asn /\ id.addr = origin
  BY <1>2, <1>3, Zenon DEF ReadAssociation
<1>5. AssociatedBy(ReadOf(o))
        = <<AssociationColor(a), AssociationEndpoint(a), AssociationPreference(a), id.asn, id.addr>>
  <2>1. ReadOf(o).body = ObjectBody(o) /\ ReadOf(o).otype = o.otype
    BY ReadOfIs
  <2> QED
    BY <1>3, <2>1, Zenon DEF AssociatedBy
<1> QED
  BY <1>1, <1>2, <1>4, <1>5

(* What a PCC makes of the VENDOR-INFORMATION object of a creation.        *)
LEMMA VendorRead ==
    ASSUME NEW color, NEW preference, NEW o, o = VendorInformationObject(color, preference)
    PROVE  /\ ObjectFits(o) /\ o.class = "VendorInformation"
           /\ VendorSays(ReadOf(o)) = <<color, preference>>
<1>1. ObjectFits(o) /\ o.class = "VendorInformation" /\ ReadVendor(o, color, preference)
  BY VendorBack
<1>2. PICK v : v = VendorInformationObjectOf(ObjectBody(o))
  OBVIOUS
<1>3. SubTLVUint32(v, "ColorCisco") = color /\ SubTLVUint32(v, "PreferenceCisco") = preference
  BY <1>1, <1>2, Zenon DEF ReadVendor
<1>4. ReadOf(o).body = ObjectBody(o)
  BY ReadOfIs
<1>5. VendorSays(ReadOf(o))
        = <<SubTLVUint32(v, "ColorCisco"), SubTLVUint32(v, "PreferenceCisco")>>
  BY <1>2, <1>4, Zenon DEF VendorSays
<1> QED
  BY <1>1, <1>3, <1>5

(* The objects of a creation: four that all PCCs get, then those of its    *)
(* kind.                                                                   *)
Creation(objs, s, l, e, p) ==
    /\ Listed(objs) /\ Len(objs) >= 4 /\ \A i \in 1 .. Len(objs) : ObjectFits(objs[i])
    /\ FirstAmong(objs, "SRP", s) /\ FirstAmong(objs, "LSP", l)
    /\ FirstAmong(objs, "Endpoints", e) /\ FirstAmong(objs, "ERO", p)

FourObjects(s, l, e, p) ==
    /\ ObjectFits(s) /\ ObjectFits(l) /\ ObjectFits(e) /\ ObjectFits(p)
    /\ s.class = "SRP" /\ l.class = "LSP" /\ e.class = "Endpoints" /\ p.class = "ERO"

(* A list of four elements.                                                *)
LEMMA FourList ==
    ASSUME NEW a, NEW b, NEW c, NEW d, NEW s, s = <<a, b, c, d>>
    PROVE  Listed(s) /\ Len(s) = 4 /\ s[1] = a /\ s[2] = b /\ s[3] = c /\ s[4] = d
<1>1. s = [i \in 1 .. 4 |-> s[i]] /\ s[1] = a /\ s[2] = b /\ s[3] = c /\ s[4] = d
  OBVIOUS
<1>2. 4 \in Nat
  OBVIOUS
<1> QED
  BY <1>1, <1>2, ListOf

BeginsWith(objs, s, l, e, p) ==
    /\ FourObjects(s, l, e, p) /\ Listed(objs) /\ Len(objs) >= 4
    /\ objs[1] = s /\ objs[2] = l /\ objs[3] = e /\ objs[4] = p
    /\ \A i \in 5 .. Len(objs) : ObjectFits(objs[i])

(* Objects that begin with those four.                                     *)
LEMMA FourFirst ==
    ASSUME NEW s, NEW l, NEW e, NEW p, NEW objs, BeginsWith(objs, s, l, e, p)
    PROVE  Creation(objs, s, l, e, p)
<1>0. /\ FourObjects(s, l, e, p) /\ Listed(objs) /\ Len(objs) >= 4
      /\ objs[1] = s /\ objs[2] = l /\ objs[3] = e /\ objs[4] = p
      /\ \A i \in 5 .. Len(objs) : ObjectFits(objs[i])
  BY DEF BeginsWith
<1>1. /\ ObjectFits(s) /\ ObjectFits(l) /\ ObjectFits(e) /\ ObjectFits(p)
      /\ s.class = "SRP" /\ l.class = "LSP" /\ e.class = "Endpoints" /\ p.class = "ERO"
  BY <1>0 DEF FourObjects
<1>2. Len(objs) \in Nat
  BY <1>0, ListIs
<1>3. \A i \in 1 .. Len(objs) : i = 1 \/ i = 2 \/ i = 3 \/ i = 4 \/ i \in 5 .. Len(objs)
  BY <1>0, <1>2
<1>4. \A i \in 1 .. Len(objs) : ObjectFits(objs[i])
  BY <1>0, <1>1, <1>3
<1>5. {1, 2, 3, 4} \subseteq 1 .. Len(objs)
  BY <1>0, <1>2
<1>6. \A j \in 1 .. 4 - 1 : j = 1 \/ j = 2 \/ j = 3
  OBVIOUS
<1>7. \A j \in 1 .. 3 - 1 : j = 1 \/ j = 2
  OBVIOUS
<1>8. \A j \in 1 .. 2 - 1 : j = 1
  OBVIOUS
<1>9. 1 .. 1 - 1 = {}
  OBVIOUS
<1>10. FirstAmong(objs, "SRP", s)
  BY <1>0, <1>1, <1>5, <1>9 DEF FirstAmong
<1>11. FirstAmong(objs, "LSP", l)
  BY <1>0, <1>1, <1>5, <1>8 DEF FirstAmong
<1>12. FirstAmong(objs, "Endpoints", e)
  BY <1>0, <1>1, <1>5, <1>7 DEF FirstAmong
<1>13. FirstAmong(objs, "ERO", p)
  BY <1>0, <1>1, <1>5, <1>6 DEF FirstAmong
<1> QED
  BY <1>0, <1>4, <1>10, <1>11, <1>12, <1>13 DEF Creation

FirstFour == {"SRP", "LSP", "Endpoints", "ERO"}

(* One object more: a Juniper PCC's association, a Cisco PCC's vendor      *)
(* information.                                                            *)
LEMMA OneMore ==
    ASSUME NEW s, NEW l, NEW e, NEW p, FourObjects(s, l, e, p),
           NEW o, ObjectFits(o), o.class \notin FirstFour,
           NEW objs, objs = <<s, l, e, p>> \o <<o>>
    PROVE  /\ Creation(objs, s, l, e, p) /\ FirstAmong(objs, o.class, o)
           /\ \A class : class \notin FirstFour /\ class # o.class => NoneAmong(objs, class)
<1>1. PICK c, a : c = <<s, l, e, p>> /\ a = <<o>>
  OBVIOUS
<1>2. Listed(c) /\ Len(c) = 4 /\ c[1] = s /\ c[2] = l /\ c[3] = e /\ c[4] = p
  BY <1>1, FourList
<1>3. Listed(a) /\ Len(a) = 1 /\ a[1] = o
  BY <1>1, SingleList
<1>4. Longer(c, 4, a, 1, objs)
  BY <1>1, <1>2, <1>3, Continued
<1>5. /\ Listed(objs) /\ Len(objs) = 5 /\ objs[1] = s /\ objs[2] = l /\ objs[3] = e
      /\ objs[4] = p /\ objs[5] = o
  <2>1. Listed(objs) /\ Len(objs) = 4 + 1
    BY <1>4 DEF Longer
  <2>2. \A i \in 1 .. 4 : objs[i] = c[i]
    BY <1>4 DEF Longer
  <2>3. \A i \in 1 .. 1 : objs[4 + i] = a[i]
    BY <1>4 DEF Longer
  <2>4. objs[4 + 1] = o
    BY <1>3, <2>3
  <2> QED
    BY <1>2, <2>1, <2>2, <2>4
<1>6. \A i \in 5 .. Len(objs) : ObjectFits(objs[i])
  BY <1>5
<1>7. Creation(objs, s, l, e, p)
  <2>1. Len(objs) >= 4
    BY <1>5
  <2>2. BeginsWith(objs, s, l, e, p)
    BY <1>5, <1>6, <2>1 DEF BeginsWith
  <2> QED
    BY <2>2, FourFirst
<1>8. s.class \in FirstFour /\ l.class \in FirstFour /\ e.class \in FirstFour /\ p.class \in FirstFour
  BY DEF FourObjects, FirstFour
<1>9. \A i \in 1 .. 5 : i = 1 \/ i = 2 \/ i = 3 \/ i = 4 \/ i = 5
  OBVIOUS
<1>13. \A i \in 1 .. 5 - 1 : i = 1 \/ i = 2 \/ i = 3 \/ i = 4
  OBVIOUS
<1>10. \A i \in 1 .. 5 - 1 : objs[i].class \in FirstFour
  BY <1>5, <1>8, <1>13
<1>11. FirstAmong(objs, o.class, o)
  BY <1>5, <1>10 DEF FirstAmong
<1>12. ASSUME NEW class, class \notin FirstFour, class # o.class PROVE NoneAmong(objs, class)
  BY <1>5, <1>8, <1>9, <1>12 DEF NoneAmong
<1> QED
  BY <1>7, <1>11, <1>12

(* Two objects more: those of an RFC-compliant PCC.                        *)
LEMMA TwoMore ==
    ASSUME NEW s, NEW l, NEW e, NEW p, FourObjects(s, l, e, p),
           NEW o, ObjectFits(o), o.class \notin FirstFour,
           NEW v, ObjectFits(v), v.class \notin FirstFour, v.class # o.class,
           NEW objs, objs = <<s, l, e, p>> \o <<o, v>>
    PROVE  /\ Creation(objs, s, l, e, p) /\ FirstAmong(objs, o.class, o)
           /\ FirstAmong(objs, v.class, v)
<1>1. PICK c, a : c = <<s, l, e, p>> /\ a = <<o, v>>
  OBVIOUS
<1>2. Listed(c) /\ Len(c) = 4 /\ c[1] = s /\ c[2] = l /\ c[3] = e /\ c[4] = p
  BY <1>1, FourList
<1>3. Listed(a) /\ Len(a) = 2 /\ a[1] = o /\ a[2] = v
  BY <1>1, PairList
<1>4. Longer(c, 4, a, 2, objs)
  BY <1>1, <1>2, <1>3, Continued
<1>5. /\ Listed(objs) /\ Len(objs) = 6 /\ objs[1] = s /\ objs[2] = l /\ objs[3] = e
      /\ objs[4] = p /\ objs[5] = o /\ objs[6] = v
  <2>1. Listed(objs) /\ Len(objs) = 4 + 2
    BY <1>4 DEF Longer
  <2>2. \A i \in 1 .. 4 : objs[i] = c[i]
    BY <1>4 DEF Longer
  <2>3. \A i \in 1 .. 2 : objs[4 + i] = a[i]
    BY <1>4 DEF Longer
  <2>4. objs[4 + 1] = o /\ objs[4 + 2] = v
    BY <1>3, <2>3
  <2> QED
    BY <1>2, <2>1, <2>2, <2>4
<1>6. \A i \in 5 .. Len(objs) : ObjectFits(objs[i])
  BY <1>5
<1>7. Creation(objs, s, l, e, p)
  <2>1. Len(objs) >= 4
    BY <1>5
  <2>2. BeginsWith(objs, s, l, e, p)
    BY <1>5, <1>6, <2>1 DEF BeginsWith
  <2> QED
    BY <2>2, FourFirst
<1>8. s.class \in FirstFour /\ l.class \in FirstFour /\ e.class \in FirstFour /\ p.class \in FirstFour
  BY DEF FourObjects, FirstFour
<1>13. \A i \in 1 .. 5 - 1 : i = 1 \/ i = 2 \/ i = 3 \/ i = 4
  OBVIOUS
<1>14. \A i \in 1 .. 6 - 1 : i = 1 \/ i = 2 \/ i = 3 \/ i = 4 \/ i = 5
  OBVIOUS
<1>9. \A i \in 1 .. 5 - 1 : objs[i].class \in FirstFour
  BY <1>5, <1>8, <1>13
<1>10. \A i \in 1 .. 6 - 1 : objs[i].class \in FirstFour \/ objs[i].class = o.class
  BY <1>5, <1>8, <1>14
<1>11. FirstAmong(objs, o.class, o)
  BY <1>5, <1>9 DEF FirstAmong
<1>12. FirstAmong(objs, v.class, v)
  BY <1>5, <1>10 DEF FirstAmong
<1> QED
  BY <1>7, <1>11, <1>12

(* A creation.                                                             *)
CreationHas(policy, srpID, s, l, e, p) ==
    /\ s = SrpObject(policy.segs, srpID, FALSE)
    /\ l = LSPObject(policy.name, <<policy.color>>, 0)
    /\ e = EndpointsObject(policy.src, policy.dst) /\ p = EroObject(policy.segs)

CreationSays(policy, srpID, s, l, e, p) ==
    /\ FourObjects(s, l, e, p)
    /\ SrpOf(ObjectBody(s)).srpID = srpID /\ SrpOf(ObjectBody(s)).rFlag = FALSE
    /\ LSPOf(ObjectBody(l)).plspID = 0 /\ LSPOf(ObjectBody(l)).name = policy.name
    /\ LSPColor(LSPOf(ObjectBody(l))) = policy.color
    /\ EndsOf(ReadOf(e)) = <<policy.src, policy.dst>>
    /\ ToSegmentList(ObjectBody(p)) = policy.segs

(* The four objects say what is meant.                                     *)
LEMMA CreationObjects ==
    ASSUME NEW srpID, NEW policy, IsAsk(policy), NEW kind \in PccTypes,
           PCInitiateEncodable(policy, FALSE, kind),
           NEW s, NEW l, NEW e, NEW p, CreationHas(policy, srpID, s, l, e, p)
    PROVE  CreationSays(policy, srpID, s, l, e, p)
<1>0. /\ s = SrpObject(policy.segs, srpID, FALSE)
      /\ l = LSPObject(policy.name, <<policy.color>>, 0)
      /\ e = EndpointsObject(policy.src, policy.dst) /\ p = EroObject(policy.segs)
  BY DEF CreationHas
<1>1. IsName(policy.name) /\ EncodablePath(policy.segs) /\ SameFamily(policy.src, policy.dst)
  BY AskIs DEF PCInitiateEncodable, EncodablePath, AssociationEncodable
<1>2. /\ ObjectFits(s) /\ s.class = "SRP"
      /\ SrpOf(ObjectBody(s)).srpID = srpID /\ SrpOf(ObjectBody(s)).rFlag = FALSE
  <2>1. FALSE \in BOOLEAN
    OBVIOUS
  <2>2. SrpRead(s, srpID, FALSE)
    BY <1>0, <2>1, SrpBack
  <2>3. /\ ObjectFits(s) /\ SrpOf(ObjectBody(s)) = SrpFields(s)
        /\ s.class = "SRP" /\ s.rFlag = FALSE /\ s.srpID = srpID
    BY <2>2 DEF SrpRead
  <2>4. SrpFields(s).srpID = srpID /\ SrpFields(s).rFlag = FALSE
    BY <2>3 DEF SrpFields
  <2> QED
    BY <2>3, <2>4
<1>3. /\ ObjectFits(l) /\ l.class = "LSP"
      /\ LSPOf(ObjectBody(l)).plspID = 0 /\ LSPOf(ObjectBody(l)).name = policy.name
      /\ LSPColor(LSPOf(ObjectBody(l))) = policy.color
  <2>1. PICK color, zero : color = <<policy.color>> /\ zero = 0
    OBVIOUS
  <2>2. l = LSPObject(policy.name, color, zero)
    BY <1>0, <2>1
  <2>3. color # <<>> /\ color[1] = policy.color
    BY <2>1
  <2>4. LSPRead(l, zero, policy.name, color)
    BY <1>1, <2>1, <2>2, LSPBack
  <2>5. /\ ObjectFits(l) /\ l.class = "LSP"
        /\ LSPOf(ObjectBody(l)).plspID = zero /\ LSPOf(ObjectBody(l)).name = policy.name
        /\ LSPColor(LSPOf(ObjectBody(l))) = IF color = <<>> THEN 0 ELSE color[1]
    BY <2>4, Zenon DEF LSPRead
  <2> QED
    BY <2>1, <2>3, <2>5, Zenon
<1>4. ObjectFits(e) /\ e.class = "Endpoints" /\ EndsOf(ReadOf(e)) = <<policy.src, policy.dst>>
  BY <1>0, <1>1, EndsRead
<1>5. ObjectFits(p) /\ p.class = "ERO" /\ ToSegmentList(ObjectBody(p)) = policy.segs
  BY <1>0, <1>1, EroObjectBack
<1> QED
  BY <1>2, <1>3, <1>4, <1>5 DEF FourObjects, CreationSays

(* A PCInitiate that creates an LSP is as long as its header says and is   *)
(* read as the policy that is meant, with the association and the vendor   *)
(* information this kind of PCC gets: Juniper's endpoint of IPv4 and no    *)
(* originator, Cisco's color and preference, both for the others.          *)
THEOREM CreationIsRead ==
    ASSUME NEW srpID, NEW policy, IsAsk(policy), pccType \in PccTypes,
           PCInitiateEncodable(policy, FALSE, pccType)
    PROVE  ReadsAs(PCInitiateMessage(srpID, policy, FALSE, pccType, ASN),
                   PCInitiateMeaning(srpID, policy))
<1>1. PICK kind \in PccTypes : kind = pccType
  OBVIOUS
<1>2. PICK s, l, e, p : /\ s = SrpObject(policy.segs, srpID, FALSE)
                        /\ l = LSPObject(policy.name, <<policy.color>>, 0)
                        /\ e = EndpointsObject(policy.src, policy.dst)
                        /\ p = EroObject(policy.segs)
  OBVIOUS
<1>3. PICK a, v : /\ a = AssociationObject(kind, policy.src, policy.dst, policy.color,
                                           policy.preference, ASN)
                  /\ v = VendorInformationObject(policy.color, policy.preference)
  OBVIOUS
<1>4. /\ FourObjects(s, l, e, p)
      /\ SrpOf(ObjectBody(s)).srpID = srpID /\ SrpOf(ObjectBody(s)).rFlag = FALSE
      /\ LSPOf(ObjectBody(l)).plspID = 0 /\ LSPOf(ObjectBody(l)).name = policy.name
      /\ LSPColor(LSPOf(ObjectBody(l))) = policy.color
      /\ EndsOf(ReadOf(e)) = <<policy.src, policy.dst>>
      /\ ToSegmentList(ObjectBody(p)) = policy.segs
  <2>1. CreationHas(policy, srpID, s, l, e, p)
    BY <1>2 DEF CreationHas
  <2>2. CreationSays(policy, srpID, s, l, e, p)
    BY <1>1, <2>1, CreationObjects
  <2> QED
    BY <2>2, Zenon DEF CreationSays
<1>5. PICK origin : origin = IF kind = "JuniperLegacy" THEN Unspecified ELSE policy.dst
  OBVIOUS
<1>6. /\ ObjectFits(a) /\ a.class = "Association"
      /\ AssociatedBy(ReadOf(a))
           = <<policy.color, policy.dst, policy.preference, ASN, origin>>
  <2>1. AssociationEncodable(kind, policy.src, policy.dst)
    BY <1>1 DEF PCInitiateEncodable
  <2> QED
    BY <1>3, <1>5, <2>1, AssociatedRead
<1>7. /\ ObjectFits(v) /\ v.class = "VendorInformation"
      /\ VendorSays(ReadOf(v)) = <<policy.color, policy.preference>>
  BY <1>3, VendorRead
<1>8. a.class \notin FirstFour /\ v.class \notin FirstFour /\ a.class # v.class
  BY <1>6, <1>7 DEF FirstFour
<1>9. PICK m : m = PCInitiateMeaning(srpID, policy)
  OBVIOUS
<1>10. /\ m = [type |-> "LSPInitReq", srpID |-> m.srpID, remove |-> m.remove, plspID |-> m.plspID,
               name |-> m.name, lspColor |-> m.lspColor, segs |-> m.segs, ends |-> m.ends,
               association |-> m.association, vendor |-> m.vendor]
       /\ m.srpID = srpID /\ m.remove = FALSE /\ m.plspID = 0 /\ m.name = policy.name
       /\ m.lspColor = policy.color /\ m.segs = policy.segs
       /\ m.ends = {<<policy.src, policy.dst>>}
  BY <1>9 DEF PCInitiateMeaning
<1>11. /\ m.association = IF kind = "CiscoLegacy" THEN {}
                          ELSE {<<policy.color, policy.dst, policy.preference, ASN, origin>>}
       /\ m.vendor = IF kind = "JuniperLegacy" THEN {} ELSE {<<policy.color, policy.preference>>}
  BY <1>1, <1>5, <1>9, Zenon DEF PCInitiateMeaning, Absent
<1>12. PICK objs : objs = <<s, l, e, p>> \o (CASE kind = "JuniperLegacy" -> <<a>>
                                               [] kind = "CiscoLegacy" -> <<v>>
                                               [] kind = "RFCCompliant" -> <<a, v>>)
  OBVIOUS
<1>13. /\ Creation(objs, s, l, e, p)
       /\ SaysAssociation(objs, m.association) /\ SaysVendor(objs, m.vendor)
  <2>1. CASE kind = "JuniperLegacy"
    <3>1. objs = <<s, l, e, p>> \o <<a>>
      BY <1>12, <2>1
    <3>2. /\ Creation(objs, s, l, e, p) /\ FirstAmong(objs, a.class, a)
          /\ \A class : class \notin FirstFour /\ class # a.class => NoneAmong(objs, class)
      BY <1>4, <1>6, <1>8, <3>1, OneMore
    <3>3. FirstAmong(objs, "Association", a) /\ NoneAmong(objs, "VendorInformation")
      BY <1>6, <1>7, <1>8, <3>2
    <3>4. /\ m.association = {AssociatedBy(ReadOf(a))} /\ m.vendor = {}
      BY <1>6, <1>11, <2>1
    <3> QED
      BY <3>2, <3>3, <3>4 DEF SaysAssociation, SaysVendor
  <2>2. CASE kind = "CiscoLegacy"
    <3>1. objs = <<s, l, e, p>> \o <<v>>
      BY <1>12, <2>2
    <3>2. /\ Creation(objs, s, l, e, p) /\ FirstAmong(objs, v.class, v)
          /\ \A class : class \notin FirstFour /\ class # v.class => NoneAmong(objs, class)
      BY <1>4, <1>7, <1>8, <3>1, OneMore
    <3>3. FirstAmong(objs, "VendorInformation", v) /\ NoneAmong(objs, "Association")
      BY <1>6, <1>7, <1>8, <3>2
    <3>4. /\ m.association = {} /\ m.vendor = {VendorSays(ReadOf(v))}
      BY <1>7, <1>11, <2>2
    <3> QED
      BY <3>2, <3>3, <3>4 DEF SaysAssociation, SaysVendor
  <2>3. CASE kind = "RFCCompliant"
    <3>1. objs = <<s, l, e, p>> \o <<a, v>>
      BY <1>12, <2>3
    <3>2. /\ Creation(objs, s, l, e, p) /\ FirstAmong(objs, a.class, a)
          /\ FirstAmong(objs, v.class, v)
      BY <1>4, <1>6, <1>7, <1>8, <3>1, TwoMore
    <3>3. FirstAmong(objs, "Association", a) /\ FirstAmong(objs, "VendorInformation", v)
      BY <1>6, <1>7, <3>2
    <3>4. /\ m.association = {AssociatedBy(ReadOf(a))} /\ m.vendor = {VendorSays(ReadOf(v))}
      BY <1>6, <1>7, <1>11, <2>3
    <3> QED
      BY <3>2, <3>3, <3>4 DEF SaysAssociation, SaysVendor
  <2> QED
    BY <1>1, <2>1, <2>2, <2>3 DEF PccTypes
<1>14. /\ Listed(objs) /\ \A i \in 1 .. Len(objs) : ObjectFits(objs[i])
       /\ FirstAmong(objs, "SRP", s) /\ FirstAmong(objs, "LSP", l)
       /\ FirstAmong(objs, "Endpoints", e) /\ FirstAmong(objs, "ERO", p)
  BY <1>13 DEF Creation
<1>15. Says(objs, m)
  <2>1. SaysSRP(objs, m.srpID, m.remove)
    BY <1>4, <1>10, <1>14 DEF SaysSRP
  <2>2. SaysLSP(objs, m.plspID, m.name, m.lspColor)
    BY <1>4, <1>10, <1>14, Zenon DEF SaysLSP
  <2>3. SaysPath(objs, m.segs)
    BY <1>4, <1>10, <1>14 DEF SaysPath
  <2>4. SaysEnds(objs, m.ends)
    BY <1>4, <1>10, <1>14 DEF SaysEnds
  <2> QED
    BY <1>13, <2>1, <2>2, <2>3, <2>4 DEF Says
<1>16. ReadsAs(MessageWords("LSPInitReq", objs), m)
  <2>1. "LSPInitReq" \in {"LSPInitReq", "Update"}
    OBVIOUS
  <2> QED
    BY <1>10, <1>14, <1>15, <2>1, RequestRead
<1>17. PCInitiateMessage(srpID, policy, FALSE, kind, ASN) = MessageWords("LSPInitReq", objs)
  BY <1>2, <1>3, <1>12, Zenon DEF PCInitiateMessage
<1> QED
  BY <1>1, <1>9, <1>16, <1>17

------------------------------------------------------------------------------
(* Steps                                                                   *)

(* The requests of clients are typed.                                      *)
AsksAreTyped == \A p \in Pccs : \A policy \in p.asks : IsAsk(policy)

PccKept == pcc \in Pccs /\ pccType \in PccTypes

(* A message more that reads as what it was meant to say, or none.         *)
SendsReadable ==
    \/ UNCHANGED toPCC
    \/ \E m : toPCC' = Append(toPCC, m) /\ ReadsAs(m.words, m.meaning)

(* Sending a message that reads as it is meant.                            *)
LEMMA SentReads ==
    ASSUME NEW words, NEW meaning, ReadsAs(words, meaning), Send(words, meaning)
    PROVE  SendsReadable
<1>1. PICK m : m = [words |-> words, meaning |-> meaning]
  OBVIOUS
<1>2. m.words = words /\ m.meaning = meaning /\ toPCC' = Append(toPCC, m)
  BY <1>1 DEF Send
<1>3. ReadsAs(m.words, m.meaning)
  BY <1>2
<1> QED
  BY <1>2, <1>3, Zenon DEF SendsReadable

(* A request with the PLSP-ID of the LSP it is about.                      *)
LEMMA AskOfLSP ==
    ASSUME NEW policy, IsAsk(policy), NEW p, NEW other, other = [policy EXCEPT !.plspID = p]
    PROVE  IsAsk(other)
<1>1. /\ policy = [plspID |-> policy.plspID, name |-> policy.name, segs |-> policy.segs,
                   src |-> policy.src, dst |-> policy.dst, color |-> policy.color,
                   preference |-> policy.preference]
      /\ policy.name \in DOMAIN Octets
      /\ policy.segs \in Seq(Range(policy.segs))
      /\ \A i \in 1 .. Len(policy.segs) : IsSegment(policy.segs[i])
  BY Zenon DEF IsAsk
<1>2. PICK n, s, a, d, c, f : n = policy.name /\ s = policy.segs /\ a = policy.src
                              /\ d = policy.dst /\ c = policy.color /\ f = policy.preference
  OBVIOUS
<1>3. policy = [plspID |-> policy.plspID, name |-> n, segs |-> s, src |-> a, dst |-> d,
                color |-> c, preference |-> f]
  BY <1>1, <1>2, Zenon
<1>4. other = [plspID |-> p, name |-> n, segs |-> s, src |-> a, dst |-> d,
               color |-> c, preference |-> f]
  BY <1>3
<1>5. /\ other.plspID = p /\ other.name = n /\ other.segs = s /\ other.src = a
      /\ other.dst = d /\ other.color = c /\ other.preference = f
  BY <1>4
<1>6. other = [plspID |-> other.plspID, name |-> other.name, segs |-> other.segs,
               src |-> other.src, dst |-> other.dst, color |-> other.color,
               preference |-> other.preference]
  BY <1>4, <1>5
<1> QED
  BY <1>1, <1>2, <1>5, <1>6, Zenon DEF IsAsk

(* SendPCUpdate, SendPCInitiate for a creation and for a deletion.         *)
LEMMA UpdateSends ==
    ASSUME NEW policy, IsAsk(policy), NEW known, SendPCUpdate(policy, known)
    PROVE  SendsReadable
<1>1. PICK srpID : srpID = srpIDHead
  OBVIOUS
<1>2. CASE PCUpdEncodable(policy)
  <2>1. Send(PCUpdMessage(srpID, policy), PCUpdMeaning(srpID, policy))
    BY <1>1, <1>2 DEF SendPCUpdate
  <2>2. ReadsAs(PCUpdMessage(srpID, policy), PCUpdMeaning(srpID, policy))
    BY <1>2, UpdateIsRead
  <2> QED
    BY <2>1, <2>2, SentReads
<1>3. CASE ~PCUpdEncodable(policy)
  BY <1>3 DEF SendPCUpdate, SendsReadable
<1> QED
  BY <1>2, <1>3

LEMMA CreationSends ==
    ASSUME NEW policy, IsAsk(policy), pccType \in PccTypes, NEW known,
           SendPCInitiate(policy, FALSE, known)
    PROVE  SendsReadable
<1>1. PICK srpID : srpID = srpIDHead
  OBVIOUS
<1>2. CASE PCInitiateEncodable(policy, FALSE, pccType)
  <2>1. Send(PCInitiateMessage(srpID, policy, FALSE, pccType, ASN), PCInitiateMeaning(srpID, policy))
    BY <1>1, <1>2 DEF SendPCInitiate
  <2>2. ReadsAs(PCInitiateMessage(srpID, policy, FALSE, pccType, ASN),
                PCInitiateMeaning(srpID, policy))
    BY <1>2, CreationIsRead
  <2> QED
    BY <2>1, <2>2, SentReads
<1>3. CASE ~PCInitiateEncodable(policy, FALSE, pccType)
  BY <1>3 DEF SendPCInitiate, SendsReadable
<1> QED
  BY <1>2, <1>3

LEMMA DeletionSends ==
    ASSUME NEW policy, IsAsk(policy), NEW known, SendPCInitiate(policy, TRUE, known)
    PROVE  SendsReadable
<1>1. PICK srpID : srpID = srpIDHead
  OBVIOUS
<1>2. CASE PCInitiateEncodable(policy, TRUE, pccType)
  <2>1. Send(PCInitiateMessage(srpID, policy, TRUE, pccType, ASN), DeletionMeaning(srpID, policy))
    BY <1>1, <1>2 DEF SendPCInitiate
  <2>2. ReadsAs(PCInitiateMessage(srpID, policy, TRUE, pccType, ASN), DeletionMeaning(srpID, policy))
    BY DeletionIsRead
  <2> QED
    BY <2>1, <2>2, SentReads
<1>3. CASE ~PCInitiateEncodable(policy, TRUE, pccType)
  BY <1>3 DEF SendPCInitiate, SendsReadable
<1> QED
  BY <1>2, <1>3

(* Every request that a handler sends.                                     *)
LEMMA HandlerSends ==
    ASSUME AsksAreTyped, PccKept, HandlerStep
    PROVE  SendsReadable
<1>1. ASSUME NEW policy \in pcc.asks, CreateSRPolicy(policy) PROVE SendsReadable
  <2>1. IsAsk(policy)
    BY <1>1 DEF AsksAreTyped, PccKept
  <2>2. CASE SendPCInitiate([policy EXCEPT !.plspID = 0], FALSE, intents)
    <3>1. PICK other : other = [policy EXCEPT !.plspID = 0]
      OBVIOUS
    <3>2. IsAsk(other)
      BY <2>1, <3>1, AskOfLSP
    <3> QED
      BY <2>2, <3>1, <3>2, CreationSends DEF PccKept
  <2>3. ASSUME NEW p \in Found(policy), SendPCUpdate([policy EXCEPT !.plspID = p], intents)
        PROVE  SendsReadable
    <3>1. PICK other : other = [policy EXCEPT !.plspID = p]
      OBVIOUS
    <3>2. IsAsk(other)
      BY <2>1, <3>1, AskOfLSP
    <3> QED
      BY <2>3, <3>1, <3>2, UpdateSends
  <2>4. \/ SendPCInitiate([policy EXCEPT !.plspID = 0], FALSE, intents)
        \/ \E p \in Found(policy) : SendPCUpdate([policy EXCEPT !.plspID = p], intents)
    BY <1>1 DEF CreateSRPolicy
  <2> QED
    BY <2>2, <2>3, <2>4
<1>2. ASSUME NEW policy \in pcc.asks, DeleteSRPolicy(policy) PROVE SendsReadable
  <2>1. IsAsk(policy)
    BY <1>2 DEF AsksAreTyped, PccKept
  <2>2. PICK p \in Found(policy) : SendPCInitiate([policy EXCEPT !.plspID = p], TRUE, intents)
    BY <1>2 DEF DeleteSRPolicy
  <2>3. PICK other : other = [policy EXCEPT !.plspID = p]
    OBVIOUS
  <2>4. IsAsk(other)
    BY <2>1, <2>3, AskOfLSP
  <2> QED
    BY <2>2, <2>3, <2>4, DeletionSends
<1>3. CASE SendKeepalive
  <2>1. Send(KeepaliveMessage, [type |-> "Keepalive"])
    BY <1>3 DEF SendKeepalive
  <2> QED
    BY <2>1, KeepaliveIsRead, SentReads
<1>4. CASE DeleteSession
  <2>1. Send(CloseMessage("NoExplanation"), [type |-> "Close", reason |-> "NoExplanation"])
    BY <1>4 DEF DeleteSession
  <2> QED
    BY <2>1, CloseIsRead, SentReads
<1> QED
  BY <1>1, <1>2, <1>3, <1>4 DEF HandlerStep

(* The PCC and its type stay what they are.                                *)
LEMMA InitPccKept == Init => PccKept
BY DEF Init, PccKept, PccTypes

(* determinePccType knows three kinds.                                     *)
LEMMA PccTypeDetermined == ASSUME NEW caps PROVE DeterminePccType(caps) \in PccTypes
BY Zenon DEF DeterminePccType, PccTypes

(* The PCC and its type stay typed.                                        *)
LEMMA NextPccKept ==
    ASSUME PccKept, [Next]_vars
    PROVE  PccKept'
<1>1. ASSUME Open PROVE PccKept'
  <2>1. pcc' = pcc
    BY <1>1, Zenon DEF Open, pccVars
  <2>2. pccType' = pccType \/ pccType' = DeterminePccType(received')
    BY <1>1, Zenon DEF Open
  <2> QED
    BY <2>1, <2>2, PccTypeDetermined DEF PccKept
<1>2. ASSUME ReadHeader \/ ReadPCRpt \/ ReadPCErr \/ ReadClose PROVE UNCHANGED <<pcc, pccType>>
  <2>1. ASSUME ReadHeader PROVE UNCHANGED <<pcc, pccType>>
    BY <2>1 DEF ReadHeader, pccVars
  <2>2. ASSUME ReadPCRpt PROVE UNCHANGED <<pcc, pccType>>
    BY <2>2, Zenon DEF ReadPCRpt, Read, pccVars
  <2>3. ASSUME ReadPCErr PROVE UNCHANGED <<pcc, pccType>>
    BY <2>3, Zenon DEF ReadPCErr, Read, pccVars
  <2>4. ASSUME ReadClose PROVE UNCHANGED <<pcc, pccType>>
    BY <2>4, Zenon DEF ReadClose, Read, pccVars
  <2> QED
    BY <1>2, <2>1, <2>2, <2>3, <2>4
<1>3. ASSUME HandlerStep PROVE UNCHANGED <<pcc, pccType>>
  BY <1>3, Zenon DEF HandlerStep, CreateSRPolicy, DeleteSRPolicy, SendKeepalive, DeleteSession, pceVars, pccVars
<1>4. ASSUME PCCHears PROVE UNCHANGED <<pcc, pccType>>
  BY <1>4, Zenon DEF PCCHears, pceVars
<1>5. ASSUME PCCActs PROVE UNCHANGED <<pcc, pccType>>
  BY <1>5, Zenon DEF PCCActs, PCCChanges, PCCDrops, PCCCloses, pceVars
<1>6. ASSUME UNCHANGED vars PROVE UNCHANGED <<pcc, pccType>>
  BY <1>6 DEF vars, pceVars, pccVars
<1> QED
  BY <1>1, <1>2, <1>3, <1>4, <1>5, <1>6 DEF Next, ReaderStep, PccKept

(* Every message that a step of the handlers adds to the connection (the   *)
(* creation, update or deletion of any SR Policy a client asks for, toward *)
(* any kind of PCC, a Keepalive, a Close) is framed by its lengths and is  *)
(* read by the PCC as what it was built from.                              *)
THEOREM RequestsAreRead ==
    ASSUME AsksAreTyped
    PROVE  Spec => [][HandlerStep => \/ UNCHANGED toPCC
                                     \/ \E m : /\ toPCC' = Append(toPCC, m)
                                               /\ ReadsAs(m.words, m.meaning)]_vars
<1>1. Init => PccKept
  BY InitPccKept
<1>2. PccKept /\ [Next]_vars => PccKept'
  BY NextPccKept
<1>3. PccKept /\ [Next]_vars
        => [HandlerStep => \/ UNCHANGED toPCC
                           \/ \E m : /\ toPCC' = Append(toPCC, m)
                                     /\ ReadsAs(m.words, m.meaning)]_vars
  BY HandlerSends DEF SendsReadable
<1> QED
  BY <1>1, <1>2, <1>3, PTL DEF Spec

(* PCCReadsMessages is kept by every step but the two whose messages are   *)
(* built from what the PCC sent: the answer to its Open and the updates of *)
(* recomputed paths.                                                       *)
KeepsReading ==
    HandlerStep \/ ReadHeader \/ ReadPCErr \/ ReadClose \/ PCCHears \/ PCCActs

(* A readable message more.                                                *)
LEMMA AppendRead ==
    ASSUME Listed(toPCC), PCCReadsMessages, SendsReadable
    PROVE  PCCReadsMessages'
<1>1. ASSUME NEW m, toPCC' = Append(toPCC, m), ReadsAs(m.words, m.meaning)
      PROVE  PCCReadsMessages'
  <2>1. Listed(<<m>>) /\ Len(<<m>>) = 1 /\ <<m>>[1] = m
    BY SingleList
  <2>2. PICK n \in Nat : n = Len(toPCC)
    BY ListIs
  <2>3. PICK next : next = toPCC'
    OBVIOUS
  <2>4. next = toPCC \o <<m>>
    <3>1. toPCC \in Seq(Range(toPCC) \cup {m}) /\ m \in Range(toPCC) \cup {m}
      BY SeqMonotonic DEF Listed
    <3> QED
      BY <1>1, <2>3, <3>1, AppendIsConcat
  <2>5. Longer(toPCC, n, <<m>>, 1, next)
    BY <2>1, <2>2, <2>4, Continued
  <2>6. /\ Len(next) = n + 1 /\ \A i \in 1 .. n : next[i] = toPCC[i]
        /\ \A i \in 1 .. 1 : next[n + i] = <<m>>[i]
    BY <2>5 DEF Longer
  <2>7. next[n + 1] = m
    BY <2>1, <2>6
  <2>8. \A i \in 1 .. n : ReadsAs(toPCC[i].words, toPCC[i].meaning)
    BY <2>2 DEF PCCReadsMessages
  <2>9. \A i \in 1 .. n + 1 : i \in 1 .. n \/ i = n + 1
    BY <2>2
  <2>10. \A i \in 1 .. Len(next) : ReadsAs(next[i].words, next[i].meaning)
    BY <1>1, <2>6, <2>7, <2>8, <2>9
  <2> QED
    BY <2>3, <2>10 DEF PCCReadsMessages
<1>2. CASE UNCHANGED toPCC
  BY <1>2 DEF PCCReadsMessages
<1> QED
  BY <1>1, <1>2 DEF SendsReadable

(* Some messages heard.                                                    *)
LEMMA RestRead ==
    ASSUME Listed(toPCC), PCCReadsMessages, NEW n \in Nat, n <= Len(toPCC),
           toPCC' = SubSeq(toPCC, n + 1, Len(toPCC))
    PROVE  PCCReadsMessages'
<1>1. PICK l \in Nat : l = Len(toPCC)
  BY ListIs
<1>0. PICK next : next = toPCC'
  OBVIOUS
<1>2. PICK m \in Nat : m = n + 1
  OBVIOUS
<1>3. 1 <= m /\ m <= l + 1 /\ l - m + 1 \in Nat
  BY <1>1, <1>2
<1>4. /\ Len(next) = l - m + 1 /\ \A i \in 1 .. l - m + 1 : next[i] = toPCC[m + i - 1]
  BY <1>0, <1>1, <1>2, <1>3, PartOf
<1>5. \A i \in 1 .. l - m + 1 : m + i - 1 \in 1 .. l
  BY <1>1, <1>2
<1>6. \A i \in 1 .. l : ReadsAs(toPCC[i].words, toPCC[i].meaning)
  BY <1>1 DEF PCCReadsMessages
<1>7. \A i \in 1 .. Len(next) : ReadsAs(next[i].words, next[i].meaning)
  BY <1>4, <1>5, <1>6
<1> QED
  BY <1>0, <1>7 DEF PCCReadsMessages

(* One message answered.                                                   *)
LEMMA AnsweredRead ==
    ASSUME Listed(toPCC), PCCReadsMessages, toPCC # <<>>, toPCC' = Tail(toPCC)
    PROVE  PCCReadsMessages'
<1>1. PICK l \in Nat : l = Len(toPCC)
  BY ListIs
<1>2. PICK next : next = toPCC'
  OBVIOUS
<1>3. Len(next) = l - 1 /\ \A i \in 1 .. l - 1 : next[i] = toPCC[i + 1]
  BY <1>1, <1>2, TailOf
<1>4. \A i \in 1 .. l - 1 : i + 1 \in 1 .. l
  BY <1>1
<1>5. \A i \in 1 .. l : ReadsAs(toPCC[i].words, toPCC[i].meaning)
  BY <1>1 DEF PCCReadsMessages
<1>6. \A i \in 1 .. Len(next) : ReadsAs(next[i].words, next[i].meaning)
  BY <1>3, <1>4, <1>5
<1> QED
  BY <1>2, <1>6 DEF PCCReadsMessages

(* A PCC that hears takes messages away.                                   *)
LEMMA HeardRead ==
    ASSUME Listed(toPCC), PCCReadsMessages, PCCHears
    PROVE  PCCReadsMessages'
<1>1. PICK l \in Nat : l = Len(toPCC) /\ l # 0
  BY ListIs DEF PCCHears
<1>2. PICK k \in {1, 2} : k = (IF l > 1 THEN 2 ELSE 1)
  OBVIOUS
<1>3. k <= l /\ 1 <= l
  BY <1>1, <1>2
<1>4. PICK heard : /\ heard = [i \in 1 .. k |-> Meaning(toPCC[i].words)]
                   /\ \/ PCCSynchronizes(heard[1]) \/ PCCHearsKeepalive(heard[1])
                      \/ PCCHearsClose(heard[1]) \/ PCCCreates(heard[1]) \/ PCCUpdates(heard[1])
                      \/ PCCRemoves(heard[1]) \/ PCCRefuses(<<heard[1]>>)
                      \/ Len(heard) = 2 /\ PCCRefuses(heard)
  BY <1>1, <1>2, Zenon DEF PCCHears
<1>5. ASSUME toPCC' = Tail(toPCC) PROVE PCCReadsMessages'
  BY <1>5, AnsweredRead DEF PCCHears
<1>6. PICK one : one = <<heard[1]>>
  OBVIOUS
<1>7. Len(one) = 1
  BY <1>6, SingleList
<1>8. ASSUME PCCRefuses(one) PROVE PCCReadsMessages'
  <2>1. toPCC' = SubSeq(toPCC, Len(one) + 1, Len(toPCC))
    BY <1>8, Zenon DEF PCCRefuses
  <2>2. 1 \in Nat /\ 1 <= Len(toPCC)
    BY <1>1, <1>3
  <2> QED
    BY <1>7, <2>1, <2>2, RestRead
<1>9. ASSUME Len(heard) = 2, PCCRefuses(heard) PROVE PCCReadsMessages'
  <2>1. toPCC' = SubSeq(toPCC, Len(heard) + 1, Len(toPCC))
    BY <1>9, Zenon DEF PCCRefuses
  <2>2. heard = [i \in 1 .. k |-> heard[i]] /\ k \in Nat
    BY <1>4
  <2>3. Len(heard) = k
    BY <2>2, ListOf
  <2>4. 2 \in Nat /\ 2 <= Len(toPCC)
    BY <1>1, <1>3, <1>9, <2>3
  <2> QED
    BY <1>9, <2>1, <2>4, RestRead
<1> QED
  BY <1>4, <1>5, <1>6, <1>8, <1>9
     DEF PCCSynchronizes, PCCHearsKeepalive, PCCHearsClose, PCCCreates, PCCUpdates, PCCRemoves, Answer

(* PCCReadsMessages survives every step of the handlers, the PCC and the   *)
(* reader, but for the two named above: from a connection on which every   *)
(* message reads as what it was built from, none of them adds a message,   *)
(* or leaves one, that reads as anything else.                             *)
THEOREM MessagesStayRead ==
    ASSUME AsksAreTyped
    PROVE  Spec
             => [][KeepsReading /\ Listed(toPCC) /\ PCCReadsMessages => PCCReadsMessages']_vars
<1>1. Init => PccKept
  BY InitPccKept
<1>2. PccKept /\ [Next]_vars => PccKept'
  BY NextPccKept
<1>3. ASSUME PccKept, KeepsReading, Listed(toPCC), PCCReadsMessages
      PROVE  PCCReadsMessages'
  <2>1. ASSUME HandlerStep PROVE PCCReadsMessages'
    BY <1>3, <2>1, HandlerSends, AppendRead
  <2>2. ASSUME PCCHears PROVE PCCReadsMessages'
    BY <1>3, <2>2, HeardRead
  <2>3. ASSUME UNCHANGED toPCC PROVE PCCReadsMessages'
    BY <1>3, <2>3 DEF PCCReadsMessages
  <2>4. ASSUME ReadHeader PROVE UNCHANGED toPCC
    BY <2>4 DEF ReadHeader
  <2>5. ASSUME ReadPCErr PROVE UNCHANGED toPCC
    BY <2>5, Zenon DEF ReadPCErr
  <2>6. ASSUME ReadClose PROVE UNCHANGED toPCC
    BY <2>6, Zenon DEF ReadClose
  <2>7. ASSUME PCCActs PROVE UNCHANGED toPCC
    BY <2>7, Zenon DEF PCCActs, PCCChanges, PCCDrops, PCCCloses
  <2> QED
    BY <1>3, <2>1, <2>2, <2>3, <2>4, <2>5, <2>6, <2>7 DEF KeepsReading
<1>4. PccKept /\ [Next]_vars
        => [KeepsReading /\ Listed(toPCC) /\ PCCReadsMessages => PCCReadsMessages']_vars
  BY <1>3
<1> QED
  BY <1>1, <1>2, <1>4, PTL DEF Spec
=============================================================================
