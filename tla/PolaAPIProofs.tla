---------------------------- MODULE PolaAPIProofs ----------------------------
(***************************************************************************)
(* What the pola command sends is what polad's handlers take, for every    *)
(* file it accepts.  Requests of the northbound API reach the policies     *)
(* they were made for (RequestsHitTheirPolicy), and nothing that was there *)
(* to be seen is created again (DuplicatesNeedOverlap): for every number   *)
(* of sessions, LSPs and calls, whatever the TED and the order of reports. *)
(* What they carry was on the TED while the call ran (ListsWereOnTED):     *)
(* for every table of GoBGP, from its destinations to the SID index.  And  *)
(* what the client of the read-only calls shows is what that table         *)
(* announced (ClientShowsTable) and what the registry of a session holds   *)
(* (ListShowsPolicies).                                                    *)
(***************************************************************************)
EXTENDS PolaAPI, LsTEDProofs

------------------------------------------------------------------------------
(* The commands *)

(* The two forms of addSRPolicy: what each leaves in the request is what   *)
(* the handler's validation of that form asks for.                         *)
LEMMA EndpointAddrWellFormed ==
    ASSUME NEW f \in InputFormat, NEW b \in BOOLEAN, AcceptsEndpointAddr(f)
    PROVE  CreateIsWellFormed(EndpointAddrRequest(f, b))
<1>1. f.session # Malformed /\ f.srcAddr # Malformed /\ f.dstAddr # Malformed
  BY DEF InputFormat, Addresses
<1>2. validateCreateSRPolicy(EndpointAddrRequest(f, b))
  BY DEF AcceptsEndpointAddr, EndpointAddrRequest, validateCreateSRPolicy,
         ValidationAddDisablePathCompute
<1>3. IsAddress(f.session) /\ IsAddress(f.srcAddr) /\ IsAddress(f.dstAddr)
  BY <1>1 DEF AcceptsEndpointAddr, Given, IsAddress
<1> QED
  BY <1>2, <1>3 DEF CreateIsWellFormed, EndpointAddrRequest

LEMMA RouterIDWellFormed ==
    ASSUME NEW f \in InputFormat, NEW b \in BOOLEAN, AcceptsRouterID(f)
    PROVE  CreateIsWellFormed(RouterIDRequest(f, b))
<1>1. f.session # Malformed
  BY DEF InputFormat, Addresses
<1>2. validateCreateSRPolicy(RouterIDRequest(f, b))
  BY DEF AcceptsRouterID, validateCommonInput, RouterIDRequest, validateCreateSRPolicy,
         ValidationAdd
<1>3. IsAddress(f.session)
  BY <1>1 DEF AcceptsRouterID, validateCommonInput, Given, IsAddress
<1>4. CASE f.type = "explicit" /\ f.segments # <<>>
  <2>1. HasPathRequest(RouterIDRequest(f, b))
    BY <1>4 DEF HasPathRequest, RouterIDRequest
  <2> QED
    BY <1>2, <1>3, <2>1 DEF CreateIsWellFormed, RouterIDRequest
<1>5. CASE f.type = "dynamic" /\ parseMetric(f.metric)
  <2>1. HasPathRequest(RouterIDRequest(f, b))
    BY <1>5 DEF HasPathRequest, RouterIDRequest, parseMetric, getMetricType
  <2> QED
    BY <1>2, <1>3, <2>1 DEF CreateIsWellFormed, RouterIDRequest
<1> QED
  BY <1>4, <1>5 DEF AcceptsRouterID

(* Every file `pola sr-policy add` accepts, with or without SID validation, *)
(* becomes a request that CreateSRPolicy refuses for none of its fields:    *)
(* validate, the parsing of addresses, getSegmentList and                   *)
(* resolveSRPolicyIntent all take it.  What is left to fail is the TED, the *)
(* SIDs and the session.                                                    *)
THEOREM AddedRequestsAreWellFormed ==
    \A f \in InputFormat, b \in BOOLEAN :
        addSRPolicyAccepts(f) => CreateIsWellFormed(addSRPolicyRequest(f, b))
BY EndpointAddrWellFormed, RouterIDWellFormed DEF addSRPolicyAccepts, addSRPolicyRequest

(* Every file `pola sr-policy delete` accepts becomes a request that        *)
(* DeleteSRPolicy refuses for none of its fields.                           *)
THEOREM DeletedRequestsAreWellFormed ==
    \A f \in InputFormat :
        deleteSRPolicyAccepts(f) => DeleteIsWellFormed(deleteSRPolicyRequest(f))
<1> SUFFICES ASSUME NEW f \in InputFormat, deleteSRPolicyAccepts(f)
             PROVE  DeleteIsWellFormed(deleteSRPolicyRequest(f))
  OBVIOUS
<1>1. f.session # Malformed /\ f.dstAddr # Malformed
  BY DEF InputFormat, Addresses
<1>2. ValidationDelete(deleteSRPolicyRequest(f))
  BY DEF deleteSRPolicyAccepts, deleteSRPolicyRequest, ValidationDelete
<1>3. IsAddress(f.session) /\ IsAddress(f.dstAddr)
  BY <1>1 DEF deleteSRPolicyAccepts, Given, IsAddress
<1>4. deleteSRPolicyRequest(f).srcAddr # Malformed
  BY DEF deleteSRPolicyRequest, Malformed
<1> QED
  BY <1>2, <1>3, <1>4 DEF DeleteIsWellFormed, deleteSRPolicyRequest

(* The endpoints of a file are given in one way: an accepted file with      *)
(* router IDs has no addresses, so that nothing it says of the endpoints    *)
(* is left out of the request.  A name of a file may be.                    *)
THEOREM EndpointsAreSentWhole ==
    \A f \in InputFormat, b \in BOOLEAN :
        addSRPolicyAccepts(f) =>
            LET r == addSRPolicyRequest(f, b)
            IN  /\ r.srcAddr = f.srcAddr /\ r.dstAddr = f.dstAddr
                /\ r.srcRouter = f.srcRouter /\ r.dstRouter = f.dstRouter
<1> SUFFICES ASSUME NEW f \in InputFormat, NEW b \in BOOLEAN, addSRPolicyAccepts(f)
             PROVE  LET r == addSRPolicyRequest(f, b)
                    IN  /\ r.srcAddr = f.srcAddr /\ r.dstAddr = f.dstAddr
                        /\ r.srcRouter = f.srcRouter /\ r.dstRouter = f.dstRouter
  OBVIOUS
<1>1. CASE UsesRouterID(f)
  <2>1. f.srcAddr = "" /\ f.dstAddr = ""
    BY <1>1 DEF addSRPolicyAccepts, UsesEndpointAddr, Given
  <2> QED
    BY <1>1, <2>1 DEF addSRPolicyRequest, RouterIDRequest
<1>2. CASE ~UsesRouterID(f)
  <2>1. f.srcRouter = "" /\ f.dstRouter = ""
    BY <1>2 DEF UsesRouterID
  <2> QED
    BY <1>2, <2>1 DEF addSRPolicyRequest, EndpointAddrRequest
<1> QED
  BY <1>1, <1>2

(* A file with addresses that `add` accepts names the policy `delete` would *)
(* look for: the same session, color and endpoint.                          *)
THEOREM DeleteFindsWhatAddNamed ==
    \A f \in InputFormat, b \in BOOLEAN :
        addSRPolicyAccepts(f) /\ ~UsesRouterID(f) /\ f.name # "" =>
            LET a == addSRPolicyRequest(f, b)
                d == deleteSRPolicyRequest(f)
            IN  /\ deleteSRPolicyAccepts(f)
                /\ d.session = a.session /\ d.color = a.color /\ d.dstAddr = a.dstAddr
BY DEF addSRPolicyAccepts, AcceptsEndpointAddr, addSRPolicyRequest, EndpointAddrRequest,
       deleteSRPolicyAccepts, deleteSRPolicyRequest

------------------------------------------------------------------------------
(* Sequences whose elements are not of a named set *)

Sequence(s) == s \in Seq(Range(s))

LEMMA SequenceOf ==
    ASSUME NEW S, NEW s \in Seq(S)
    PROVE  Sequence(s) /\ Len(s) \in Nat /\ DOMAIN s = 1 .. Len(s)
<1>1. Len(s) \in Nat /\ DOMAIN s = 1 .. Len(s)
  BY LenProperties
<1>2. s \in Seq(Range(s))
  BY RangeOfSeq, SeqOfRange
<1> QED
  BY <1>1, <1>2 DEF Sequence

LEMMA SequenceLen ==
    ASSUME NEW s, Sequence(s)
    PROVE  Len(s) \in Nat /\ DOMAIN s = 1 .. Len(s)
BY LenProperties DEF Sequence

LEMMA SequenceAppend ==
    ASSUME NEW s, Sequence(s), NEW e
    PROVE  /\ Sequence(Append(s, e))
           /\ Len(Append(s, e)) = Len(s) + 1
           /\ \A k \in 1 .. Len(s) : Append(s, e)[k] = s[k]
           /\ Append(s, e)[Len(s) + 1] = e
<1> DEFINE S == Range(s) \cup {e}
<1>1. s \in Seq(S)
  BY SeqMonotonic DEF Sequence
<1>2. e \in S
  OBVIOUS
<1> HIDE DEF S
<1>3. /\ Append(s, e) \in Seq(S)
      /\ Len(Append(s, e)) = Len(s) + 1
      /\ \A k \in 1 .. Len(s) : Append(s, e)[k] = s[k]
      /\ Append(s, e)[Len(s) + 1] = e
  BY <1>1, <1>2, AppendProperties
<1>4. Sequence(Append(s, e))
  BY <1>3, SequenceOf
<1> QED
  BY <1>3, <1>4

LEMMA SequenceTail ==
    ASSUME NEW s, Sequence(s), s # <<>>
    PROVE  /\ Len(s) \in Nat \ {0}
           /\ Head(s) = s[1]
           /\ Sequence(Tail(s))
           /\ Len(Tail(s)) = Len(s) - 1
           /\ \A k \in 1 .. Len(Tail(s)) : Tail(s)[k] = s[k + 1]
<1>1. s \in Seq(Range(s))
  BY DEF Sequence
<1>2. Len(s) \in Nat \ {0}
  BY <1>1, EmptySeq
<1>3. Head(s) = s[1]
  BY <1>1
<1> QED
  BY <1>1, <1>2, <1>3, HeadTailProperties, SequenceOf

LEMMA SequenceByIndex ==
    ASSUME NEW n \in Nat, NEW f, f = [i \in 1 .. n |-> f[i]]
    PROVE  Sequence(f) /\ Len(f) = n
<1>1. f \in [1 .. n -> Range(f)]
  BY DEF Range
<1>2. f \in Seq(Range(f))
  BY <1>1, SeqDef
<1> QED
  BY <1>1, <1>2, LenProperties DEF Sequence

Replaced(s, i, e) == [s EXCEPT ![i] = e]
LEMMA SequenceReplaced ==
    ASSUME NEW s, Sequence(s), NEW i \in 1 .. Len(s), NEW e
    PROVE  /\ Sequence(Replaced(s, i, e)) /\ Len(Replaced(s, i, e)) = Len(s)
           /\ \A k \in 1 .. Len(s) : Replaced(s, i, e)[k] = IF k = i THEN e ELSE s[k]
<1> DEFINE n == Len(s)
           new == Replaced(s, i, e)
<1>1. n \in Nat /\ DOMAIN s = 1 .. n
  BY SequenceLen
<1>2. /\ new = [k \in 1 .. n |-> new[k]]
      /\ \A k \in 1 .. n : new[k] = IF k = i THEN e ELSE s[k]
  BY <1>1 DEF Replaced
<1> HIDE DEF n, new
<1>3. Sequence(new) /\ Len(new) = n
  BY <1>1, <1>2, SequenceByIndex
<1> QED
  BY <1>2, <1>3 DEF n, new

LEMMA SequenceFront ==
    ASSUME NEW s, Sequence(s), s # <<>>
    PROVE  /\ Sequence(Front(s))
           /\ Len(Front(s)) = Len(s) - 1
           /\ \A k \in 1 .. Len(Front(s)) : Front(s)[k] = s[k]
<1>1. Len(s) \in Nat \ {0}
  BY SequenceTail
<1>2. \A k \in 1 .. (Len(s) - 1) : s[k] \in Range(s)
  BY <1>1, ElementOfSeq DEF Sequence
<1> DEFINE S == Range(s)
           n == Len(s) - 1
<1>3. 1 \in Int /\ n \in Int /\ \A k \in 1 .. n : s[k] \in S
  BY <1>1, <1>2
<1> HIDE DEF S, n
<1>4. /\ SubSeq(s, 1, n) \in Seq(S)
      /\ Len(SubSeq(s, 1, n)) = IF 1 <= n THEN n - 1 + 1 ELSE 0
      /\ \A k \in 1 .. n - 1 + 1 : SubSeq(s, 1, n)[k] = s[1 + k - 1]
  BY <1>3, SubSeqProperties
<1>5. Sequence(SubSeq(s, 1, n))
  BY <1>4, SequenceOf
<1>6. Front(s) = SubSeq(s, 1, n)
  BY DEF Front, n
<1>7. n \in Nat /\ n - 1 + 1 = n
  BY <1>1 DEF n
<1>8. Len(SubSeq(s, 1, n)) = n
  BY <1>4, <1>7
<1>9. \A k \in 1 .. n : SubSeq(s, 1, n)[k] = s[k]
  <2> TAKE k \in 1 .. n
  <2>1. 1 + k - 1 = k
    BY <1>7
  <2> QED
    BY <1>4, <1>7, <2>1
<1>10. n = Len(s) - 1
  BY DEF n
<1> QED
  BY <1>5, <1>6, <1>8, <1>9, <1>10

------------------------------------------------------------------------------
(* Elements one after the other: FlattenSeq and the TED NewPCE builds *)

(* FlattenSeq: one sequence after the other.                               *)
Joins(f, seqs, n) ==
    f = [i \in 1 .. n |-> IF i = 1 THEN seqs[i] ELSE f[i - 1] \o seqs[i]]

LEMMA JoinExists ==
    ASSUME NEW seqs
    PROVE  \A n \in Nat : \E f : Joins(f, seqs, n)
<1> DEFINE N == {n \in Nat : \E f : Joins(f, seqs, n)}
<1>1. 0 \in N
  <2>1. Joins([i \in 1 .. 0 |-> seqs[i]], seqs, 0)
    BY DEF Joins
  <2> QED
    BY <2>1
<1>2. ASSUME NEW n \in Nat, n \in N PROVE n + 1 \in N
  <2>1. PICK f : Joins(f, seqs, n)
    BY <1>2
  <2> DEFINE g == [i \in 1 .. n + 1 |-> IF i = n + 1
                                        THEN IF i = 1 THEN seqs[i] ELSE f[n] \o seqs[i]
                                        ELSE f[i]]
  <2>2. ASSUME NEW i \in 1 .. n + 1
        PROVE  g[i] = IF i = 1 THEN seqs[i] ELSE g[i - 1] \o seqs[i]
    <3>1. CASE i = n + 1
      <4>1. i # 1 => i - 1 = n /\ n \in 1 .. n + 1 /\ n # n + 1
        BY <3>1
      <4>2. i # 1 => g[i - 1] = f[n]
        BY <4>1
      <4>3. g[i] = IF i = 1 THEN seqs[i] ELSE f[n] \o seqs[i]
        BY <3>1
      <4> HIDE DEF g
      <4> QED
        BY <4>2, <4>3
    <3>2. CASE i # n + 1
      <4>1. i \in 1 .. n /\ (i # 1 => i - 1 \in 1 .. n + 1 /\ i - 1 # n + 1)
        BY <3>2
      <4>2. f[i] = IF i = 1 THEN seqs[i] ELSE f[i - 1] \o seqs[i]
        BY <2>1, <4>1, Zenon DEF Joins
      <4>3. g[i] = f[i] /\ (i # 1 => g[i - 1] = f[i - 1])
        BY <3>2, <4>1
      <4> HIDE DEF g
      <4> QED
        BY <4>2, <4>3
    <3> QED
      BY <3>1, <3>2
  <2>3. g = [i \in 1 .. n + 1 |-> g[i]]
    OBVIOUS
  <2> HIDE DEF g
  <2>4. Joins(g, seqs, n + 1)
    BY <2>2, <2>3, Zenon DEF Joins
  <2> QED
    BY <2>4
<1> HIDE DEF N
<1>3. \A n \in Nat : n \in N
  BY <1>1, <1>2, InductionOverSet
<1> QED
  BY <1>3 DEF N

(* after[i] elements come from the first i of the n sequences.             *)
Flattened(seqs, all, after, n) ==
    /\ after \in [0 .. n -> Nat] /\ after[0] = 0 /\ Len(all) = after[n]
    /\ \A i \in 1 .. n : /\ after[i] = after[i - 1] + Len(seqs[i]) /\ after[i] <= after[n]
                         /\ \A k \in 1 .. Len(seqs[i]) : all[after[i - 1] + k] = seqs[i][k]

LEMMA FlattenedMore ==
    ASSUME NEW E, NEW k \in Nat, NEW seqs, \A i \in 1 .. k + 1 : seqs[i] \in Seq(E),
           NEW all \in Seq(E), NEW u, Flattened(seqs, all, u, k)
    PROVE  /\ all \o seqs[k + 1] \in Seq(E)
           /\ \E v : Flattened(seqs, all \o seqs[k + 1], v, k + 1)
<1> DEFINE s == seqs[k + 1]
           new == all \o s
           L == Len(all)
           M == Len(s)
           v == [i \in 0 .. k + 1 |-> IF i = k + 1 THEN L + M ELSE u[i]]
<1>1. s \in Seq(E) /\ k + 1 \in 1 .. k + 1
  OBVIOUS
<1>2. L \in Nat /\ M \in Nat
  BY <1>1, LenProperties
<1>3. /\ new \in Seq(E) /\ Len(new) = L + M
      /\ \A j \in 1 .. L + M : new[j] = IF j <= L THEN all[j] ELSE s[j - L]
  BY <1>1, ConcatProperties
<1>4. u \in [0 .. k -> Nat] /\ u[0] = 0 /\ u[k] = L
  BY DEF Flattened
<1>5. /\ v = [i \in 0 .. k + 1 |-> v[i]] /\ v[k + 1] = L + M
      /\ \A i \in 0 .. k : v[i] = u[i]
  OBVIOUS
<1>6. \A i \in 1 .. k : /\ u[i] = u[i - 1] + Len(seqs[i]) /\ u[i] <= L
                        /\ \A j \in 1 .. Len(seqs[i]) : all[u[i - 1] + j] = seqs[i][j]
  BY <1>4 DEF Flattened
<1> HIDE DEF s, new, L, M, v
<1>7. v \in [0 .. k + 1 -> Nat] /\ v[0] = 0
  <2>1. \A i \in 0 .. k + 1 : i \in 0 .. k \/ i = k + 1
    OBVIOUS
  <2>2. ASSUME NEW i \in 0 .. k + 1 PROVE v[i] \in Nat
    <3>1. CASE i = k + 1
      BY <1>2, <1>5, <3>1
    <3>2. CASE i \in 0 .. k
      <4>1. u[i] \in Nat /\ v[i] = u[i]
        BY <1>4, <1>5, <3>2
      <4> QED
        BY <4>1
    <3> QED
      BY <2>1, <3>1, <3>2
  <2>3. 0 \in 0 .. k
    OBVIOUS
  <2> QED
    BY <1>4, <1>5, <2>2, <2>3
<1>8. ASSUME NEW i \in 1 .. k + 1
      PROVE  /\ v[i] = v[i - 1] + Len(seqs[i]) /\ v[i] <= v[k + 1]
             /\ \A j \in 1 .. Len(seqs[i]) : new[v[i - 1] + j] = seqs[i][j]
  <2>1. CASE i = k + 1
    <3>1. i - 1 = k /\ k \in 0 .. k
      BY <2>1
    <3>2. v[i - 1] = L /\ v[i] = L + M /\ seqs[i] = s /\ Len(seqs[i]) = M
      BY <1>4, <1>5, <2>1, <3>1 DEF s, M
    <3>3. ASSUME NEW j \in 1 .. M PROVE new[L + j] = s[j]
      <4>1. PICK m : m = L + j
        OBVIOUS
      <4>2. m \in 1 .. L + M /\ ~(m <= L) /\ m - L = j
        BY <1>2, <4>1
      <4>3. new[m] = s[m - L]
        BY <1>3, <4>2
      <4> QED
        BY <4>1, <4>2, <4>3
    <3>4. v[i] <= v[k + 1]
      BY <1>2, <1>5, <3>2
    <3> QED
      BY <3>2, <3>3, <3>4
  <2>2. CASE i # k + 1
    <3>1. i \in 1 .. k /\ i \in 0 .. k /\ i - 1 \in 0 .. k
      BY <2>2
    <3>2. v[i] = u[i] /\ v[i - 1] = u[i - 1] /\ u[i - 1] \in Nat /\ u[i] \in Nat
      BY <1>4, <1>5, <3>1
    <3>3. /\ u[i] = u[i - 1] + Len(seqs[i]) /\ u[i] <= L
          /\ \A j \in 1 .. Len(seqs[i]) : all[u[i - 1] + j] = seqs[i][j]
      BY <1>6, <3>1
    <3>4. Len(seqs[i]) \in Nat
      BY LenProperties
    <3>5. \A j \in 1 .. Len(seqs[i]) : u[i - 1] + j \in 1 .. L + M /\ u[i - 1] + j <= L
      BY <1>2, <3>2, <3>3, <3>4
    <3>6. \A j \in 1 .. Len(seqs[i]) : new[u[i - 1] + j] = seqs[i][j]
      BY <1>3, <3>3, <3>5
    <3>7. u[i] <= L + M
      BY <1>2, <3>2, <3>3
    <3> QED
      BY <1>5, <3>2, <3>3, <3>6, <3>7
  <2> QED
    BY <2>1, <2>2
<1>9. Flattened(seqs, new, v, k + 1)
  BY <1>3, <1>5, <1>7, <1>8 DEF Flattened
<1> QED
  BY <1>3, <1>9 DEF new, s

LEMMA FlattenedSeq ==
    ASSUME NEW E, NEW n \in Nat, NEW seqs \in [1 .. n -> Seq(E)]
    PROVE  /\ FlattenSeq(seqs) \in Seq(E)
           /\ \E after : Flattened(seqs, FlattenSeq(seqs), after, n)
<1>1. Len(seqs) = n
  BY SeqDef, LenProperties
<1>2. CASE n = 0
  <2>1. seqs = <<>> /\ FlattenSeq(seqs) = <<>>
    BY <1>1, <1>2 DEF FlattenSeq
  <2>2. Flattened(seqs, <<>>, [i \in 0 .. 0 |-> 0], 0)
    BY DEF Flattened
  <2> QED
    BY <1>2, <2>1, <2>2
<1>3. CASE n # 0
  <2> DEFINE f == CHOOSE f : Joins(f, seqs, n)
  <2>1. Joins(f, seqs, n)
    BY JoinExists
  <2>2. FlattenSeq(seqs) = f[n]
    BY <1>1, <1>3 DEF FlattenSeq, Joins
  <2> HIDE DEF f
  <2>3. \A i \in 1 .. n : f[i] = IF i = 1 THEN seqs[i] ELSE f[i - 1] \o seqs[i]
    BY <2>1, Zenon DEF Joins
  <2> DEFINE N == {k \in Nat : k \in 1 .. n =>
                      f[k] \in Seq(E) /\ \E u : Flattened(seqs, f[k], u, k)}
  <2>4. 0 \in N
    OBVIOUS
  <2>5. ASSUME NEW k \in Nat, k \in N PROVE k + 1 \in N
    <3> SUFFICES ASSUME k + 1 \in 1 .. n
                 PROVE  f[k + 1] \in Seq(E) /\ \E u : Flattened(seqs, f[k + 1], u, k + 1)
      OBVIOUS
    <3>1. CASE k = 0
      <4>1. f[1] = seqs[1] /\ seqs[1] \in Seq(E) /\ Len(seqs[1]) \in Nat
        BY <2>3, <3>1, LenProperties
      <4>2. PICK s : s = seqs[1]
        OBVIOUS
      <4> DEFINE u == [i \in 0 .. 1 |-> IF i = 0 THEN 0 ELSE Len(s)]
      <4>3. u \in [0 .. 1 -> Nat] /\ u[0] = 0 /\ u[1] = Len(s)
        BY <4>1, <4>2
      <4> HIDE DEF u
      <4>4. \A j \in 1 .. Len(s) : 0 + j = j
        BY <4>1, <4>2
      <4>5. \A i \in 1 .. 1 : i = 1 /\ i - 1 = 0
        OBVIOUS
      <4>6. Flattened(seqs, s, u, 1)
        BY <4>1, <4>2, <4>3, <4>4, <4>5 DEF Flattened
      <4> QED
        BY <3>1, <4>1, <4>2, <4>6
    <3>2. CASE k # 0
      <4>1. k \in 1 .. n /\ f[k + 1] = f[k] \o seqs[k + 1]
        <5>1. k \in 1 .. n /\ k + 1 # 1 /\ (k + 1) - 1 = k
          BY <3>2
        <5> HIDE DEF N
        <5> QED
          BY <2>3, <5>1
      <4>2. f[k] \in Seq(E) /\ \A i \in 1 .. k + 1 : seqs[i] \in Seq(E)
        BY <2>5, <4>1
      <4>3. PICK u : Flattened(seqs, f[k], u, k)
        BY <2>5, <4>1
      <4> QED
        BY <4>1, <4>2, <4>3, FlattenedMore
    <3> QED
      BY <3>1, <3>2
  <2> HIDE DEF N
  <2>6. \A k \in Nat : k \in N
    BY <2>4, <2>5, InductionOverSet
  <2>7. f[n] \in Seq(E) /\ \E u : Flattened(seqs, f[n], u, n)
    BY <1>3, <2>6 DEF N
  <2> QED
    BY <2>2, <2>7
<1> QED
  BY <1>2, <1>3
(* Each element of the whole is one of a part.                             *)
PlaceIn(seqs, all, after, n, m) ==
    \E i \in 1 .. n : \E k \in 1 .. Len(seqs[i]) :
        m = after[i - 1] + k /\ all[m] = seqs[i][k]
LEMMA FlattenedFrom ==
    ASSUME NEW E, NEW n \in Nat, NEW seqs \in [1 .. n -> Seq(E)], NEW all, NEW after,
           Flattened(seqs, all, after, n), NEW m \in 1 .. Len(all)
    PROVE  PlaceIn(seqs, all, after, n, m)
<1> DEFINE I == {i \in 0 .. n : m <= after[i]}
<1>1. after \in [0 .. n -> Nat] /\ after[0] = 0 /\ Len(all) = after[n]
  BY DEF Flattened
<1>2. n \in I /\ I \in SUBSET Nat
  BY <1>1
<1>3. Min(I) \in I /\ \A i \in I : Min(I) <= i
  BY <1>2, MinIsLeast
<1>4. PICK i \in I : \A j \in I : i <= j
  BY <1>3
<1>5. i \in 0 .. n /\ m <= after[i] /\ m \in Nat \ {0}
  BY <1>1
<1>6. i # 0
  BY <1>1, <1>5
<1>7. i \in 1 .. n /\ i - 1 \in 0 .. n /\ i - 1 \notin I
  BY <1>4, <1>5, <1>6
<1>8. after[i - 1] \in Nat /\ after[i] \in Nat /\ ~(m <= after[i - 1])
  BY <1>1, <1>7
<1>9. /\ after[i] = after[i - 1] + Len(seqs[i])
      /\ \A k \in 1 .. Len(seqs[i]) : all[after[i - 1] + k] = seqs[i][k]
  BY <1>7 DEF Flattened
<1>10. Len(seqs[i]) \in Nat
  BY <1>7, LenProperties
<1>11. PICK k : k = m - after[i - 1]
  OBVIOUS
<1>12. k \in 1 .. Len(seqs[i]) /\ m = after[i - 1] + k
  BY <1>5, <1>8, <1>9, <1>10, <1>11
<1> QED
  BY <1>7, <1>9, <1>12 DEF PlaceIn

(* The sums grow with the number of sequences.                             *)
LEMMA SumsGrow ==
    ASSUME NEW seqs, NEW all, NEW after, NEW n \in Nat, Flattened(seqs, all, after, n),
           \A i \in 1 .. n : Len(seqs[i]) \in Nat
    PROVE  \A i, j \in 0 .. n : i <= j => after[i] <= after[j]
<1>1. after \in [0 .. n -> Nat] /\ \A i \in 1 .. n : after[i] = after[i - 1] + Len(seqs[i])
  BY DEF Flattened
<1> DEFINE N == {d \in Nat : \A i \in 0 .. n : i + d <= n => after[i] <= after[i + d]}
<1>2. 0 \in N
  BY <1>1
<1>3. ASSUME NEW d \in Nat, d \in N PROVE d + 1 \in N
  <2> SUFFICES ASSUME NEW i \in 0 .. n, i + (d + 1) <= n PROVE after[i] <= after[i + (d + 1)]
    OBVIOUS
  <2>1. i + d \in 0 .. n /\ i + (d + 1) \in 1 .. n /\ (i + (d + 1)) - 1 = i + d
    OBVIOUS
  <2>2. after[i] <= after[i + d]
    BY <1>3, <2>1
  <2>3. after[i + (d + 1)] = after[i + d] + Len(seqs[i + (d + 1)])
    BY <1>1, <2>1
  <2>4. after[i] \in Nat /\ after[i + d] \in Nat /\ Len(seqs[i + (d + 1)]) \in Nat
    BY <1>1, <2>1
  <2> QED
    BY <2>2, <2>3, <2>4
<1> HIDE DEF N
<1>4. \A d \in Nat : d \in N
  BY <1>2, <1>3, InductionOverSet
<1> SUFFICES ASSUME NEW i \in 0 .. n, NEW j \in 0 .. n, i <= j PROVE after[i] <= after[j]
  OBVIOUS
<1>5. PICK d \in Nat : j = i + d
  <2>1. j - i \in Nat /\ j = i + (j - i)
    OBVIOUS
  <2> QED
    BY <2>1
<1> QED
  BY <1>4, <1>5 DEF N

(* A fold from the left, as SequencesExt has it, is one over the sets of   *)
(* indices.                                                                *)
Folds(f, elems, D) ==
    f = [S \in SUBSET D |->
            IF S = {} THEN EmptyTED ELSE Apply(f[S \ {Max(S)}], elems[Max(S)])]

LEMMA MaxIsLast ==
    ASSUME NEW k \in Nat, NEW S \in SUBSET (1 .. k), k \in S
    PROVE  Max(S) = k
<1>1. \A y \in S : k >= y
  OBVIOUS
<1>2. \A x \in S : (\A y \in S : x >= y) => x = k
  OBVIOUS
<1> QED
  BY <1>1, <1>2 DEF Max

LEMMA FoldExists ==
    ASSUME NEW elems
    PROVE  \A n \in Nat : \E f : Folds(f, elems, 1 .. n)
<1> DEFINE N == {n \in Nat : \E f : Folds(f, elems, 1 .. n)}
<1>1. 0 \in N
  <2> DEFINE f == [S \in SUBSET (1 .. 0) |-> EmptyTED]
  <2>1. \A S \in SUBSET (1 .. 0) : S = {}
    OBVIOUS
  <2>2. Folds(f, elems, 1 .. 0)
    BY <2>1 DEF Folds
  <2> QED
    BY <2>2
<1>2. ASSUME NEW n \in Nat, n \in N PROVE n + 1 \in N
  <2>1. PICK f : Folds(f, elems, 1 .. n)
    BY <1>2
  <2> DEFINE g == [S \in SUBSET (1 .. n + 1) |->
                     IF n + 1 \in S THEN Apply(f[S \ {n + 1}], elems[n + 1]) ELSE f[S]]
  <2>2. ASSUME NEW S \in SUBSET (1 .. n + 1)
        PROVE  g[S] = IF S = {} THEN EmptyTED ELSE Apply(g[S \ {Max(S)}], elems[Max(S)])
    <3>1. CASE n + 1 \in S
      <4>1. Max(S) = n + 1
        BY <3>1, MaxIsLast
      <4>2. S \ {n + 1} \in SUBSET (1 .. n + 1) /\ n + 1 \notin S \ {n + 1}
        OBVIOUS
      <4>3. g[S \ {n + 1}] = f[S \ {n + 1}] /\ g[S] = Apply(f[S \ {n + 1}], elems[n + 1])
        BY <3>1, <4>2
      <4> HIDE DEF g
      <4> QED
        BY <3>1, <4>1, <4>3
    <3>2. CASE n + 1 \notin S
      <4>1. S \in SUBSET (1 .. n)
        BY <3>2
      <4>2. f[S] = IF S = {} THEN EmptyTED ELSE Apply(f[S \ {Max(S)}], elems[Max(S)])
        BY <2>1, <4>1, Zenon DEF Folds
      <4>3. /\ S \ {Max(S)} \in SUBSET (1 .. n + 1) /\ n + 1 \notin S \ {Max(S)}
        BY <3>2
      <4>4. g[S] = f[S] /\ g[S \ {Max(S)}] = f[S \ {Max(S)}]
        BY <3>2, <4>3
      <4> HIDE DEF g
      <4> QED
        BY <4>2, <4>4
    <3> QED
      BY <3>1, <3>2
  <2>3. g = [S \in SUBSET (1 .. n + 1) |-> g[S]]
    OBVIOUS
  <2> HIDE DEF g
  <2>4. Folds(g, elems, 1 .. n + 1)
    BY <2>2, <2>3, Zenon DEF Folds
  <2> QED
    BY <2>4
<1> HIDE DEF N
<1>3. \A n \in Nat : n \in N
  BY <1>1, <1>2, InductionOverSet
<1> QED
  BY <1>3 DEF N

(* BuildTED applies the elements one by one.                               *)
LEMMA BuiltOneByOne ==
    ASSUME NEW elems, NEW n \in Nat, DOMAIN elems = 1 .. n
    PROVE  \E t : /\ t[0] = EmptyTED /\ t[n] = BuildTED(elems)
                  /\ \A k \in 0 .. (n - 1) : t[k + 1] = Apply(t[k], elems[k + 1])
<1> DEFINE f == CHOOSE f : Folds(f, elems, 1 .. n)
<1>1. Folds(f, elems, 1 .. n)
  BY FoldExists
<1>2. BuildTED(elems) = f[1 .. n]
  BY DEF BuildTED, FoldLeft, MapThenFoldSet, Folds
<1> HIDE DEF f
<1>3. \A S \in SUBSET (1 .. n) :
         f[S] = IF S = {} THEN EmptyTED ELSE Apply(f[S \ {Max(S)}], elems[Max(S)])
  BY <1>1, Zenon DEF Folds
<1> DEFINE t == [k \in 0 .. n |-> f[1 .. k]]
<1>4. t[0] = EmptyTED
  <2>1. 1 .. 0 = {} /\ 1 .. 0 \in SUBSET (1 .. n) /\ 0 \in 0 .. n
    OBVIOUS
  <2> QED
    BY <1>3, <2>1
<1>5. ASSUME NEW k \in 0 .. (n - 1) PROVE t[k + 1] = Apply(t[k], elems[k + 1])
  <2>1. k \in Nat /\ k \in 0 .. n /\ k + 1 \in 0 .. n
    OBVIOUS
  <2>2. PICK S : S = 1 .. k + 1
    OBVIOUS
  <2>3. /\ S \in SUBSET (1 .. n) /\ k + 1 \in S /\ S # {} /\ S \ {k + 1} = 1 .. k
    BY <2>1, <2>2
  <2>4. Max(S) = k + 1
    BY <2>1, <2>2, <2>3, MaxIsLast
  <2>5. f[S] = Apply(f[1 .. k], elems[k + 1])
    BY <1>3, <2>3, <2>4
  <2>6. t[k] = f[1 .. k] /\ t[k + 1] = f[S]
    BY <2>1, <2>2
  <2> HIDE DEF t
  <2> QED
    BY <2>5, <2>6
<1>6. t[n] = BuildTED(elems)
  BY <1>2
<1> HIDE DEF t
<1> QED
  BY <1>4, <1>5, <1>6

LEMMA ApplyMerges ==
    ASSUME NEW t, WellFormed(t), NEW a \in Nat, Merged(t, a),
           NEW e, e = listing[a + 1], IsElem(e)
    PROVE  WellFormed(Apply(t, e)) /\ Merged(Apply(t, e), a + 1)
<1>1. CASE Foreign(e)
  BY <1>1, ForeignMerges DEF Apply
<1>2. CASE ~Foreign(e) /\ e.kind = "node"
  BY <1>2, MergeNodeKeeps, MergeNodeMerges DEF Apply
<1>3. CASE ~Foreign(e) /\ e.kind = "link"
  BY <1>3, AddLinkKeeps, AddLinkMerges DEF Apply
<1>4. CASE ~Foreign(e) /\ e.kind = "prefix"
  BY <1>4, AddPrefixKeeps, AddPrefixMerges DEF Apply
<1>5. CASE ~Foreign(e) /\ e.kind = "srv6SID"
  BY <1>5, AddSRv6SIDKeeps, AddSRv6SIDMerges DEF Apply
<1> QED
  BY <1>1, <1>2, <1>3, <1>4, <1>5 DEF IsElem

(* The TED that is published holds what all the elements say.              *)
LEMMA BuiltIsMerged ==
    ASSUME DOMAIN listing = 1 .. Len(listing), Len(listing) \in Nat,
           \A i \in 1 .. Len(listing) : IsElem(listing[i])
    PROVE  WellFormed(BuildTED(listing)) /\ Merged(BuildTED(listing), Len(listing))
<1> DEFINE n == Len(listing)
<1>1. PICK t : /\ t[0] = EmptyTED /\ t[n] = BuildTED(listing)
               /\ \A k \in 0 .. (n - 1) : t[k + 1] = Apply(t[k], listing[k + 1])
  BY BuiltOneByOne
<1> DEFINE N == {k \in Nat : k <= n => WellFormed(t[k]) /\ Merged(t[k], k)}
<1>2. 0 \in N
  <2>1. WellFormed(EmptyTED)
    <3>1. EmptyTED.heap = <<>> /\ EmptyTED.nodes = <<>> /\ DOMAIN <<>> = {} /\ Len(<<>>) = 0
      BY DEF EmptyTED
    <3>2. <<>> = [r \in {} |-> <<>>[r]]
      OBVIOUS
    <3>3. <<>> \in Seq(LsNodes)
      OBVIOUS
    <3>4. EmptyTED = [heap |-> EmptyTED.heap, nodes |-> EmptyTED.nodes]
      BY DEF EmptyTED
    <3> QED
      BY <3>1, <3>2, <3>3, <3>4 DEF WellFormed
  <2>2. Merged(EmptyTED, 0)
    <3>1. Mine(0) = {}
      BY DEF Mine
    <3>2. Named(0) = {}
      BY <3>1 DEF Named
    <3>3. Len(EmptyTED.heap) = 0 /\ DOMAIN EmptyTED.nodes = {}
      BY DEF EmptyTED
    <3> QED
      BY <3>2, <3>3 DEF Merged, Contents
  <2> QED
    BY <1>1, <2>1, <2>2
<1>3. ASSUME NEW k \in Nat, k \in N PROVE k + 1 \in N
  <2> SUFFICES ASSUME k + 1 <= n PROVE WellFormed(t[k + 1]) /\ Merged(t[k + 1], k + 1)
    OBVIOUS
  <2>1. k \in 0 .. (n - 1) /\ k + 1 \in 1 .. n
    OBVIOUS
  <2>2. WellFormed(t[k]) /\ Merged(t[k], k)
    BY <1>3, <2>1
  <2> QED
    BY <1>1, <2>1, <2>2, ApplyMerges
<1> HIDE DEF N
<1>4. \A k \in Nat : k \in N
  BY <1>2, <1>3, InductionOverSet
<1>5. n \in N /\ n <= n
  BY <1>4
<1> QED
  BY <1>1, <1>5 DEF N

------------------------------------------------------------------------------
(* What destinations become *)

LEMMA BodyTypes ==
    ASSUME NEW d, IsDestination(d), d.nlri = d.attr
    PROVE  /\ d.nlri = "node" =>
                 d.body \in [router : STRING, asn : Nat, hasSR : BOOLEAN,
                             ranges : Seq([begin : Uint, end : Uint])]
           /\ d.nlri = "link" =>
                 d.body \in [router : STRING, remote : STRING, asn : Nat, remoteASN : Nat,
                             igp : Uint, te : Uint, delay : Uint, adjSID : Uint,
                             endX : SUBSET STRING, parses : BOOLEAN]
           /\ d.nlri = "prefix" =>
                 d.body \in [reach : Seq(PrefixNLRIs), sids : Seq([algorithm : Nat, sid : Uint]),
                             sid : Uint]
           /\ d.nlri = "srv6SID" =>
                 d.body \in [reach : Seq([router : STRING, asn : Nat, sids : Seq(STRING)])]
<1>1. DOMAIN Bodies = {"node", "link", "prefix", "srv6SID"}
  BY DEF Bodies
<1>2. d.nlri \in {"node", "link", "prefix", "srv6SID"} => d.body \in Bodies[d.nlri]
  BY <1>1, Zenon DEF IsDestination
<1>3. d.nlri = "node" => d.body \in Bodies.node
  BY <1>2
<1>4. d.nlri = "link" => d.body \in Bodies.link
  BY <1>2
<1>5. d.nlri = "prefix" => d.body \in Bodies.prefix
  BY <1>2
<1>6. d.nlri = "srv6SID" => d.body \in Bodies.srv6SID
  BY <1>2
<1>7. Bodies.node = [router : STRING, asn : Nat, hasSR : BOOLEAN,
                     ranges : Seq([begin : Uint, end : Uint])]
  BY Zenon DEF Bodies
<1>8. Bodies.link = [router : STRING, remote : STRING, asn : Nat, remoteASN : Nat,
                     igp : Uint, te : Uint, delay : Uint, adjSID : Uint,
                     endX : SUBSET STRING, parses : BOOLEAN]
  BY Zenon DEF Bodies
<1>9. Bodies.prefix = [reach : Seq(PrefixNLRIs), sids : Seq([algorithm : Nat, sid : Uint]),
                       sid : Uint]
  BY Zenon DEF Bodies
<1>10. Bodies.srv6SID = [reach : Seq([router : STRING, asn : Nat, sids : Seq(STRING)])]
  BY Zenon DEF Bodies
<1> QED
  BY <1>3, <1>4, <1>5, <1>6, <1>7, <1>8, <1>9, <1>10, Zenon

(* Elements are typed when their fields are.                               *)
LEMMA NodeTyped ==
    ASSUME NEW r \in STRING, NEW a, NEW x \in Uint, NEW y \in Uint
    PROVE  IsElem(NodeElem(r, a, x, y))
<1>1. PICK e : e = NodeElem(r, a, x, y)
  OBVIOUS
<1>2. e.router = r /\ e.kind = "node" /\ e.begin = x /\ e.end = y
  BY <1>1 DEF NodeElem
<1> QED
  BY <1>1, <1>2, Zenon DEF IsElem

LEMMA LinkTyped ==
    ASSUME NEW r \in STRING, NEW q \in STRING, NEW a, NEW b, NEW l \in LinkAttrs
    PROVE  IsElem(LinkElem(r, q, a, b, l))
<1>1. PICK e : e = LinkElem(r, q, a, b, l)
  OBVIOUS
<1>2. e.router = r /\ e.kind = "link" /\ e.remote = q /\ e.link = l
  BY <1>1 DEF LinkElem
<1> QED
  BY <1>1, <1>2, Zenon DEF IsElem

LEMMA PrefixTyped ==
    ASSUME NEW r \in STRING, NEW a, NEW p \in LsPrefixes
    PROVE  IsElem(PrefixElem(r, a, p)) /\ PrefixElem(r, a, p).kind = "prefix"
<1>1. PICK e : e = PrefixElem(r, a, p)
  OBVIOUS
<1>2. e.router = r /\ e.kind = "prefix" /\ e.prefix = p
  BY <1>1 DEF PrefixElem
<1> QED
  BY <1>1, <1>2, Zenon DEF IsElem

LEMMA SRv6Typed ==
    ASSUME NEW r \in STRING, NEW a, NEW s \in Seq(STRING)
    PROVE  IsElem(SRv6Elem(r, a, s))
<1>1. PICK e : e = SRv6Elem(r, a, s)
  OBVIOUS
<1>2. e.router = r /\ e.kind = "srv6SID" /\ e.sids = s
  BY <1>1 DEF SRv6Elem
<1> QED
  BY <1>1, <1>2, Zenon DEF IsElem

LEMMA NodeConverted ==
    ASSUME NEW d, IsDestination(d), ~Refuses(d), d.attr = "node"
    PROVE  /\ ConvertToTEDElem(d) = <<getLsNode(d.body)>>
           /\ IsElem(getLsNode(d.body)) /\ getLsNode(d.body).kind = "node"
           /\ d.nlri = "node" /\ (d.body.hasSR => Len(d.body.ranges) = 1)
<1> DEFINE b == d.body
<1>1. d.nlri = "node" /\ ~RefusesNode(b)
  BY DEF Refuses, RefusesByType
<1>2. b \in [router : STRING, asn : Nat, hasSR : BOOLEAN,
             ranges : Seq([begin : Uint, end : Uint])]
  BY <1>1, BodyTypes
<1>3. ConvertToTEDElem(d) = <<getLsNode(b)>>
  BY <1>1 DEF ConvertToTEDElem, convertByNlriType
<1> HIDE DEF b
<1>4. b.hasSR => Len(b.ranges) = 1
  BY <1>1 DEF RefusesNode
<1>5. 0 \in Uint
  BY TEDAssumption DEF Uint
<1>6. b.router \in STRING
  BY <1>2
<1>7. IsElem(getLsNode(b))
  <2>1. CASE ~b.hasSR
    <3>1. getLsNode(b) = NodeElem(b.router, b.asn, 0, 0)
      BY <2>1 DEF getLsNode
    <3> QED
      BY <1>5, <1>6, <3>1, NodeTyped
  <2>2. CASE b.hasSR
    <3>1. b.ranges \in Seq([begin : Uint, end : Uint]) /\ 1 \in 1 .. Len(b.ranges)
      BY <1>2, <1>4, <2>2
    <3>2. b.ranges[1] \in [begin : Uint, end : Uint]
      BY <3>1, ElementOfSeq
    <3>3. PICK g : g = b.ranges[1]
      OBVIOUS
    <3>4. getLsNode(b) = NodeElem(b.router, b.asn, g.begin, g.end)
      BY <2>2, <3>3 DEF getLsNode
    <3>5. g.begin \in Uint /\ g.end \in Uint
      BY <3>2, <3>3
    <3> QED
      BY <1>6, <3>4, <3>5, NodeTyped
  <2> QED
    BY <2>1, <2>2
<1>8. getLsNode(b).kind = "node"
  BY DEF getLsNode, NodeElem
<1> QED
  BY <1>1, <1>3, <1>4, <1>7, <1>8 DEF b

LEMMA LinkConverted ==
    ASSUME NEW d, IsDestination(d), ~Refuses(d), d.attr = "link"
    PROVE  /\ ConvertToTEDElem(d) = <<getLsLink(d.body)>>
           /\ IsElem(getLsLink(d.body)) /\ getLsLink(d.body).kind = "link" /\ d.nlri = "link"
<1> DEFINE b == d.body
           types == {"igp"} \cup (IF b.te = 0 THEN {} ELSE {"te"})
                            \cup (IF b.delay = 0 THEN {} ELSE {"delay"})
           value == [igp |-> b.igp, te |-> b.te, delay |-> b.delay]
           metrics == [m \in types |-> value[m]]
<1>1. d.nlri = "link"
  BY DEF Refuses, RefusesByType
<1>2. b \in [router : STRING, remote : STRING, asn : Nat, remoteASN : Nat,
             igp : Uint, te : Uint, delay : Uint, adjSID : Uint,
             endX : SUBSET STRING, parses : BOOLEAN]
  BY <1>1, BodyTypes
<1>3. ConvertToTEDElem(d) = <<getLsLink(b)>>
  BY <1>1 DEF ConvertToTEDElem, convertByNlriType
<1>4. metrics \in Metrics
  <2>1. \A m \in types : value[m] \in Uint
    BY <1>2
  <2>2. types \subseteq MetricTypes
    BY TablesAssumption
  <2> HIDE DEF types, value
  <2>3. metrics \in [types -> Uint]
    BY <2>1
  <2> QED
    BY <2>2, <2>3 DEF Metrics
<1>5. getLsLink(b) = LinkElem(b.router, b.remote, b.asn, b.remoteASN,
                              Link(metrics, b.adjSID, b.endX))
  BY DEF getLsLink
<1> HIDE DEF metrics, b
<1>6. b.adjSID \in Nat
  BY <1>2 DEF Uint
<1>7. Link(metrics, b.adjSID, b.endX) \in LinkAttrs
  BY <1>2, <1>4, <1>6 DEF Link, LinkAttrs
<1>8. IsElem(getLsLink(b)) /\ getLsLink(b).kind = "link"
  <2>1. b.router \in STRING /\ b.remote \in STRING
    BY <1>2
  <2>2. IsElem(getLsLink(b))
    BY <1>5, <1>7, <2>1, LinkTyped
  <2> QED
    BY <1>5, <2>2 DEF LinkElem
<1> QED
  BY <1>1, <1>3, <1>8 DEF b

LEMMA SRv6Converted ==
    ASSUME NEW d, IsDestination(d), ~Refuses(d), d.attr = "srv6SID"
    PROVE  /\ ConvertToTEDElem(d) = getLsSrv6SIDList(d.body) /\ d.nlri = "srv6SID"
           /\ Len(d.body.reach) \in Nat
           /\ \A k \in 1 .. Len(d.body.reach) :
                 LET e == getLsSrv6SID(d.body.reach[k])
                 IN  IsElem(e) /\ e.kind = "srv6SID"
<1> DEFINE b == d.body
<1>1. d.nlri = "srv6SID"
  BY DEF Refuses, RefusesByType
<1>2. b.reach \in Seq([router : STRING, asn : Nat, sids : Seq(STRING)])
  BY <1>1, BodyTypes
<1>3. ConvertToTEDElem(d) = getLsSrv6SIDList(b)
  BY <1>1 DEF ConvertToTEDElem, convertByNlriType
<1> HIDE DEF b
<1>4. \A k \in 1 .. Len(b.reach) : b.reach[k] \in [router : STRING, asn : Nat, sids : Seq(STRING)]
  BY <1>2, ElementOfSeq
<1>5. ASSUME NEW k \in 1 .. Len(b.reach)
      PROVE  IsElem(getLsSrv6SID(b.reach[k])) /\ getLsSrv6SID(b.reach[k]).kind = "srv6SID"
  <2>1. PICK n : n = b.reach[k]
    OBVIOUS
  <2>2. n.router \in STRING /\ n.sids \in Seq(STRING)
    BY <1>4, <2>1
  <2> QED
    BY <2>1, <2>2, SRv6Typed DEF getLsSrv6SID, SRv6Elem
<1> QED
  BY <1>1, <1>2, <1>3, <1>5, LenProperties DEF b

(* The index that counts is typed, and announced.                          *)
LEMMA PrefixSIDAnnounced ==
    ASSUME NEW x, x.body.sids \in Seq([algorithm : Nat, sid : Uint]), x.body.sid \in Uint,
           NEW index \in algo0PrefixSID(x.body)
    PROVE  index \in Uint /\ AnnouncesIndex(x, index)
<1>1. PICK b : b = x.body
  OBVIOUS
<1>2. b.sids \in Seq([algorithm : Nat, sid : Uint]) /\ b.sid \in Uint
  BY <1>1
<1>3. CASE b.sids = <<>>
  <2>1. index = b.sid /\ index # 0
    BY <1>1, <1>3 DEF algo0PrefixSID
  <2> QED
    BY <1>1, <1>2, <1>3, <2>1 DEF AnnouncesIndex
<1>4. CASE b.sids # <<>>
  <2> DEFINE S == Algorithm0(b)
             i == Min(S)
  <2>1. S # {} /\ index = b.sids[i].sid
    BY <1>1, <1>4 DEF algo0PrefixSID
  <2>2. S \subseteq 1 .. Len(b.sids) /\ Len(b.sids) \in Nat
    BY <1>2, LenProperties DEF Algorithm0
  <2>3. S \in SUBSET Nat
    BY <2>2
  <2>4. i \in S /\ \A j \in S : i <= j
    BY <2>1, <2>3, MinIsLeast
  <2>5. i \in 1 .. Len(b.sids)
    BY <2>2, <2>4
  <2>6. b.sids[i] \in [algorithm : Nat, sid : Uint]
    BY <1>2, <2>5, ElementOfSeq
  <2>7. b.sids[i].algorithm = 0
    BY <2>4 DEF Algorithm0
  <2>8. \A j \in 1 .. (i - 1) : j \in 1 .. Len(b.sids) /\ ~(i <= j)
    BY <2>2, <2>5
  <2>9. \A j \in 1 .. (i - 1) : b.sids[j].algorithm # 0
    <3> HIDE DEF i
    <3> QED
      BY <2>4, <2>8 DEF Algorithm0
  <2> HIDE DEF S, i
  <2>10. PICK e : e = b.sids[i]
    OBVIOUS
  <2>11. e = [algorithm |-> 0, sid |-> index] /\ index \in Uint
    BY <2>1, <2>6, <2>7, <2>10
  <2>12. b.sids[i] = [algorithm |-> 0, sid |-> index]
    BY <2>10, <2>11
  <2> QED
    BY <1>1, <2>5, <2>9, <2>11, <2>12 DEF AnnouncesIndex
<1> QED
  BY <1>3, <1>4

LEMMA NoSIDAnnounced ==
    ASSUME NEW x, algo0PrefixSID(x.body) = {}
    PROVE  AnnouncesNoIndex(x)
<1>1. PICK b : b = x.body
  OBVIOUS
<1>2. CASE b.sids = <<>>
  BY <1>1, <1>2 DEF algo0PrefixSID, AnnouncesNoIndex
<1>3. CASE b.sids # <<>>
  <2>1. Algorithm0(b) = {}
    BY <1>1, <1>3 DEF algo0PrefixSID
  <2>2. \A i \in 1 .. Len(b.sids) : b.sids[i].algorithm # 0
    BY <2>1 DEF Algorithm0
  <2> QED
    BY <1>1, <1>3, <2>2 DEF AnnouncesNoIndex
<1> QED
  BY <1>2, <1>3

LEMMA PrefixElemTyped ==
    ASSUME NEW n \in PrefixNLRIs, ~RefusesPrefix(n), NEW b,
           b.sids \in Seq([algorithm : Nat, sid : Uint]), b.sid \in Uint
    PROVE  IsElem(getLsPrefix(n, b)) /\ getLsPrefix(n, b).kind = "prefix"
<1> DEFINE s == algo0PrefixSID(b)
<1>1. n \notin [isPrefix : {FALSE}, asn : Nat] /\ Len(n.prefixes) = 1
  BY DEF RefusesPrefix
<1>2. n \in [isPrefix : {TRUE}, router : STRING, asn : Nat, prefixes : Seq(IPPrefixes)]
  BY <1>1 DEF PrefixNLRIs
<1>3. n.router \in STRING /\ n.prefixes \in Seq(IPPrefixes)
  BY <1>2
<1>4. n.prefixes[1] \in IPPrefixes
  BY <1>1, <1>3, ElementOfSeq
<1>5. PICK p : p = n.prefixes[1]
  OBVIOUS
<1>6. p.prefix \in STRING /\ p.host \in BOOLEAN
  BY <1>4, <1>5 DEF IPPrefixes
<1>7. \A i \in s : i \in Uint
  <2>1. PICK x : x = [body |-> b]
    OBVIOUS
  <2>2. x.body = b
    BY <2>1
  <2> QED
    BY <2>2, PrefixSIDAnnounced
<1>8. 0 \in Uint
  BY TEDAssumption DEF Uint
<1> HIDE DEF s
<1>9. ASSUME NEW h \in BOOLEAN, NEW i \in Uint
      PROVE  LsPrefix(p.prefix, p.host, h, i) \in LsPrefixes
  BY <1>6 DEF LsPrefix, LsPrefixes
<1>10. CASE s = {}
  <2>1. getLsPrefix(n, b) = PrefixElem(n.router, n.asn, LsPrefix(p.prefix, p.host, FALSE, 0))
    BY <1>5, <1>10 DEF getLsPrefix, s
  <2>2. PICK q : q = LsPrefix(p.prefix, p.host, FALSE, 0)
    OBVIOUS
  <2>3. q \in LsPrefixes
    BY <1>8, <1>9, <2>2
  <2> QED
    BY <1>3, <2>1, <2>2, <2>3, PrefixTyped
<1>11. CASE s # {}
  <2>1. PICK i : i = CHOOSE k \in s : TRUE
    OBVIOUS
  <2>2. i \in s
    BY <1>11, <2>1
  <2>3. getLsPrefix(n, b) = PrefixElem(n.router, n.asn, LsPrefix(p.prefix, p.host, TRUE, i))
    BY <1>5, <1>11, <2>1 DEF getLsPrefix, s
  <2>4. PICK q : q = LsPrefix(p.prefix, p.host, TRUE, i)
    OBVIOUS
  <2>5. q \in LsPrefixes
    BY <1>7, <1>9, <2>2, <2>4
  <2> QED
    BY <1>3, <2>3, <2>4, <2>5, PrefixTyped
<1> QED
  BY <1>10, <1>11

LEMMA PrefixConverted ==
    ASSUME NEW d, IsDestination(d), ~Refuses(d), d.attr = "prefix"
    PROVE  /\ ConvertToTEDElem(d) = getLsPrefixList(d.body) /\ d.nlri = "prefix"
           /\ Len(d.body.reach) \in Nat
           /\ d.body.sids \in Seq([algorithm : Nat, sid : Uint]) /\ d.body.sid \in Uint
           /\ \A k \in 1 .. Len(d.body.reach) :
                 LET e == getLsPrefix(d.body.reach[k], d.body)
                 IN  IsElem(e) /\ e.kind = "prefix"
<1> DEFINE b == d.body
<1>1. d.nlri = "prefix" /\ \A k \in 1 .. Len(b.reach) : ~RefusesPrefix(b.reach[k])
  BY DEF Refuses, RefusesByType
<1>2. /\ b.reach \in Seq(PrefixNLRIs) /\ b.sids \in Seq([algorithm : Nat, sid : Uint])
      /\ b.sid \in Uint
  BY <1>1, BodyTypes
<1>3. ConvertToTEDElem(d) = getLsPrefixList(b)
  BY <1>1 DEF ConvertToTEDElem, convertByNlriType
<1> HIDE DEF b
<1>4. \A k \in 1 .. Len(b.reach) : b.reach[k] \in PrefixNLRIs
  BY <1>2, ElementOfSeq
<1>5. ASSUME NEW k \in 1 .. Len(b.reach)
      PROVE  IsElem(getLsPrefix(b.reach[k], b)) /\ getLsPrefix(b.reach[k], b).kind = "prefix"
  BY <1>1, <1>2, <1>4, PrefixElemTyped
<1> QED
  BY <1>1, <1>2, <1>3, <1>5, LenProperties DEF b

Made(d, e) ==
    \/ d.attr = "node" /\ e = getLsNode(d.body)
    \/ d.attr = "link" /\ e = getLsLink(d.body)
    \/ d.attr = "prefix" /\ \E k \in 1 .. Len(d.body.reach) : e = getLsPrefix(d.body.reach[k], d.body)
    \/ d.attr = "srv6SID" /\ \E k \in 1 .. Len(d.body.reach) : e = getLsSrv6SID(d.body.reach[k])

LEMMA MadeTyped ==
    ASSUME NEW d, IsDestination(d), ~Refuses(d), NEW e, Made(d, e)
    PROVE  IsElem(e) /\ e.kind = d.attr /\ d.nlri = d.attr
<1>1. CASE d.attr = "node" /\ e = getLsNode(d.body)
  BY <1>1, NodeConverted
<1>2. CASE d.attr = "link" /\ e = getLsLink(d.body)
  BY <1>2, LinkConverted
<1>3. ASSUME d.attr = "prefix", NEW k \in 1 .. Len(d.body.reach),
             e = getLsPrefix(d.body.reach[k], d.body)
      PROVE  IsElem(e) /\ e.kind = d.attr /\ d.nlri = d.attr
  BY <1>3, PrefixConverted
<1>4. ASSUME d.attr = "srv6SID", NEW k \in 1 .. Len(d.body.reach),
             e = getLsSrv6SID(d.body.reach[k])
      PROVE  IsElem(e) /\ e.kind = d.attr /\ d.nlri = d.attr
  BY <1>4, SRv6Converted
<1> QED
  BY <1>1, <1>2, <1>3, <1>4 DEF Made

LEMMA ElementsMade ==
    ASSUME NEW d, IsDestination(d), ~Refuses(d)
    PROVE  /\ ConvertToTEDElem(d) \in Seq(Range(ConvertToTEDElem(d)))
           /\ \A k \in 1 .. Len(ConvertToTEDElem(d)) : Made(d, ConvertToTEDElem(d)[k])
<1>1. d.attr \in {"none", "node", "link", "prefix", "srv6SID"}
  BY DEF Refuses, RefusesByType
<1>2. PICK b : b = d.body
  OBVIOUS
<1>3. PICK s : s = ConvertToTEDElem(d)
  OBVIOUS
<1>4. s \in Seq(Range(s)) /\ \A k \in 1 .. Len(s) : Made(d, s[k])
  <2>1. CASE d.attr = "none"
    <3>1. s = <<>>
      BY <1>3, <2>1 DEF ConvertToTEDElem
    <3> QED
      BY <3>1
  <2>2. ASSUME NEW e, s = <<e>>, Made(d, e)
        PROVE  s \in Seq(Range(s)) /\ \A k \in 1 .. Len(s) : Made(d, s[k])
    <3>1. Len(s) = 1 /\ s[1] = e /\ s \in Seq({e})
      BY <2>2
    <3>2. s \in Seq(Range(s))
      BY <3>1, RangeOfSeq, SeqOfRange
    <3> QED
      BY <2>2, <3>1, <3>2
  <2>3. CASE d.attr = "node"
    <3>1. s = <<getLsNode(b)>> /\ Made(d, getLsNode(b))
      BY <1>2, <1>3, <2>3, NodeConverted DEF Made
    <3> QED
      BY <2>2, <3>1
  <2>4. CASE d.attr = "link"
    <3>1. s = <<getLsLink(b)>> /\ Made(d, getLsLink(b))
      BY <1>2, <1>3, <2>4, LinkConverted DEF Made
    <3> QED
      BY <2>2, <3>1
  <2>5. CASE d.attr = "prefix"
    <3>1. s = [k \in 1 .. Len(b.reach) |-> getLsPrefix(b.reach[k], b)] /\ Len(b.reach) \in Nat
      BY <1>2, <1>3, <2>5, PrefixConverted DEF getLsPrefixList
    <3>2. PICK n \in Nat : n = Len(b.reach)
      BY <3>1
    <3>4. s = [k \in 1 .. n |-> s[k]]
      BY <3>1, <3>2
    <3>5. s \in Seq(Range(s)) /\ Len(s) = Len(b.reach)
      BY <3>2, <3>4, SequenceByIndex DEF Sequence
    <3>3. \A k \in 1 .. Len(b.reach) : s[k] = getLsPrefix(b.reach[k], b)
      BY <3>1
    <3> QED
      BY <1>2, <2>5, <3>5, <3>3 DEF Made
  <2>6. CASE d.attr = "srv6SID"
    <3>1. s = [k \in 1 .. Len(b.reach) |-> getLsSrv6SID(b.reach[k])] /\ Len(b.reach) \in Nat
      BY <1>2, <1>3, <2>6, SRv6Converted DEF getLsSrv6SIDList
    <3>2. PICK n \in Nat : n = Len(b.reach)
      BY <3>1
    <3>4. s = [k \in 1 .. n |-> s[k]]
      BY <3>1, <3>2
    <3>5. s \in Seq(Range(s)) /\ Len(s) = Len(b.reach)
      BY <3>2, <3>4, SequenceByIndex DEF Sequence
    <3>3. \A k \in 1 .. Len(b.reach) : s[k] = getLsSrv6SID(b.reach[k])
      BY <3>1
    <3> QED
      BY <1>2, <2>6, <3>5, <3>3 DEF Made
  <2> QED
    BY <1>1, <2>1, <2>3, <2>4, <2>5, <2>6
<1> QED
  BY <1>3, <1>4

IsTable(t) == Len(t) \in Nat /\ \A i \in 1 .. Len(t) : IsDestination(t[i])

(* The elements that GetBGPLsNLRIs joins, destination by destination.     *)
Conversions(t) ==
    [i \in 1 .. Len(t) |-> IF Refuses(t[i]) THEN <<>> ELSE ConvertToTEDElem(t[i])]

LEMMA Converted ==
    ASSUME NEW t, IsTable(t), Fetches(t)
    PROVE  \E n \in Nat : \E E, after :
              /\ n = Len(t) /\ Conversions(t) \in [1 .. n -> Seq(E)]
              /\ \A i \in 1 .. n : Conversions(t)[i] = ConvertToTEDElem(t[i])
              /\ GetBGPlsNLRIs(t) \in Seq(E)
              /\ Flattened(Conversions(t), GetBGPlsNLRIs(t), after, n)
<1> DEFINE parts == Conversions(t)
           E == UNION {Range(parts[i]) : i \in 1 .. Len(t)}
           l == GetBGPlsNLRIs(t)
<1>1. PICK n \in Nat : n = Len(t)
  BY DEF IsTable
<1>2. \A i \in 1 .. n : parts[i] = ConvertToTEDElem(t[i])
  BY <1>1 DEF Fetches, Conversions
<1>3. parts = [i \in 1 .. n |-> parts[i]]
  BY <1>1 DEF Conversions
<1>4. l = FlattenSeq(parts)
  BY DEF GetBGPlsNLRIs, Conversions
<1>5. \A i \in 1 .. n : Range(parts[i]) \subseteq E
  BY <1>1
<1> HIDE DEF parts, E, l
<1>6. \A i \in 1 .. n : IsDestination(t[i]) /\ ~Refuses(t[i])
  BY <1>1 DEF IsTable, Fetches
<1>7. ASSUME NEW i \in 1 .. n PROVE parts[i] \in Seq(E)
  <2>1. PICK s : s = parts[i]
    OBVIOUS
  <2>2. s \in Seq(Range(s))
    BY <1>2, <1>6, <2>1, ElementsMade
  <2>3. s \in Seq(E)
    BY <1>5, <2>1, <2>2, SeqMonotonic
  <2> QED
    BY <2>1, <2>3
<1>8. parts \in [1 .. n -> Seq(E)]
  BY <1>3, <1>7
<1>9. l \in Seq(E) /\ \E after : Flattened(parts, l, after, n)
  BY <1>4, <1>8, FlattenedSeq
<1> QED
  BY <1>1, <1>2, <1>8, <1>9, Zenon DEF parts, l

LEMMA NLRIsMade ==
    ASSUME NEW t, IsTable(t), Fetches(t)
    PROVE  LET l == GetBGPlsNLRIs(t)
           IN  /\ Len(l) \in Nat /\ DOMAIN l = 1 .. Len(l)
               /\ \A m \in 1 .. Len(l) : IsElem(l[m]) /\ \E i \in 1 .. Len(t) : Made(t[i], l[m])
<1>1. PICK n \in Nat : \E E, after :
         /\ n = Len(t) /\ Conversions(t) \in [1 .. n -> Seq(E)]
         /\ \A i \in 1 .. n : Conversions(t)[i] = ConvertToTEDElem(t[i])
         /\ GetBGPlsNLRIs(t) \in Seq(E)
         /\ Flattened(Conversions(t), GetBGPlsNLRIs(t), after, n)
  BY Converted, Zenon
<1>2. PICK parts, l : parts = Conversions(t) /\ l = GetBGPlsNLRIs(t)
  OBVIOUS
<1>3. PICK E, after :
         /\ n = Len(t) /\ parts \in [1 .. n -> Seq(E)]
         /\ \A i \in 1 .. n : parts[i] = ConvertToTEDElem(t[i])
         /\ l \in Seq(E) /\ Flattened(parts, l, after, n)
  BY <1>1, <1>2, Zenon
<1>4. Len(l) \in Nat /\ DOMAIN l = 1 .. Len(l)
  BY <1>3, LenProperties
<1>5. ASSUME NEW m \in 1 .. Len(l)
      PROVE  IsElem(l[m]) /\ \E i \in 1 .. n : Made(t[i], l[m])
  <2>1. PlaceIn(parts, l, after, n, m)
    BY <1>3, FlattenedFrom
  <2>2. PICK i \in 1 .. n : \E k \in 1 .. Len(parts[i]) :
           m = after[i - 1] + k /\ l[m] = parts[i][k]
    BY <2>1, Zenon DEF PlaceIn
  <2>3. PICK k \in 1 .. Len(parts[i]) : l[m] = parts[i][k]
    BY <2>2, Zenon
  <2>4. IsDestination(t[i]) /\ ~Refuses(t[i]) /\ parts[i] = ConvertToTEDElem(t[i])
    BY <1>3 DEF IsTable, Fetches
  <2>5. Made(t[i], parts[i][k])
    BY <2>4, ElementsMade
  <2>6. Made(t[i], l[m])
    BY <2>3, <2>5, Zenon
  <2>7. IsElem(l[m])
    BY <2>4, <2>6, MadeTyped
  <2> QED
    BY <2>6, <2>7
<1> QED
  BY <1>2, <1>3, <1>4, <1>5

------------------------------------------------------------------------------
(* The table, the TED and what is announced *)

TableInv ==
    /\ table \in Tables /\ source \in Tables \cup {<<>>} /\ changes \in 0 .. MaxChanges
    /\ Fetches(source)
    /\ listing = GetBGPlsNLRIs(source) /\ applied = Len(listing) /\ ted = BuildTED(listing)

LEMMA SourceIsTable ==
    ASSUME NEW t \in Tables \cup {<<>>}
    PROVE  IsTable(t)
<1>1. CASE t \in Tables
  BY <1>1, TablesAssumption, LenProperties DEF IsTable
<1>2. CASE t = <<>>
  BY <1>2 DEF IsTable
<1> QED
  BY <1>1, <1>2

LEMMA ListingMade ==
    ASSUME TableInv
    PROVE  /\ Len(listing) \in Nat /\ DOMAIN listing = 1 .. Len(listing) /\ IsTable(source)
           /\ \A m \in 1 .. Len(listing) :
                 IsElem(listing[m]) /\ \E i \in 1 .. Len(source) : Made(source[i], listing[m])
<1>1. IsTable(source)
  BY SourceIsTable DEF TableInv
<1> QED
  BY <1>1, NLRIsMade DEF TableInv

LEMMA PublishedIsMerged ==
    ASSUME TableInv
    PROVE  WellFormed(ted) /\ Merged(ted, Len(listing))
BY ListingMade, BuiltIsMerged DEF TableInv

LEMMA SourceElement ==
    ASSUME TableInv, NEW m \in 1 .. Len(listing)
    PROVE  \E i \in 1 .. Len(source) :
              /\ IsDestination(source[i]) /\ ~Refuses(source[i])
              /\ Made(source[i], listing[m])
              /\ source[i].attr = listing[m].kind /\ source[i].nlri = source[i].attr
<1>1. PICK i \in 1 .. Len(source) : Made(source[i], listing[m])
  BY ListingMade
<1>2. IsDestination(source[i]) /\ ~Refuses(source[i])
  BY ListingMade DEF IsTable, TableInv, Fetches
<1> QED
  BY <1>1, <1>2, MadeTyped

(* What the elements of the configured AS say is announced.                *)
LEMMA NodeSource ==
    ASSUME TableInv, NEW m \in Own("node")
    PROVE  \E b \in AnnouncedNodes(source) :
              /\ b.router = listing[m].router
              /\ IF b.hasSR THEN b.ranges = <<[begin |-> listing[m].begin, end |-> listing[m].end]>>
                 ELSE listing[m].begin = 0 /\ listing[m].end = 0
<1>1. m \in 1 .. Len(listing) /\ listing[m].kind = "node" /\ listing[m].asn = ASN
  BY DEF Own, TableInv, Foreign
<1>2. PICK i \in 1 .. Len(source) :
         /\ IsDestination(source[i]) /\ ~Refuses(source[i]) /\ Made(source[i], listing[m])
         /\ source[i].attr = listing[m].kind /\ source[i].nlri = source[i].attr
  BY <1>1, SourceElement
<1>3. PICK b : b = source[i].body
  OBVIOUS
<1>4. listing[m] = getLsNode(b)
  BY <1>1, <1>2, <1>3 DEF Made
<1>5. PICK e : e = listing[m]
  OBVIOUS
<1>6. /\ b.router = e.router /\ b.asn = e.asn
      /\ b.hasSR => b.ranges[1].begin = e.begin /\ b.ranges[1].end = e.end
      /\ ~b.hasSR => e.begin = 0 /\ e.end = 0
  <2>1. CASE b.hasSR
    BY <1>4, <1>5, <2>1 DEF getLsNode, NodeElem
  <2>2. CASE ~b.hasSR
    BY <1>4, <1>5, <2>2 DEF getLsNode, NodeElem
  <2> QED
    BY <2>1, <2>2
<1>7. source[i] \in Announcing(source, "node")
  BY <1>1, <1>2 DEF Announcing
<1>8. b \in AnnouncedNodes(source)
  BY <1>1, <1>3, <1>5, <1>6, <1>7 DEF AnnouncedNodes
<1>9. b.hasSR => b.ranges = <<[begin |-> e.begin, end |-> e.end]>>
  <2> SUFFICES ASSUME b.hasSR PROVE b.ranges = <<[begin |-> e.begin, end |-> e.end]>>
    OBVIOUS
  <2>1. b.ranges \in Seq([begin : Uint, end : Uint]) /\ Len(b.ranges) = 1
    BY <1>1, <1>2, <1>3, BodyTypes, NodeConverted
  <2>2. PICK g : g = b.ranges[1]
    OBVIOUS
  <2>3. g \in [begin : Uint, end : Uint] /\ g.begin = e.begin /\ g.end = e.end
    <3>1. PICK R : R = [begin : Uint, end : Uint]
      OBVIOUS
    <3>2. b.ranges \in Seq(R) /\ 1 \in 1 .. Len(b.ranges)
      BY <2>1, <3>1
    <3>3. g \in R
      BY <2>2, <3>2, ElementOfSeq
    <3> QED
      BY <1>6, <2>2, <3>1, <3>3
  <2>4. g = [begin |-> e.begin, end |-> e.end]
    BY <2>3
  <2>5. b.ranges = <<g>>
    <3>1. b.ranges \in [1 .. 1 -> [begin : Uint, end : Uint]]
      BY <2>1, LenProperties
    <3>2. b.ranges = [k \in 1 .. 1 |-> b.ranges[k]] /\ \A k \in 1 .. 1 : b.ranges[k] = g
      BY <2>2, <3>1
    <3> QED
      BY <3>2
  <2> QED
    BY <2>4, <2>5
<1> QED
  BY <1>5, <1>6, <1>8, <1>9

LEMMA LinkSource ==
    ASSUME TableInv, NEW m \in Own("link")
    PROVE  \E i \in AnnouncedLinks(source) :
              /\ listing[m] = getLsLink(source[i].body)
              /\ source[i].body.router = listing[m].router
              /\ source[i].body.remote = listing[m].remote
              /\ source[i].body.adjSID = listing[m].link.adjSID
              /\ source[i].body.endX = listing[m].link.endX
<1>1. /\ m \in 1 .. Len(listing) /\ listing[m].kind = "link" /\ listing[m].asn = ASN
      /\ listing[m].remoteASN = ASN
  BY DEF Own, TableInv, Foreign
<1>2. PICK i \in 1 .. Len(source) :
         /\ IsDestination(source[i]) /\ ~Refuses(source[i]) /\ Made(source[i], listing[m])
         /\ source[i].attr = listing[m].kind /\ source[i].nlri = source[i].attr
  BY <1>1, SourceElement
<1>3. PICK b : b = source[i].body
  OBVIOUS
<1>4. listing[m] = getLsLink(b)
  BY <1>1, <1>2, <1>3 DEF Made
<1>5. PICK e : e = listing[m]
  OBVIOUS
<1>6. /\ b.asn = e.asn /\ b.remoteASN = e.remoteASN /\ b.router = e.router /\ b.remote = e.remote
      /\ b.adjSID = e.link.adjSID /\ b.endX = e.link.endX
  BY <1>4, <1>5 DEF getLsLink, LinkElem, Link
<1>7. i \in AnnouncedLinks(source)
  BY <1>1, <1>2, <1>3, <1>5, <1>6 DEF AnnouncedLinks
<1> QED
  BY <1>3, <1>4, <1>5, <1>6, <1>7

LEMMA ReachedFrom ==
    ASSUME NEW t, NEW kind, NEW i \in 1 .. Len(t), t[i].nlri = kind, t[i].attr = kind,
           NEW k \in 1 .. Len(t[i].body.reach), t[i].body.reach[k].asn = ASN
    PROVE  [body |-> t[i].body, nlri |-> t[i].body.reach[k]] \in Reached(t, kind)
<1>1. PICK d : d = t[i]
  OBVIOUS
<1>2. d \in Announcing(t, kind)
  BY <1>1 DEF Announcing
<1> DEFINE of(x) == {[body |-> x.body, nlri |-> x.body.reach[j]] :
                        j \in {h \in 1 .. Len(x.body.reach) : x.body.reach[h].asn = ASN}}
<1>3. Reached(t, kind) = UNION {of(x) : x \in Announcing(t, kind)}
  BY DEF Reached
<1>4. [body |-> d.body, nlri |-> d.body.reach[k]] \in of(d)
  BY <1>1
<1> HIDE DEF of
<1>5. [body |-> d.body, nlri |-> d.body.reach[k]] \in Reached(t, kind)
  BY <1>2, <1>3, <1>4
<1> QED
  BY <1>1, <1>5

LEMMA PrefixSource ==
    ASSUME TableInv, NEW m \in Own("prefix")
    PROVE  \E x \in Reached(source, "prefix") :
              /\ x.nlri.router = listing[m].router
              /\ x.nlri.prefixes[1].prefix = listing[m].prefix.prefix
              /\ x.nlri.prefixes[1].host = listing[m].prefix.host
              /\ IF listing[m].prefix.hasSID THEN AnnouncesIndex(x, listing[m].prefix.index)
                 ELSE AnnouncesNoIndex(x)
<1>1. m \in 1 .. Len(listing) /\ listing[m].kind = "prefix" /\ listing[m].asn = ASN
  BY DEF Own, TableInv, Foreign
<1>2. PICK i \in 1 .. Len(source) :
         /\ IsDestination(source[i]) /\ ~Refuses(source[i]) /\ Made(source[i], listing[m])
         /\ source[i].attr = listing[m].kind /\ source[i].nlri = source[i].attr
  BY <1>1, SourceElement
<1>3. PICK b : b = source[i].body
  OBVIOUS
<1>4. PICK k \in 1 .. Len(b.reach) : listing[m] = getLsPrefix(b.reach[k], b)
  BY <1>1, <1>2, <1>3 DEF Made
<1>5. PICK e, n : e = listing[m] /\ n = b.reach[k]
  OBVIOUS
<1>6. b.sids \in Seq([algorithm : Nat, sid : Uint]) /\ b.sid \in Uint
  BY <1>1, <1>2, <1>3, PrefixConverted
<1>7. PICK p : p = n.prefixes[1]
  OBVIOUS
<1>8. /\ e.router = n.router /\ e.asn = n.asn
      /\ e.prefix.prefix = p.prefix /\ e.prefix.host = p.host
      /\ IF e.prefix.hasSID THEN e.prefix.index \in algo0PrefixSID(b) ELSE algo0PrefixSID(b) = {}
  <2>1. CASE algo0PrefixSID(b) = {}
    <3>1. e = PrefixElem(n.router, n.asn, LsPrefix(p.prefix, p.host, FALSE, 0))
      BY <1>4, <1>5, <1>7, <2>1 DEF getLsPrefix
    <3> QED
      BY <2>1, <3>1 DEF PrefixElem, LsPrefix
  <2>2. CASE algo0PrefixSID(b) # {}
    <3>1. PICK j : j = CHOOSE h \in algo0PrefixSID(b) : TRUE
      OBVIOUS
    <3>2. e = PrefixElem(n.router, n.asn, LsPrefix(p.prefix, p.host, TRUE, j))
      BY <1>4, <1>5, <1>7, <2>2, <3>1 DEF getLsPrefix
    <3>3. j \in algo0PrefixSID(b)
      BY <2>2, <3>1
    <3> QED
      BY <3>2, <3>3 DEF PrefixElem, LsPrefix
  <2> QED
    BY <2>1, <2>2
<1>9. PICK x : x = [body |-> b, nlri |-> n]
  OBVIOUS
<1>10. x.body = b /\ x.nlri = n
  BY <1>9
<1>11. x \in Reached(source, "prefix")
  BY <1>1, <1>2, <1>3, <1>5, <1>8, <1>9, ReachedFrom
<1>12. e.prefix.hasSID => AnnouncesIndex(x, e.prefix.index)
  BY <1>6, <1>8, <1>10, PrefixSIDAnnounced
<1>13. ~e.prefix.hasSID => AnnouncesNoIndex(x)
  BY <1>8, <1>10, NoSIDAnnounced
<1> QED
  BY <1>5, <1>7, <1>8, <1>10, <1>11, <1>12, <1>13

LEMMA SIDSource ==
    ASSUME TableInv, NEW m \in Own("srv6SID")
    PROVE  \E x \in Reached(source, "srv6SID") :
              x.nlri.router = listing[m].router /\ x.nlri.sids = listing[m].sids
<1>1. m \in 1 .. Len(listing) /\ listing[m].kind = "srv6SID" /\ listing[m].asn = ASN
  BY DEF Own, TableInv, Foreign
<1>2. PICK i \in 1 .. Len(source) :
         /\ IsDestination(source[i]) /\ ~Refuses(source[i]) /\ Made(source[i], listing[m])
         /\ source[i].attr = listing[m].kind /\ source[i].nlri = source[i].attr
  BY <1>1, SourceElement
<1>3. PICK b : b = source[i].body
  OBVIOUS
<1>4. PICK k \in 1 .. Len(b.reach) : listing[m] = getLsSrv6SID(b.reach[k])
  BY <1>1, <1>2, <1>3 DEF Made
<1>5. PICK e, n : e = listing[m] /\ n = b.reach[k]
  OBVIOUS
<1>6. e.asn = n.asn /\ e.router = n.router /\ e.sids = n.sids
  BY <1>4, <1>5 DEF getLsSrv6SID, SRv6Elem
<1>7. PICK x : x = [body |-> b, nlri |-> n]
  OBVIOUS
<1>8. x.nlri = n /\ x \in Reached(source, "srv6SID")
  BY <1>1, <1>2, <1>3, <1>5, <1>6, <1>7, ReachedFrom
<1> QED
  BY <1>5, <1>6, <1>8

(* What a published node holds is announced.                               *)
LEMMA NodeHolds ==
    ASSUME TableInv, NEW r \in Routers
    PROVE  /\ Node(r) \in LsNodes /\ Node(r).router = r
           /\ NodeIsMerge(NamesIn(ted.heap), Node(r), Len(listing))
<1>1. WellFormed(ted) /\ Merged(ted, Len(listing))
  BY PublishedIsMerged
<1>2. ted.nodes[r] \in 1 .. Len(ted.heap) /\ ted.heap[ted.nodes[r]].router = r
  BY <1>1 DEF WellFormed, Routers
<1>3. ted.heap[ted.nodes[r]] \in LsNodes
  BY <1>1, <1>2, ElementOfSeq DEF WellFormed
<1> QED
  BY <1>1, <1>2, <1>3 DEF Node, Merged, Contents

LEMMA OfIsOwn ==
    ASSUME TableInv, NEW kind, NEW r, NEW m \in Of(Len(listing), kind, r)
    PROVE  m \in Own(kind) /\ listing[m].router = r
BY DEF Of, Mine, Own, TableInv

LEMMA RangeAnnounced ==
    ASSUME TableInv, NEW r \in Routers, Node(r).begin # 0
    PROVE  \E g \in SRGBs(source, r) : g.begin = Node(r).begin /\ g.end = Node(r).end
<1> DEFINE I == Of(Len(listing), "node", r)
<1>1. PICK n : n = Node(r)
  OBVIOUS
<1>2. RangeFrom(n, I) /\ n.begin # 0
  BY <1>1, NodeHolds DEF NodeIsMerge
<1> HIDE DEF I
<1>3. PICK m \in I : n.begin = listing[m].begin /\ n.end = listing[m].end
  BY <1>2 DEF RangeFrom
<1>4. m \in Own("node") /\ listing[m].router = r
  BY OfIsOwn DEF I
<1>5. PICK b \in AnnouncedNodes(source) :
         /\ b.router = r
         /\ IF b.hasSR THEN b.ranges = <<[begin |-> listing[m].begin, end |-> listing[m].end]>>
            ELSE listing[m].begin = 0 /\ listing[m].end = 0
  BY <1>4, NodeSource
<1>6. b.hasSR /\ b.ranges[1].begin = n.begin /\ b.ranges[1].end = n.end
  <2>1. b.hasSR /\ b.ranges = <<[begin |-> n.begin, end |-> n.end]>>
    BY <1>2, <1>3, <1>5
  <2> QED
    BY <2>1
<1>7. b.ranges[1] \in SRGBs(source, r)
  BY <1>5, <1>6 DEF SRGBs
<1> QED
  BY <1>1, <1>6, <1>7

LEMMA PrefixAnnounced ==
    ASSUME TableInv, NEW r \in Routers, NEW p \in Range(Node(r).prefixes)
    PROVE  \E x \in Reached(source, "prefix") :
              /\ x.nlri.router = r
              /\ x.nlri.prefixes[1].prefix = p.prefix /\ x.nlri.prefixes[1].host = p.host
              /\ IF p.hasSID THEN AnnouncesIndex(x, p.index) ELSE AnnouncesNoIndex(x)
<1> DEFINE I == Of(Len(listing), "prefix", r)
<1>1. Range(Node(r).prefixes) \subseteq {listing[i].prefix : i \in I}
  BY NodeHolds DEF NodeIsMerge, PrefixesFrom
<1> HIDE DEF I
<1>2. PICK m \in I : p = listing[m].prefix
  BY <1>1
<1>3. m \in Own("prefix") /\ listing[m].router = r
  BY OfIsOwn DEF I
<1> QED
  BY <1>2, <1>3, PrefixSource

LEMMA LinkAnnounced ==
    ASSUME TableInv, NEW r \in Routers, NEW l \in Range(Node(r).links)
    PROVE  \E i \in AnnouncedLinks(source) :
              source[i].body.adjSID = l.adjSID /\ source[i].body.endX = l.endX
<1> DEFINE I == Of(Len(listing), "link", r)
           names == NamesIn(ted.heap)
           said(i) == <<listing[i].remote, listing[i].link.metrics, listing[i].link.adjSID,
                        listing[i].link.endX>>
<1>1. {<<names[k.remote], k.metrics, k.adjSID, k.endX>> : k \in Range(Node(r).links)} =
         {said(i) : i \in I}
  BY NodeHolds DEF NodeIsMerge, LinksFrom
<1> HIDE DEF I, names
<1>2. <<names[l.remote], l.metrics, l.adjSID, l.endX>> \in {said(i) : i \in I}
  BY <1>1
<1>3. PICK m \in I : <<names[l.remote], l.metrics, l.adjSID, l.endX>> = said(m)
  BY <1>2
<1>4. l.adjSID = listing[m].link.adjSID /\ l.endX = listing[m].link.endX
  BY <1>3
<1>5. m \in Own("link")
  BY OfIsOwn DEF I
<1> QED
  BY <1>4, <1>5, LinkSource

LEMMA SIDsAnnounced ==
    ASSUME TableInv, NEW r \in Routers, NEW sids \in Range(Node(r).srv6)
    PROVE  \E x \in Reached(source, "srv6SID") : x.nlri.sids = sids
<1> DEFINE I == Of(Len(listing), "srv6SID", r)
<1>1. Range(Node(r).srv6) = {listing[i].sids : i \in I}
  BY NodeHolds DEF NodeIsMerge, SIDsFrom
<1> HIDE DEF I
<1>2. PICK m \in I : sids = listing[m].sids
  BY <1>1
<1>3. m \in Own("srv6SID")
  BY OfIsOwn DEF I
<1> QED
  BY <1>2, <1>3, SIDSource

(* An SRv6 SID or a label that the index knows is announced.               *)
LEMMA SRv6Announced ==
    ASSUME TableInv, NEW r \in Routers, NEW sid \in SRv6SIDs(Node(r))
    PROVE  sid \in AnnouncedSRv6(source)
<1>1. CASE sid \in UNION {Range(sids) : sids \in Range(Node(r).srv6)}
  <2>1. PICK sids \in Range(Node(r).srv6) : sid \in Range(sids)
    BY <1>1
  <2>2. PICK x \in Reached(source, "srv6SID") : x.nlri.sids = sids
    BY SIDsAnnounced
  <2> QED
    BY <2>1, <2>2 DEF AnnouncedSRv6
<1>2. CASE sid \in UNION {l.endX : l \in Range(Node(r).links)}
  <2>1. PICK l \in Range(Node(r).links) : sid \in l.endX
    BY <1>2
  <2>2. PICK i \in AnnouncedLinks(source) : source[i].body.endX = l.endX
    BY LinkAnnounced
  <2>3. sid \in source[i].body.endX
    BY <2>1, <2>2
  <2>4. sid \in UNION {source[j].body.endX : j \in AnnouncedLinks(source)}
    BY <2>3
  <2> QED
    BY <2>4, Zenon DEF AnnouncedSRv6
<1>3. SRv6SIDs(Node(r)) = (UNION {Range(sids) : sids \in Range(Node(r).srv6)})
                            \cup (UNION {l.endX : l \in Range(Node(r).links)})
  BY Zenon DEF SRv6SIDs
<1> QED
  BY <1>1, <1>2, <1>3, Zenon

LEMMA LabelAnnounced ==
    ASSUME TableInv, NEW r \in Routers, NEW label \in MPLSSIDs(Node(r))
    PROVE  AnnouncesLabel(source, label)
<1>1. PICK n : n = Node(r)
  OBVIOUS
<1>2. n \in LsNodes
  BY <1>1, NodeHolds
<1>3. n.begin \in Nat /\ n.end \in Nat /\ n.prefixes \in Seq(LsPrefixes)
  BY <1>2, TEDAssumption DEF LsNodes, Uint
<1>4. ASSUME NEW p \in Range(n.prefixes), p.hasSID, HasLabel(n, p.index), label = n.begin + p.index
      PROVE  AnnouncesLabel(source, label)
  <2>1. p \in LsPrefixes
    BY <1>3, RangeOfSeq
  <2>2. p.index \in Nat
    BY <2>1, TEDAssumption DEF LsPrefixes, Uint
  <2>3. /\ n.begin # 0 /\ n.begin + p.index <= MPLSLabelMax
        /\ n.end > n.begin => n.begin + p.index < n.end
    BY <1>4 DEF HasLabel
  <2>4. PICK g \in SRGBs(source, r) : g.begin = n.begin /\ g.end = n.end
    BY <1>1, <2>3, RangeAnnounced
  <2>5. PICK x \in Reached(source, "prefix") :
           x.nlri.router = r /\ (p.hasSID => AnnouncesIndex(x, p.index))
    BY <1>1, <1>4, PrefixAnnounced
  <2>6. label - g.begin = p.index /\ label >= g.begin
    BY <1>3, <1>4, <2>2, <2>4
  <2>7. AnnouncesIndex(x, label - g.begin)
    BY <1>4, <2>5, <2>6
  <2>8. /\ g.begin # 0 /\ label >= g.begin /\ label <= MPLSLabelMax
        /\ g.end > g.begin => label < g.end
    BY <1>4, <2>3, <2>4, <2>6
  <2> QED
    BY <2>4, <2>5, <2>7, <2>8, Zenon DEF AnnouncesLabel
<1>5. ASSUME NEW l \in Range(n.links), label = l.adjSID, label # 0
      PROVE  AnnouncesLabel(source, label)
  <2>1. PICK i \in AnnouncedLinks(source) : source[i].body.adjSID = l.adjSID
    BY <1>1, LinkAnnounced
  <2> QED
    BY <1>5, <2>1, Zenon DEF AnnouncesLabel
<1> QED
  BY <1>1, <1>4, <1>5 DEF MPLSSIDs

LEMMA SegmentAnnounced ==
    ASSUME TableInv, NEW s \in Segments, HasSegment(s)
    PROVE  Announces(source, s)
<1>1. CASE Has(s)
  <2>1. PICK r \in Routers :
           \/ s.family = "mpls" /\ s.sid \in MPLSSIDs(Node(r))
           \/ s.family = "srv6" /\ s.sid \in SRv6SIDs(Node(r))
    BY <1>1 DEF Has
  <2> QED
    BY <2>1, SRv6Announced, LabelAnnounced DEF Announces
<1>2. CASE s.family = "srv6" /\ usidMode /\ HasLocator(s)
  <2>1. PICK l \in SRv6Locators : <<s.sid, l.prefix>> \in Under /\ (s.declared > 0 => l.bits <= s.declared)
    BY <1>2 DEF HasLocator
  <2>2. PICK sid \in (UNION {SRv6SIDs(Node(r)) : r \in Routers}) \cap DOMAIN Locators :
           l = Locators[sid]
    BY DEF SRv6Locators
  <2>3. PICK r \in Routers : sid \in SRv6SIDs(Node(r))
    <3>1. sid \in UNION {SRv6SIDs(Node(r)) : r \in Routers}
      BY <2>2, Zenon
    <3> QED
      BY <3>1, Zenon
  <2>4. sid \in AnnouncedSRv6(source) \cap DOMAIN Locators
    <3>1. sid \in AnnouncedSRv6(source)
      BY <2>3, SRv6Announced
    <3> QED
      BY <2>2, <3>1, Zenon
  <2>5. Locators[sid].bits \in Nat
    BY <2>4, RequestsAssumption
  <2>6. s.declared \in Nat
    <3>1. s \in [family : {"mpls"}, sid : Nat] \cup {NotASID}
                \cup [family : {"srv6"}, sid : STRING, declared : Nat]
      BY RequestsAssumption
    <3> QED
      BY <1>2, <3>1 DEF NotASID
  <2>7. s.declared = 0 \/ s.declared >= Locators[sid].bits
    BY <2>1, <2>2, <2>5, <2>6
  <2> QED
    BY <1>2, <2>1, <2>2, <2>4, <2>7 DEF Announces
<1> QED
  BY <1>1, <1>2 DEF HasSegment

LEMMA LoopbackAnnounced ==
    ASSUME TableInv, NEW r \in Routers, HostPrefixes(r) # {}
    PROVE  AnnouncesHost(source, r, LoopbackAddr(r))
<1> DEFINE all == Node(r).prefixes
           H == HostPrefixes(r)
<1>1. all \in Seq(LsPrefixes)
  BY NodeHolds DEF LsNodes
<1>2. H \in SUBSET (1 .. Len(all))
  BY DEF HostPrefixes
<1>3. Min(H) \in H
  BY <1>1, <1>2, FirstOf
<1>4. LoopbackAddr(r) = all[Min(H)].prefix /\ all[Min(H)].host
  BY <1>3 DEF LoopbackAddr, HostPrefixes
<1>5. all[Min(H)] \in Range(all)
  <2>1. Min(H) \in DOMAIN all
    BY <1>1, <1>2, <1>3
  <2> QED
    BY <2>1, Zenon DEF Range
<1>6. PICK x \in Reached(source, "prefix") :
         /\ x.nlri.router = r
         /\ x.nlri.prefixes[1].prefix = all[Min(H)].prefix
         /\ x.nlri.prefixes[1].host = all[Min(H)].host
  BY <1>5, PrefixAnnounced
<1> QED
  BY <1>4, <1>6 DEF AnnouncesHost

------------------------------------------------------------------------------
(* What a client of GetTED shows is what the table announces.  The SMT     *)
(* backend cannot print the empty string: where "" is in sight, Zenon      *)
(* takes the leaf.                                                         *)

(* Where the listing has the elements of each destination.                 *)
Places(after) ==
    /\ after \in [0 .. Len(source) -> Nat]
    /\ \A i \in 1 .. Len(source) : \A k \in 1 .. Len(ConvertToTEDElem(source[i])) :
          /\ after[i - 1] + k \in 1 .. Len(listing)
          /\ listing[after[i - 1] + k] = ConvertToTEDElem(source[i])[k]
    /\ \A m \in 1 .. Len(listing) : \E i \in 1 .. Len(source) :
          \E k \in 1 .. Len(ConvertToTEDElem(source[i])) : m = after[i - 1] + k
    /\ \A i, j \in 1 .. Len(source) :
          i < j => after[i - 1] + Len(ConvertToTEDElem(source[i])) <= after[j - 1]

LEMMA SourcePlaced ==
    ASSUME TableInv
    PROVE  \E after : Places(after)
<1>1. IsTable(source) /\ Fetches(source) /\ listing = GetBGPlsNLRIs(source)
  BY SourceIsTable DEF TableInv
<1>2. PICK n \in Nat : \E E, after :
         /\ n = Len(source) /\ Conversions(source) \in [1 .. n -> Seq(E)]
         /\ \A i \in 1 .. n : Conversions(source)[i] = ConvertToTEDElem(source[i])
         /\ listing \in Seq(E)
         /\ Flattened(Conversions(source), listing, after, n)
  BY <1>1, Converted
<1>3. PICK parts : parts = Conversions(source)
  OBVIOUS
<1>4. PICK E, after :
         /\ n = Len(source) /\ parts \in [1 .. n -> Seq(E)]
         /\ \A i \in 1 .. n : parts[i] = ConvertToTEDElem(source[i])
         /\ listing \in Seq(E) /\ Flattened(parts, listing, after, n)
  BY <1>2, <1>3, Zenon
<1>5. after \in [0 .. n -> Nat] /\ after[0] = 0 /\ Len(listing) = after[n]
  BY <1>4 DEF Flattened
<1>6. \A i \in 1 .. n : Len(parts[i]) \in Nat
  BY <1>4, LenProperties
<1>7. ASSUME NEW i \in 1 .. n
      PROVE  /\ after[i] = after[i - 1] + Len(parts[i]) /\ after[i] <= after[n]
             /\ \A k \in 1 .. Len(parts[i]) : listing[after[i - 1] + k] = parts[i][k]
  BY <1>4 DEF Flattened
<1>8. ASSUME NEW i \in 1 .. n, NEW k \in 1 .. Len(parts[i])
      PROVE  after[i - 1] + k \in 1 .. Len(listing) /\ listing[after[i - 1] + k] = parts[i][k]
  <2>1. after[i - 1] \in Nat /\ after[i] \in Nat /\ after[n] \in Nat /\ Len(parts[i]) \in Nat
    BY <1>5, <1>6
  <2>2. after[i] = after[i - 1] + Len(parts[i]) /\ after[i] <= after[n]
    BY <1>7
  <2>3. after[i - 1] + k \in 1 .. Len(listing)
    BY <1>5, <2>1, <2>2
  <2>4. listing[after[i - 1] + k] = parts[i][k]
    BY <1>7
  <2> QED
    BY <2>3, <2>4
<1>9. ASSUME NEW m \in 1 .. Len(listing)
      PROVE  \E i \in 1 .. n : \E k \in 1 .. Len(parts[i]) : m = after[i - 1] + k
  <2>1. PlaceIn(parts, listing, after, n, m)
    BY <1>4, FlattenedFrom
  <2> QED
    BY <2>1, Zenon DEF PlaceIn
<1>10. ASSUME NEW i \in 1 .. n, NEW j \in 1 .. n, i < j
       PROVE  after[i - 1] + Len(parts[i]) <= after[j - 1]
  <2>1. i \in 0 .. n /\ j - 1 \in 0 .. n /\ i <= j - 1
    BY <1>10
  <2>2. after[i] <= after[j - 1]
    BY <1>4, <1>6, <2>1, SumsGrow
  <2> QED
    BY <1>7, <2>2
<1>11. Places(after)
  <2>1. \A i \in 1 .. Len(source) : i \in 1 .. n /\ ConvertToTEDElem(source[i]) = parts[i]
    BY <1>4
  <2>2. \A i \in 1 .. Len(source) : \A k \in 1 .. Len(ConvertToTEDElem(source[i])) :
           /\ after[i - 1] + k \in 1 .. Len(listing)
           /\ listing[after[i - 1] + k] = ConvertToTEDElem(source[i])[k]
    BY <1>8, <2>1
  <2>3. \A m \in 1 .. Len(listing) : \E i \in 1 .. Len(source) :
           \E k \in 1 .. Len(ConvertToTEDElem(source[i])) : m = after[i - 1] + k
    <3> TAKE m \in 1 .. Len(listing)
    <3>1. PICK i \in 1 .. n : \E k \in 1 .. Len(parts[i]) : m = after[i - 1] + k
      BY <1>9
    <3>2. i \in 1 .. Len(source) /\ ConvertToTEDElem(source[i]) = parts[i]
      BY <1>4
    <3> QED
      BY <3>1, <3>2, Zenon
  <2>4. \A i, j \in 1 .. Len(source) :
           i < j => after[i - 1] + Len(ConvertToTEDElem(source[i])) <= after[j - 1]
    BY <1>10, <2>1
  <2>5. after \in [0 .. Len(source) -> Nat]
    BY <1>4, <1>5
  <2> QED
    BY <2>2, <2>3, <2>4, <2>5, Zenon DEF Places
<1> QED
  BY <1>11

LEMMA SourceConverts ==
    ASSUME TableInv, NEW i \in 1 .. Len(source)
    PROVE  /\ IsDestination(source[i]) /\ ~Refuses(source[i])
           /\ \A k \in 1 .. Len(ConvertToTEDElem(source[i])) :
                 \E m \in 1 .. Len(listing) : listing[m] = ConvertToTEDElem(source[i])[k]
<1>1. IsTable(source) /\ Fetches(source)
  BY SourceIsTable DEF TableInv
<1>2. PICK after : Places(after)
  BY SourcePlaced
<1>3. PICK s : s = ConvertToTEDElem(source[i])
  OBVIOUS
<1>4. \A k \in 1 .. Len(s) :
         after[i - 1] + k \in 1 .. Len(listing) /\ listing[after[i - 1] + k] = s[k]
  BY <1>2, <1>3 DEF Places
<1> QED
  BY <1>1, <1>3, <1>4 DEF IsTable, Fetches

LEMMA Counts ==
    ASSUME TableInv, NEW m \in 1 .. Len(listing), NEW kind, listing[m].kind = kind,
           listing[m].asn = ASN, kind = "link" => listing[m].remoteASN = ASN
    PROVE  m \in Of(Len(listing), kind, listing[m].router)
BY DEF Of, Mine, Foreign

(* What is announced is listed.                                            *)
LEMMA NodeListed ==
    ASSUME TableInv, NEW b \in AnnouncedNodes(source)
    PROVE  \E m \in Of(Len(listing), "node", b.router) : listing[m] = getLsNode(b)
<1>1. PICK i \in 1 .. Len(source) :
         source[i].nlri = "node" /\ source[i].attr = "node" /\ source[i].body = b /\ b.asn = ASN
  BY DEF AnnouncedNodes, Announcing
<1>2. PICK s : s = ConvertToTEDElem(source[i])
  OBVIOUS
<1>3. s = <<getLsNode(b)>>
  BY <1>1, <1>2, SourceConverts, NodeConverted
<1>4. Len(s) = 1 /\ s[1] = getLsNode(b)
  BY <1>3
<1>5. PICK m \in 1 .. Len(listing) : listing[m] = getLsNode(b)
  BY <1>2, <1>4, SourceConverts
<1>6. PICK e : e = listing[m]
  OBVIOUS
<1>7. e.kind = "node" /\ e.router = b.router /\ e.asn = b.asn
  <2>1. CASE b.hasSR
    BY <1>5, <1>6, <2>1 DEF getLsNode, NodeElem
  <2>2. CASE ~b.hasSR
    BY <1>5, <1>6, <2>2 DEF getLsNode, NodeElem
  <2> QED
    BY <2>1, <2>2
<1>8. m \in Of(Len(listing), "node", b.router)
  BY <1>1, <1>6, <1>7, Counts
<1> QED
  BY <1>5, <1>8

LEMMA ReachedAt ==
    ASSUME NEW t, NEW kind, NEW x \in Reached(t, kind)
    PROVE  \E i \in 1 .. Len(t) : \E k \in 1 .. Len(t[i].body.reach) :
              /\ t[i].nlri = kind /\ t[i].attr = kind /\ x.body = t[i].body
              /\ x.nlri = t[i].body.reach[k] /\ x.nlri.asn = ASN
<1> DEFINE of(d) == {[body |-> d.body, nlri |-> d.body.reach[j]] :
                        j \in {h \in 1 .. Len(d.body.reach) : d.body.reach[h].asn = ASN}}
<1>1. Reached(t, kind) = UNION {of(d) : d \in Announcing(t, kind)}
  BY DEF Reached
<1> HIDE DEF of
<1>2. PICK d \in Announcing(t, kind) : x \in of(d)
  BY <1>1
<1>3. PICK k \in 1 .. Len(d.body.reach) :
         x = [body |-> d.body, nlri |-> d.body.reach[k]] /\ d.body.reach[k].asn = ASN
  BY <1>2 DEF of
<1>4. PICK i \in 1 .. Len(t) : t[i] = d /\ t[i].nlri = kind /\ t[i].attr = kind
  BY DEF Announcing
<1>5. x.body = d.body /\ x.nlri = d.body.reach[k]
  BY <1>3
<1> QED
  BY <1>3, <1>4, <1>5

LEMMA PrefixListed ==
    ASSUME TableInv, NEW x \in Reached(source, "prefix")
    PROVE  \E m \in Of(Len(listing), "prefix", x.nlri.router) :
              listing[m].prefix.prefix = x.nlri.prefixes[1].prefix
<1>1. PICK i \in 1 .. Len(source) : \E k \in 1 .. Len(source[i].body.reach) :
         /\ source[i].nlri = "prefix" /\ source[i].attr = "prefix" /\ x.body = source[i].body
         /\ x.nlri = source[i].body.reach[k] /\ x.nlri.asn = ASN
  BY ReachedAt
<1>2. PICK b : b = source[i].body
  OBVIOUS
<1>3. PICK k \in 1 .. Len(b.reach) : x.nlri = b.reach[k] /\ x.nlri.asn = ASN
  BY <1>1, <1>2
<1>4. PICK s, n, p : s = ConvertToTEDElem(source[i]) /\ n = x.nlri /\ p = n.prefixes[1]
  OBVIOUS
<1>5. s = getLsPrefixList(b) /\ Len(b.reach) \in Nat
  BY <1>1, <1>2, <1>4, SourceConverts, PrefixConverted
<1>6. PICK len \in Nat : len = Len(b.reach)
  BY <1>5
<1>7. s = [j \in 1 .. len |-> getLsPrefix(b.reach[j], b)]
  BY <1>5, <1>6 DEF getLsPrefixList
<1>8. s = [j \in 1 .. len |-> s[j]] /\ s[k] = getLsPrefix(n, b)
  BY <1>3, <1>4, <1>6, <1>7
<1>9. Len(s) = len
  BY <1>8, SequenceByIndex
<1>10. PICK m \in 1 .. Len(listing) : listing[m] = s[k]
  BY <1>3, <1>4, <1>6, <1>9, SourceConverts
<1>11. PICK e : e = listing[m]
  OBVIOUS
<1>12. /\ e.kind = "prefix" /\ e.router = n.router /\ e.asn = n.asn
       /\ e.prefix.prefix = p.prefix
  <2>1. \A h, j : LET y == PrefixElem(n.router, n.asn, LsPrefix(p.prefix, p.host, h, j))
                  IN  /\ y.kind = "prefix" /\ y.router = n.router /\ y.asn = n.asn
                      /\ y.prefix.prefix = p.prefix
    BY DEF PrefixElem, LsPrefix
  <2>2. \E h, j : e = PrefixElem(n.router, n.asn, LsPrefix(p.prefix, p.host, h, j))
    BY <1>4, <1>8, <1>10, <1>11, Zenon DEF getLsPrefix
  <2> QED
    BY <2>1, <2>2
<1>13. m \in Of(Len(listing), "prefix", n.router)
  BY <1>3, <1>4, <1>11, <1>12, Counts
<1> QED
  BY <1>4, <1>11, <1>12, <1>13

LEMMA SIDListed ==
    ASSUME TableInv, NEW x \in Reached(source, "srv6SID")
    PROVE  \E m \in Of(Len(listing), "srv6SID", x.nlri.router) : listing[m].sids = x.nlri.sids
<1>1. PICK i \in 1 .. Len(source) : \E k \in 1 .. Len(source[i].body.reach) :
         /\ source[i].nlri = "srv6SID" /\ source[i].attr = "srv6SID"
         /\ x.nlri = source[i].body.reach[k] /\ x.nlri.asn = ASN
  BY ReachedAt
<1>2. PICK b : b = source[i].body
  OBVIOUS
<1>3. PICK k \in 1 .. Len(b.reach) : x.nlri = b.reach[k] /\ x.nlri.asn = ASN
  BY <1>1, <1>2
<1>4. PICK s, n : s = ConvertToTEDElem(source[i]) /\ n = x.nlri
  OBVIOUS
<1>5. s = getLsSrv6SIDList(b) /\ Len(b.reach) \in Nat
  BY <1>1, <1>2, <1>4, SourceConverts, SRv6Converted
<1>6. PICK len \in Nat : len = Len(b.reach)
  BY <1>5
<1>7. s = [j \in 1 .. len |-> getLsSrv6SID(b.reach[j])]
  BY <1>5, <1>6 DEF getLsSrv6SIDList
<1>8. s = [j \in 1 .. len |-> s[j]] /\ s[k] = getLsSrv6SID(n)
  BY <1>3, <1>4, <1>6, <1>7
<1>9. Len(s) = len
  BY <1>8, SequenceByIndex
<1>10. PICK m \in 1 .. Len(listing) : listing[m] = s[k]
  BY <1>3, <1>4, <1>6, <1>9, SourceConverts
<1>11. PICK e : e = listing[m]
  OBVIOUS
<1>12. e.kind = "srv6SID" /\ e.router = n.router /\ e.asn = n.asn /\ e.sids = n.sids
  BY <1>8, <1>10, <1>11 DEF getLsSrv6SID, SRv6Elem
<1>13. m \in Of(Len(listing), "srv6SID", n.router)
  BY <1>3, <1>4, <1>11, <1>12, Counts
<1> QED
  BY <1>4, <1>11, <1>12, <1>13

(* Each announced link has one element, which its index in the table tells.*)
LinksOf(r) == {i \in AnnouncedLinks(source) : source[i].body.router = r}
LEMMA LinkListed ==
    ASSUME TableInv, NEW after, Places(after), NEW i \in AnnouncedLinks(source)
    PROVE  LET m == after[i - 1] + 1
           IN  /\ m \in Of(Len(listing), "link", source[i].body.router)
               /\ listing[m] = getLsLink(source[i].body)
<1>1. /\ i \in 1 .. Len(source) /\ source[i].nlri = "link" /\ source[i].attr = "link"
      /\ source[i].body.asn = ASN /\ source[i].body.remoteASN = ASN
  BY DEF AnnouncedLinks
<1>2. PICK b, s, m : b = source[i].body /\ s = ConvertToTEDElem(source[i]) /\ m = after[i - 1] + 1
  OBVIOUS
<1>3. s = <<getLsLink(b)>>
  BY <1>1, <1>2, SourceConverts, LinkConverted
<1>4. Len(s) = 1 /\ s[1] = getLsLink(b) /\ 1 \in 1 .. Len(s)
  BY <1>3
<1>5. m \in 1 .. Len(listing) /\ listing[m] = getLsLink(b)
  BY <1>1, <1>2, <1>4 DEF Places
<1>6. PICK e : e = listing[m]
  OBVIOUS
<1>7. e.kind = "link" /\ e.router = b.router /\ e.asn = b.asn /\ e.remoteASN = b.remoteASN
  BY <1>5, <1>6 DEF getLsLink, LinkElem
<1>8. m \in Of(Len(listing), "link", b.router)
  BY <1>1, <1>2, <1>5, <1>6, <1>7, Counts
<1> QED
  BY <1>2, <1>5, <1>8

LEMMA LinksCounted ==
    ASSUME TableInv, NEW r
    PROVE  Cardinality(LinksOf(r)) = Cardinality(Of(Len(listing), "link", r))
<1> DEFINE A == LinksOf(r)
           B == Of(Len(listing), "link", r)
<1>1. PICK after : Places(after)
  BY SourcePlaced
<1>2. \A i \in A : i \in AnnouncedLinks(source) /\ source[i].body.router = r
  BY DEF LinksOf
<1>3. \A i \in A : after[i - 1] + 1 \in B
  BY <1>1, <1>2, LinkListed
<1>4. \A i \in A : /\ i \in 1 .. Len(source) /\ Len(ConvertToTEDElem(source[i])) = 1
                   /\ after[i - 1] \in Nat
  <2> TAKE i \in A
  <2>1. i \in 1 .. Len(source) /\ source[i].attr = "link"
    BY <1>2 DEF AnnouncedLinks
  <2>2. ConvertToTEDElem(source[i]) = <<getLsLink(source[i].body)>>
    BY <2>1, SourceConverts, LinkConverted
  <2>3. Len(source) \in Nat
    BY ListingMade DEF IsTable
  <2>4. after \in [0 .. Len(source) -> Nat]
    BY <1>1 DEF Places
  <2> QED
    BY <2>1, <2>2, <2>3, <2>4
<1>5. \A i, j \in A : i < j => after[i - 1] + 1 <= after[j - 1]
  BY <1>1, <1>4 DEF Places
<1>6. \A m \in B : \E i \in A : m = after[i - 1] + 1
  <2> TAKE m \in B
  <2>1. /\ m \in 1 .. Len(listing) /\ listing[m].kind = "link" /\ listing[m].router = r
        /\ listing[m].asn = ASN /\ listing[m].remoteASN = ASN
    BY DEF Of, Mine, Foreign
  <2>2. PICK i \in 1 .. Len(source) :
           \E k \in 1 .. Len(ConvertToTEDElem(source[i])) : m = after[i - 1] + k
    BY <1>1, <2>1 DEF Places
  <2>3. PICK s : s = ConvertToTEDElem(source[i])
    OBVIOUS
  <2>4. PICK k \in 1 .. Len(s) : m = after[i - 1] + k
    BY <2>2, <2>3
  <2>5. listing[m] = s[k]
    BY <1>1, <2>3, <2>4 DEF Places
  <2>6. Made(source[i], listing[m])
    BY <2>3, <2>4, <2>5, SourceConverts, ElementsMade
  <2>7. source[i].attr = "link" /\ source[i].nlri = "link"
    BY <2>1, <2>6, SourceConverts, MadeTyped
  <2>8. s = <<getLsLink(source[i].body)>>
    BY <2>3, <2>7, SourceConverts, LinkConverted
  <2>9. k = 1 /\ listing[m] = getLsLink(source[i].body)
    BY <2>5, <2>8
  <2>10. PICK b, e : b = source[i].body /\ e = listing[m]
    OBVIOUS
  <2>11. e.router = b.router /\ e.asn = b.asn /\ e.remoteASN = b.remoteASN
    BY <2>9, <2>10 DEF getLsLink, LinkElem
  <2>12. i \in A
    BY <2>1, <2>7, <2>10, <2>11 DEF LinksOf, AnnouncedLinks
  <2> QED
    BY <2>4, <2>9, <2>12
<1> HIDE DEF A, B
<1> DEFINE f == [i \in A |-> after[i - 1] + 1]
<1>7. f \in [A -> B] /\ \A m \in B : \E i \in A : f[i] = m
  BY <1>3, <1>6
<1>8. \A i, j \in A : f[i] = f[j] => i = j
  <2> SUFFICES ASSUME NEW i \in A, NEW j \in A, f[i] = f[j] PROVE i = j
    OBVIOUS
  <2>1. i \in Int /\ j \in Int /\ after[i - 1] \in Nat /\ after[j - 1] \in Nat
    <3>1. Len(source) \in Nat
      BY ListingMade DEF IsTable
    <3> QED
      BY <1>4, <3>1
  <2>2. after[i - 1] = after[j - 1]
    BY <2>1
  <2>3. ~(i < j) /\ ~(j < i)
    BY <1>5, <2>1, <2>2
  <2> QED
    BY <2>1, <2>3
<1> HIDE DEF f
<1>9. f \in Bijection(A, B)
  BY <1>7, <1>8 DEF Bijection, Injection, Surjection, IsInjective
<1>10. IsFiniteSet(A)
  <2>1. Len(source) \in Nat
    BY ListingMade DEF IsTable
  <2>2. IsFiniteSet(1 .. Len(source)) /\ A \subseteq 1 .. Len(source)
    BY <1>4, <2>1, FS_Interval
  <2> QED
    BY <2>2, FS_Subset
<1>11. Cardinality(A) = Cardinality(B)
  BY <1>9, <1>10, FS_Bijection DEF ExistsBijection
<1> QED
  BY <1>11 DEF A, B

(* The routers that a table announces are those the TED has.               *)
LEMMA ListedIsAnnounced ==
    ASSUME TableInv, NEW m \in Mine(Len(listing))
    PROVE  /\ listing[m].router \in AnnouncedRouters(source)
           /\ listing[m].kind = "link" => listing[m].remote \in AnnouncedRouters(source)
<1>1. PICK e : e = listing[m]
  OBVIOUS
<1>2. m \in 1 .. Len(listing) /\ ~Foreign(e) /\ IsElem(e)
  BY <1>1, ListingMade DEF Mine
<1>3. \A kind : e.kind = kind => m \in Own(kind)
  BY <1>1, <1>2 DEF Own, TableInv
<1>4. CASE e.kind = "node"
  <2>1. PICK b \in AnnouncedNodes(source) : b.router = e.router
    BY <1>1, <1>3, <1>4, NodeSource
  <2> QED
    BY <1>1, <1>4, <2>1 DEF AnnouncedRouters
<1>5. CASE e.kind = "link"
  <2>1. PICK i \in AnnouncedLinks(source) :
           source[i].body.router = e.router /\ source[i].body.remote = e.remote
    BY <1>1, <1>3, <1>5, LinkSource
  <2>2. {e.router, e.remote} \in
           {{source[j].body.router, source[j].body.remote} : j \in AnnouncedLinks(source)}
    BY <2>1
  <2>3. {e.router, e.remote} \subseteq AnnouncedRouters(source)
    BY <2>2 DEF AnnouncedRouters
  <2> QED
    BY <1>1, <2>3
<1>6. CASE e.kind = "prefix"
  <2>1. PICK x \in Reached(source, "prefix") : x.nlri.router = e.router
    BY <1>1, <1>3, <1>6, PrefixSource
  <2> QED
    BY <1>1, <1>6, <2>1 DEF AnnouncedRouters
<1>7. CASE e.kind = "srv6SID"
  <2>1. PICK x \in Reached(source, "srv6SID") : x.nlri.router = e.router
    BY <1>1, <1>3, <1>7, SIDSource
  <2> QED
    BY <1>1, <1>7, <2>1 DEF AnnouncedRouters
<1> QED
  BY <1>2, <1>4, <1>5, <1>6, <1>7 DEF IsElem

LEMMA ListedNames ==
    ASSUME NEW m \in Mine(Len(listing))
    PROVE  /\ listing[m].router \in Named(Len(listing))
           /\ listing[m].kind = "link" => listing[m].remote \in Named(Len(listing))
BY DEF Named

LEMMA OfIsMine ==
    ASSUME NEW kind, NEW r, NEW m \in Of(Len(listing), kind, r)
    PROVE  m \in Mine(Len(listing)) /\ listing[m].kind = kind /\ listing[m].router = r
BY DEF Of

LEMMA RoutersAnnounced ==
    ASSUME TableInv
    PROVE  Routers = AnnouncedRouters(source)
<1> DEFINE N == Named(Len(listing))
           A == AnnouncedRouters(source)
<1>1. Routers = N
  BY PublishedIsMerged DEF Merged, Routers
<1>2. N \subseteq A
  BY ListedIsAnnounced DEF Named
<1>3. A \subseteq N
  <2> SUFFICES ASSUME NEW r \in A PROVE r \in N
    OBVIOUS
  <2>1. ASSUME NEW b \in AnnouncedNodes(source), r = b.router PROVE r \in N
    BY <2>1, NodeListed, OfIsMine, ListedNames
  <2>2. ASSUME NEW i \in AnnouncedLinks(source), r \in {source[i].body.router, source[i].body.remote}
        PROVE  r \in N
    <3>1. PICK after : Places(after)
      BY SourcePlaced
    <3>2. PICK m, b : m = after[i - 1] + 1 /\ b = source[i].body
      OBVIOUS
    <3>3. m \in Of(Len(listing), "link", b.router) /\ listing[m] = getLsLink(b)
      BY <3>1, <3>2, LinkListed
    <3>4. m \in Mine(Len(listing)) /\ listing[m].kind = "link" /\ listing[m].router = b.router
      BY <3>3, OfIsMine
    <3>5. listing[m].remote = b.remote
      BY <3>3 DEF getLsLink, LinkElem
    <3> QED
      BY <2>2, <3>2, <3>4, <3>5, ListedNames
  <2>3. ASSUME NEW x \in Reached(source, "prefix"), r = x.nlri.router PROVE r \in N
    BY <2>3, PrefixListed, OfIsMine, ListedNames
  <2>4. ASSUME NEW x \in Reached(source, "srv6SID"), r = x.nlri.router PROVE r \in N
    BY <2>4, SIDListed, OfIsMine, ListedNames
  <2> HIDE DEF N
  <2>5. \/ \E b \in AnnouncedNodes(source) : r = b.router
        \/ \E i \in AnnouncedLinks(source) : r \in {source[i].body.router, source[i].body.remote}
        \/ \E x \in Reached(source, "prefix") : r = x.nlri.router
        \/ \E x \in Reached(source, "srv6SID") : r = x.nlri.router
    BY DEF AnnouncedRouters
  <2> QED
    BY <2>1, <2>2, <2>3, <2>4, <2>5
<1> QED
  BY <1>1, <1>2, <1>3

------------------------------------------------------------------------------
(* What the client shows of a node *)

ClientLink(l) ==
    [remote |-> RemoteOf(l), metrics |-> l.metrics, adjSID |-> l.adjSID, endX |-> l.endX \ {""}]
ClientPrefix(p) ==
    [prefix |-> p.prefix, hasSID |-> p.hasSID, index |-> IF p.hasSID THEN p.index ELSE 0]
ClientNode(n) ==
    [begin |-> n.begin, end |-> n.end,
     links    |-> [i \in 1 .. Len(n.links) |-> ClientLink(n.links[i])],
     prefixes |-> [i \in 1 .. Len(n.prefixes) |-> ClientPrefix(n.prefixes[i])],
     srv6     |-> [i \in 1 .. Len(n.srv6) |-> buildLsSrv6SID(n.srv6[i])]]

LEMMA GotNode ==
    ASSUME TableInv, NEW r \in Routers
    PROVE  /\ convertLsNode(Node(r)) \in GetTED /\ convertLsNode(Node(r)).router = r
           /\ \A m \in GetTED : m.router = r => m = convertLsNode(Node(r))
<1>1. ASSUME NEW q \in Routers PROVE convertLsNode(Node(q)).router = q
  <2>1. PICK n : n = Node(q)
    OBVIOUS
  <2>2. n.router = q
    BY <2>1, NodeHolds
  <2> QED
    BY <2>1, <2>2 DEF convertLsNode
<1> QED
  BY <1>1 DEF GetTED

LEMMA RemoteIsShown ==
    ASSUME TableInv, NEW r \in Routers, NEW l \in Range(Node(r).links)
    PROVE  \E m \in GetTED : m.router = RemoteOf(l)
<1>1. WellFormed(ted)
  BY PublishedIsMerged
<1>2. PICK i : i = ted.nodes[r]
  OBVIOUS
<1>3. i \in 1 .. Len(ted.heap) /\ Node(r) = ted.heap[i]
  BY <1>1, <1>2 DEF WellFormed, Routers, Node
<1>4. Node(r).links \in Seq(LsLinks)
  BY NodeHolds DEF LsNodes
<1>5. PICK k \in 1 .. Len(Node(r).links) : l = Node(r).links[k]
  BY <1>4, RangeOfSeq DEF Range
<1>6. l.remote \in 1 .. Len(ted.heap)
  BY <1>1, <1>3, <1>5 DEF WellFormed
<1>7. RemoteOf(l) \in Routers
  BY <1>1, <1>6 DEF WellFormed, RemoteOf, Routers
<1> QED
  BY <1>7, GotNode

LEMMA NodeShown ==
    ASSUME TableInv, NEW r \in Routers
    PROVE  addLsNode(GetTED, convertLsNode(Node(r))) = ClientNode(Node(r))
<1>1. PICK n, g, c : n = Node(r) /\ g = GetTED /\ c = convertLsNode(n)
  OBVIOUS
<1>2. n \in LsNodes
  BY <1>1, NodeHolds
<1>3. n.links \in Seq(LsLinks) /\ n.prefixes \in Seq(LsPrefixes) /\ n.srv6 \in Seq(Seq(STRING))
  BY <1>2 DEF LsNodes
<1>4. PICK nl \in Nat, np \in Nat, ns \in Nat :
         nl = Len(n.links) /\ np = Len(n.prefixes) /\ ns = Len(n.srv6)
  BY <1>3, LenProperties
<1>5. /\ c.begin = n.begin /\ c.end = n.end
      /\ c.links = [i \in 1 .. nl |-> buildLsLink(n.links[i])]
      /\ c.prefixes = convertLsPrefixes(n.prefixes)
      /\ c.srv6 = [i \in 1 .. ns |-> buildLsSrv6SID(n.srv6[i])]
  BY <1>1, <1>4 DEF convertLsNode
<1>6. c.links = [i \in 1 .. nl |-> c.links[i]] /\ c.prefixes = [i \in 1 .. np |-> c.prefixes[i]]
  BY <1>4, <1>5 DEF convertLsPrefixes
<1>7. Len(c.links) = nl /\ Len(c.prefixes) = np
  BY <1>6, SequenceByIndex
<1>8. ASSUME NEW i \in 1 .. nl
      PROVE  createLsLink(g, c.links[i]) = ClientLink(n.links[i])
  <2>1. PICK l, d : l = n.links[i] /\ d = c.links[i]
    OBVIOUS
  <2>2. d = ClientLink(l)
    BY <1>5, <2>1 DEF buildLsLink, ClientLink
  <2>3. l \in Range(n.links)
    BY <1>3, <1>4, <2>1, LenProperties DEF Range
  <2>4. \E m \in g : m.router = RemoteOf(l)
    BY <1>1, <2>3, RemoteIsShown
  <2>5. d.remote = RemoteOf(l)
    BY <2>2 DEF ClientLink
  <2>6. createLsLink(g, d) = [d EXCEPT !.remote = d.remote]
    BY <2>4, <2>5 DEF createLsLink
  <2>7. [d EXCEPT !.remote = d.remote] = d
    BY <2>2 DEF ClientLink
  <2> QED
    BY <2>1, <2>2, <2>6, <2>7
<1>9. ASSUME NEW i \in 1 .. np
      PROVE  createLsPrefix(c.prefixes[i]) = ClientPrefix(n.prefixes[i])
  <2>1. PICK p, d : p = n.prefixes[i] /\ d = c.prefixes[i]
    OBVIOUS
  <2>2. d = [prefix |-> p.prefix, sidIndex |-> IF p.hasSID THEN {p.index} ELSE {}]
    BY <1>4, <1>5, <2>1 DEF convertLsPrefixes
  <2>3. p \in LsPrefixes
    BY <1>3, <1>4, <2>1, ElementOfSeq
  <2>4. p.hasSID \in BOOLEAN
    BY <2>3 DEF LsPrefixes
  <2>5. CASE p.hasSID
    <3>1. d.prefix = p.prefix /\ d.sidIndex = {p.index}
      BY <2>2, <2>5
    <3>2. (CHOOSE j \in {p.index} : TRUE) = p.index
      OBVIOUS
    <3>3. createLsPrefix(d) = [prefix |-> p.prefix, hasSID |-> TRUE, index |-> p.index]
      BY <3>1, <3>2 DEF createLsPrefix
    <3>4. p.hasSID = TRUE
      BY <2>4, <2>5
    <3> QED
      BY <2>1, <3>3, <3>4 DEF ClientPrefix
  <2>6. CASE ~p.hasSID
    <3>1. d.prefix = p.prefix /\ d.sidIndex = {}
      BY <2>2, <2>6
    <3>2. createLsPrefix(d) = [prefix |-> p.prefix, hasSID |-> FALSE, index |-> 0]
      BY <3>1 DEF createLsPrefix
    <3>3. p.hasSID = FALSE
      BY <2>4, <2>6
    <3> QED
      BY <2>1, <3>2, <3>3 DEF ClientPrefix
  <2> QED
    BY <2>5, <2>6
<1>10. addLsNode(g, c) =
          [begin |-> n.begin, end |-> n.end,
           links    |-> [i \in 1 .. nl |-> createLsLink(g, c.links[i])],
           prefixes |-> [i \in 1 .. np |-> createLsPrefix(c.prefixes[i])],
           srv6     |-> [i \in 1 .. ns |-> buildLsSrv6SID(n.srv6[i])]]
  BY <1>5, <1>7 DEF addLsNode
<1>11. /\ [i \in 1 .. nl |-> createLsLink(g, c.links[i])]
             = [i \in 1 .. nl |-> ClientLink(n.links[i])]
       /\ [i \in 1 .. np |-> createLsPrefix(c.prefixes[i])]
             = [i \in 1 .. np |-> ClientPrefix(n.prefixes[i])]
  BY <1>8, <1>9
<1>12. addLsNode(g, c) = ClientNode(n)
  BY <1>4, <1>10, <1>11, Zenon DEF ClientNode
<1> QED
  BY <1>1, <1>12

LEMMA ViewShows ==
    ASSUME TableInv
    PROVE  /\ DOMAIN ClientTED(GetTED) = Routers
           /\ \A r \in Routers : ClientTED(GetTED)[r] = ClientNode(Node(r))
<1>1. PICK g : g = GetTED
  OBVIOUS
<1>2. {n.router : n \in g} = Routers
  <2>1. \A r \in Routers : \E n \in g : n.router = r
    BY <1>1, GotNode
  <2>2. \A n \in g : \E r \in Routers : n = convertLsNode(Node(r))
    BY <1>1 DEF GetTED
  <2>3. \A r \in Routers : convertLsNode(Node(r)).router = r
    BY GotNode
  <2> QED
    BY <2>1, <2>2, <2>3
<1>3. ASSUME NEW r \in Routers
      PROVE  (CHOOSE n \in g : n.router = r) = convertLsNode(Node(r))
  <2>1. PICK c : c = convertLsNode(Node(r))
    OBVIOUS
  <2>2. c \in g /\ c.router = r /\ \A m \in g : m.router = r => m = c
    BY <1>1, <2>1, GotNode
  <2>3. (CHOOSE n \in g : n.router = r) = c
    BY <2>2
  <2> QED
    BY <2>1, <2>3
<1>4. ClientTED(g) = [r \in Routers |-> addLsNode(g, CHOOSE n \in g : n.router = r)]
  BY <1>2, Zenon DEF ClientTED
<1>5. \A r \in Routers : ClientTED(g)[r] = addLsNode(g, convertLsNode(Node(r)))
  BY <1>3, <1>4
<1>6. DOMAIN ClientTED(g) = Routers
  BY <1>4
<1> QED
  BY <1>1, <1>5, <1>6, NodeShown

LEMMA NodeIsShown ==
    ASSUME TableInv, NEW r \in Routers
    PROVE  ShowsNode(ClientNode(Node(r)), source, r)
<1> DEFINE I == Of(Len(listing), "node", r)
           own == {b \in AnnouncedNodes(source) : b.router = r}
<1>1. PICK n, v : n = Node(r) /\ v = ClientNode(n)
  OBVIOUS
<1>2. v.begin = n.begin /\ v.end = n.end
  BY <1>1 DEF ClientNode
<1>3. RangeFrom(n, I)
  BY <1>1, NodeHolds DEF NodeIsMerge
<1>4. ASSUME NEW m \in I
      PROVE  \E b \in own :
                IF b.hasSR THEN b.ranges = <<[begin |-> listing[m].begin, end |-> listing[m].end]>>
                ELSE listing[m].begin = 0 /\ listing[m].end = 0
  <2>1. m \in Own("node") /\ listing[m].router = r
    BY OfIsOwn
  <2> QED
    BY <2>1, NodeSource
<1>5. \A b \in own : \E m \in I : TRUE
  BY NodeListed
<1> HIDE DEF I, own
<1>6. CASE own = {}
  <2>1. I = {}
    BY <1>4, <1>6
  <2>2. v.begin = 0 /\ v.end = 0
    BY <1>2, <1>3, <2>1 DEF RangeFrom
  <2> QED
    BY <1>1, <1>6, <2>2 DEF ShowsNode, own
<1>7. CASE own # {}
  <2>1. I # {}
    BY <1>5, <1>7
  <2>2. PICK m \in I : v.begin = listing[m].begin /\ v.end = listing[m].end
    BY <1>2, <1>3, <2>1 DEF RangeFrom
  <2>3. \E b \in own : IF b.hasSR THEN b.ranges = <<[begin |-> v.begin, end |-> v.end]>>
                       ELSE v.begin = 0 /\ v.end = 0
    BY <1>4, <2>2
  <2> QED
    BY <1>1, <1>7, <2>3 DEF ShowsNode, own
<1> QED
  BY <1>6, <1>7

Said(e) == <<e.remote, e.link.metrics, e.link.adjSID, e.link.endX>>
Says(l) == <<RemoteOf(l), l.metrics, l.adjSID, l.endX>>

LEMMA LinkIsShown ==
    ASSUME NEW b, NEW l, Says(l) = Said(getLsLink(b))
    PROVE  ShowsLink(ClientLink(l), b)
<1> DEFINE types == {"igp"} \cup (IF b.te = 0 THEN {} ELSE {"te"})
                            \cup (IF b.delay = 0 THEN {} ELSE {"delay"})
           value == [igp |-> b.igp, te |-> b.te, delay |-> b.delay]
           metrics == [m \in types |-> value[m]]
<1>1. getLsLink(b) = LinkElem(b.router, b.remote, b.asn, b.remoteASN,
                              Link(metrics, b.adjSID, b.endX))
  BY DEF getLsLink
<1>2. Said(getLsLink(b)) = <<b.remote, metrics, b.adjSID, b.endX>>
  <2> HIDE DEF metrics
  <2> QED
    BY <1>1 DEF LinkElem, Link, Said
<1>3. PICK v : v = ClientLink(l)
  OBVIOUS
<1>4. RemoteOf(l) = b.remote /\ l.metrics = metrics /\ l.adjSID = b.adjSID /\ l.endX = b.endX
  <2> HIDE DEF metrics
  <2> QED
    BY <1>2 DEF Says
<1>5. v.remote = RemoteOf(l) /\ v.metrics = l.metrics /\ v.adjSID = l.adjSID
      /\ v.endX = l.endX \ {""}
  BY <1>3, Zenon DEF ClientLink
<1>6. l.metrics["igp"] = b.igp
  BY <1>4
<1>7. /\ IF b["te"] = 0 THEN "te" \notin DOMAIN l.metrics
         ELSE "te" \in DOMAIN l.metrics /\ l.metrics["te"] = b["te"]
      /\ IF b["delay"] = 0 THEN "delay" \notin DOMAIN l.metrics
         ELSE "delay" \in DOMAIN l.metrics /\ l.metrics["delay"] = b["delay"]
  BY <1>4
<1>8. \A m \in {"te", "delay"} :
         IF b[m] = 0 THEN m \notin DOMAIN l.metrics
         ELSE m \in DOMAIN l.metrics /\ l.metrics[m] = b[m]
  <2> HIDE DEF metrics
  <2> QED
    BY <1>7, Zenon
<1> HIDE DEF metrics
<1> QED
  BY <1>3, <1>4, <1>5, <1>6, <1>8, Zenon DEF ShowsLink

LEMMA LinkSaid ==
    ASSUME TableInv, NEW r \in Routers
    PROVE  {Says(l) : l \in Range(Node(r).links)} =
              {Said(listing[m]) : m \in Of(Len(listing), "link", r)}
<1> DEFINE names == NamesIn(ted.heap)
           I == Of(Len(listing), "link", r)
<1>1. PICK n : n = Node(r)
  OBVIOUS
<1>2. {<<names[l.remote], l.metrics, l.adjSID, l.endX>> : l \in Range(n.links)} =
         {Said(listing[m]) : m \in I}
  BY <1>1, NodeHolds DEF NodeIsMerge, LinksFrom, Said
<1>3. ASSUME NEW l \in Range(n.links)
      PROVE  names[l.remote] = RemoteOf(l)
  <2>1. WellFormed(ted)
    BY PublishedIsMerged
  <2>2. PICK i : i = ted.nodes[r]
    OBVIOUS
  <2>3. i \in 1 .. Len(ted.heap) /\ n = ted.heap[i]
    BY <1>1, <2>1, <2>2 DEF WellFormed, Routers, Node
  <2>4. n.links \in Seq(LsLinks)
    BY <1>1, NodeHolds DEF LsNodes
  <2>5. PICK k \in 1 .. Len(n.links) : l = n.links[k]
    BY <2>4, RangeOfSeq DEF Range
  <2>6. l.remote \in 1 .. Len(ted.heap)
    BY <2>1, <2>3, <2>5 DEF WellFormed
  <2> QED
    BY <2>6 DEF NamesIn, RemoteOf
<1> HIDE DEF names, I
<1>4. {Says(l) : l \in Range(n.links)} = {Said(listing[m]) : m \in I}
  BY <1>2, <1>3 DEF Says
<1> QED
  BY <1>1, <1>4 DEF I

LEMMA LinksAreShown ==
    ASSUME TableInv, NEW r \in Routers
    PROVE  ShowsLinks(ClientNode(Node(r)), source, r)
<1> DEFINE I == Of(Len(listing), "link", r)
           own == {i \in AnnouncedLinks(source) : source[i].body.router = r}
<1>1. PICK n, v : n = Node(r) /\ v = ClientNode(n)
  OBVIOUS
<1>2. n.links \in Seq(LsLinks)
  BY <1>1, NodeHolds DEF LsNodes
<1>3. PICK len \in Nat : len = Len(n.links)
  BY <1>2, LenProperties
<1>4. v.links = [k \in 1 .. len |-> ClientLink(n.links[k])]
  BY <1>1, <1>3, Zenon DEF ClientNode
<1>5. v.links = [k \in 1 .. len |-> v.links[k]]
  BY <1>4
<1>6. Len(v.links) = len
  BY <1>5, SequenceByIndex
<1>7. len = Cardinality(I)
  BY <1>1, <1>3, NodeHolds DEF NodeIsMerge, LinksFrom
<1>8. Cardinality(own) = Cardinality(I)
  BY LinksCounted DEF LinksOf
<1>9. ASSUME NEW i \in own
      PROVE  \E k \in 1 .. len : ShowsLink(v.links[k], source[i].body)
  <2>1. PICK after : Places(after)
    BY SourcePlaced
  <2>2. PICK m : m = after[i - 1] + 1
    OBVIOUS
  <2>3. m \in I /\ listing[m] = getLsLink(source[i].body)
    BY <2>1, <2>2, LinkListed
  <2>4. PICK l \in Range(n.links) : Says(l) = Said(listing[m])
    BY <1>1, <2>3, LinkSaid
  <2>5. PICK k \in 1 .. len : l = n.links[k]
    BY <1>2, <1>3, RangeOfSeq DEF Range
  <2>6. ShowsLink(ClientLink(l), source[i].body)
    BY <2>3, <2>4, LinkIsShown
  <2>7. v.links[k] = ClientLink(l)
    BY <1>4, <2>5
  <2> QED
    BY <2>6, <2>7
<1>10. ASSUME NEW k \in 1 .. len
       PROVE  \E i \in own : ShowsLink(v.links[k], source[i].body)
  <2>1. PICK l : l = n.links[k]
    OBVIOUS
  <2>2. l \in Range(n.links)
    BY <1>2, <1>3, <2>1, LenProperties DEF Range
  <2>3. PICK m \in I : Says(l) = Said(listing[m])
    BY <1>1, <2>2, LinkSaid
  <2>4. m \in Own("link") /\ listing[m].router = r
    BY OfIsOwn
  <2>5. PICK i \in AnnouncedLinks(source) :
           listing[m] = getLsLink(source[i].body) /\ source[i].body.router = r
    BY <2>4, LinkSource
  <2>6. ShowsLink(ClientLink(l), source[i].body)
    BY <2>3, <2>5, LinkIsShown
  <2>7. v.links[k] = ClientLink(l)
    BY <1>4, <2>1
  <2> QED
    BY <2>5, <2>6, <2>7
<1> HIDE DEF I, own
<1> QED
  BY <1>1, <1>6, <1>7, <1>8, <1>9, <1>10 DEF ShowsLinks, own

LEMMA PrefixesAreShown ==
    ASSUME TableInv, NEW r \in Routers
    PROVE  ShowsPrefixes(ClientNode(Node(r)), source, r)
<1> DEFINE I == Of(Len(listing), "prefix", r)
           own == {x \in Reached(source, "prefix") : x.nlri.router = r}
           name(x) == x.nlri.prefixes[1].prefix
           names == {name(x) : x \in own}
<1>1. PICK n, v : n = Node(r) /\ v = ClientNode(n)
  OBVIOUS
<1>2. n.prefixes \in Seq(LsPrefixes)
  BY <1>1, NodeHolds DEF LsNodes
<1>3. PICK len \in Nat : len = Len(n.prefixes)
  BY <1>2, LenProperties
<1>4. v.prefixes = [k \in 1 .. len |-> ClientPrefix(n.prefixes[k])]
  BY <1>1, <1>3, Zenon DEF ClientNode
<1>5. v.prefixes = [k \in 1 .. len |-> v.prefixes[k]]
  BY <1>4
<1>6. Len(v.prefixes) = len
  BY <1>5, SequenceByIndex
<1>7. names = {listing[m].prefix.prefix : m \in I}
  <2>1. ASSUME NEW x \in own PROVE \E m \in I : listing[m].prefix.prefix = name(x)
    BY PrefixListed
  <2>2. ASSUME NEW m \in I PROVE \E x \in own : listing[m].prefix.prefix = name(x)
    <3>1. m \in Own("prefix") /\ listing[m].router = r
      BY OfIsOwn
    <3> QED
      BY <3>1, PrefixSource
  <2> HIDE DEF I, own, name
  <2> QED
    BY <2>1, <2>2
<1>8. len = Cardinality(names) /\ {p.prefix : p \in Range(n.prefixes)} = names
  BY <1>1, <1>3, <1>7, NodeHolds DEF NodeIsMerge, PrefixesFrom
<1>9. ASSUME NEW k \in 1 .. len
      PROVE  /\ n.prefixes[k] \in Range(n.prefixes)
             /\ v.prefixes[k].prefix = n.prefixes[k].prefix
             /\ \E x \in own :
                   /\ name(x) = v.prefixes[k].prefix
                   /\ IF v.prefixes[k].hasSID THEN AnnouncesIndex(x, v.prefixes[k].index)
                      ELSE AnnouncesNoIndex(x)
  <2>1. PICK p, q : p = n.prefixes[k] /\ q = v.prefixes[k]
    OBVIOUS
  <2>2. p \in Range(n.prefixes)
    BY <1>2, <1>3, <2>1, LenProperties DEF Range
  <2>3. q = ClientPrefix(p)
    BY <1>4, <2>1
  <2>4. q.prefix = p.prefix /\ q.hasSID = p.hasSID /\ (p.hasSID => q.index = p.index)
    BY <2>3, Zenon DEF ClientPrefix
  <2>5. PICK x \in Reached(source, "prefix") :
           /\ x.nlri.router = r /\ x.nlri.prefixes[1].prefix = p.prefix
           /\ IF p.hasSID THEN AnnouncesIndex(x, p.index) ELSE AnnouncesNoIndex(x)
    BY <1>1, <2>2, PrefixAnnounced
  <2>6. CASE p.hasSID
    BY <2>1, <2>2, <2>4, <2>5, <2>6
  <2>7. CASE ~p.hasSID
    BY <2>1, <2>2, <2>4, <2>5, <2>7
  <2> QED
    BY <2>6, <2>7
<1>10. {v.prefixes[k].prefix : k \in 1 .. len} = names
  <2>1. \A p \in Range(n.prefixes) : \E k \in 1 .. len : p = n.prefixes[k]
    BY <1>2, <1>3, RangeOfSeq DEF Range
  <2> HIDE DEF names
  <2> QED
    BY <1>8, <1>9, <2>1
<1>11. \A k \in 1 .. len : \E x \in own :
          /\ name(x) = v.prefixes[k].prefix
          /\ IF v.prefixes[k].hasSID THEN AnnouncesIndex(x, v.prefixes[k].index)
             ELSE AnnouncesNoIndex(x)
  BY <1>9
<1>12. ShowsPrefixes(v, source, r)
  BY <1>6, <1>8, <1>10, <1>11, Zenon DEF ShowsPrefixes
<1> QED
  BY <1>1, <1>12

LEMMA SIDsAreShown ==
    ASSUME TableInv, NEW r \in Routers
    PROVE  ShowsSIDs(ClientNode(Node(r)), source, r)
<1> DEFINE I == Of(Len(listing), "srv6SID", r)
           own == {x \in Reached(source, "srv6SID") : x.nlri.router = r}
<1>1. PICK n, v : n = Node(r) /\ v = ClientNode(n)
  OBVIOUS
<1>2. n.srv6 \in Seq(Seq(STRING))
  BY <1>1, NodeHolds DEF LsNodes
<1>3. PICK len \in Nat : len = Len(n.srv6)
  BY <1>2, LenProperties
<1>4. v.srv6 = [k \in 1 .. len |-> buildLsSrv6SID(n.srv6[k])]
  BY <1>1, <1>3, Zenon DEF ClientNode
<1>5. v.srv6 = [k \in 1 .. len |-> v.srv6[k]]
  BY <1>4
<1>6. Len(v.srv6) = len
  BY <1>5, SequenceByIndex
<1>7. Range(n.srv6) = {x.nlri.sids : x \in own}
  <2>1. Range(n.srv6) = {listing[m].sids : m \in I}
    BY <1>1, NodeHolds DEF NodeIsMerge, SIDsFrom
  <2>2. ASSUME NEW x \in own PROVE \E m \in I : listing[m].sids = x.nlri.sids
    BY SIDListed
  <2>3. ASSUME NEW m \in I PROVE \E x \in own : listing[m].sids = x.nlri.sids
    <3>1. m \in Own("srv6SID") /\ listing[m].router = r
      BY OfIsOwn
    <3> QED
      BY <3>1, SIDSource
  <2> HIDE DEF I, own
  <2> QED
    BY <2>1, <2>2, <2>3
<1>8. Range(n.srv6) = {n.srv6[k] : k \in 1 .. len}
  BY <1>2, <1>3, RangeOfSeq, LenProperties DEF Range
<1>9. \A k \in 1 .. len : v.srv6[k] = Range(n.srv6[k]) \ {""}
  BY <1>4, Zenon DEF buildLsSrv6SID
<1> HIDE DEF I, own
<1>10. ASSUME NEW sid
       PROVE  (\E k \in 1 .. len : sid \in Range(n.srv6[k]))
                <=> \E x \in own : sid \in Range(x.nlri.sids)
  BY <1>7, <1>8, Zenon
<1>11. (UNION {v.srv6[k] : k \in 1 .. len}) = (UNION {Range(x.nlri.sids) : x \in own}) \ {""}
  <2>1. PICK none : none = {""}
    BY Zenon
  <2>2. \A k \in 1 .. len : v.srv6[k] = Range(n.srv6[k]) \ none
    BY <1>9, <2>1, Zenon
  <2>3. PICK V, W : V = UNION {v.srv6[k] : k \in 1 .. len}
                    /\ W = UNION {Range(x.nlri.sids) : x \in own}
    BY Zenon
  <2>4. \A sid : sid \in V <=> \E k \in 1 .. len : sid \in Range(n.srv6[k]) /\ sid \notin none
    BY <2>2, <2>3
  <2>5. \A sid : sid \in W <=> \E x \in own : sid \in Range(x.nlri.sids)
    BY <2>3
  <2>6. V = W \ none
    BY <1>10, <2>4, <2>5
  <2> QED
    BY <2>1, <2>3, <2>6, Zenon
<1>12. ShowsSIDs(v, source, r)
  BY <1>6, <1>11, Zenon DEF ShowsSIDs, own
<1> QED
  BY <1>1, <1>12

LEMMA TableIsShown == TableInv => ClientShowsTable
<1> SUFFICES ASSUME TableInv PROVE ClientShowsTable
  OBVIOUS
<1>1. PICK view : view = ClientTED(GetTED)
  OBVIOUS
<1>2. DOMAIN view = Routers /\ \A r \in Routers : view[r] = ClientNode(Node(r))
  BY <1>1, ViewShows
<1>3. \A r \in DOMAIN view :
         /\ ShowsNode(view[r], source, r) /\ ShowsLinks(view[r], source, r)
         /\ ShowsPrefixes(view[r], source, r) /\ ShowsSIDs(view[r], source, r)
  BY <1>2, NodeIsShown, LinksAreShown, PrefixesAreShown, SIDsAreShown
<1>4. DOMAIN view = AnnouncedRouters(source)
  BY <1>2, RoutersAnnounced
<1>5. \A i \in 1 .. Len(source) : ~Refuses(source[i])
  BY DEF TableInv, Fetches
<1> QED
  BY <1>1, <1>3, <1>4, <1>5, Zenon DEF ClientShowsTable

------------------------------------------------------------------------------
(* The inductive invariant.  held is the LSPs of one PCC by PLSP-ID: they  *)
(* keep color and endpoint until they are gone, and none takes the place   *)
(* of another, which makes what was found in the registry stay true while  *)
(* a request or a report is on its way.                                    *)

(* A PLSP-ID of an LSP with that color and endpoint, as long as there is   *)
(* one.                                                                    *)
Names(held, plsp, key) ==
    /\ plsp \in 1 .. Len(held)
    /\ held[plsp] # NoLSP => held[plsp].key = key

(* LSPs of which none has that color and endpoint.                         *)
Others(held, plsps, key) ==
    \A p \in plsps : p \in 1 .. Len(held) /\ (held[p] # NoLSP => held[p].key # key)

MessageFits(held, m) ==
    /\ Describes(m)
    /\ IF m.kind = "create" THEN m.plsp = 0 /\ Others(held, m.beside, m.key)
       ELSE Names(held, m.plsp, m.key)
ReportFits(held, m) ==
    /\ m.kind \in {"report", "remove", "endOfSync"}
    /\ m.kind = "report" => Names(held, m.policy.plsp, m.policy.key) /\ IsPolicy(m.policy)

HeldFits(held) ==
    /\ Sequence(held)
    /\ \A p \in 1 .. Len(held) :
          held[p] # NoLSP => IsLSP(held[p]) /\ Others(held, held[p].beside, held[p].key)

PoliciesFit(held, all) ==
    /\ Sequence(all)
    /\ \A j \in 1 .. Len(all) : Names(held, all[j].plsp, all[j].key) /\ IsPolicy(all[j])
    /\ \A j, k \in 1 .. Len(all) : all[j].plsp = all[k].plsp => j = k
ToPCCFits(held, all) ==
    Sequence(all) /\ \A k \in 1 .. Len(all) : MessageFits(held, all[k])
ToPCEFits(held, all) ==
    Sequence(all) /\ \A k \in 1 .. Len(all) : ReportFits(held, all[k])

SessionFields == {"peer", "synced", "toPCC", "policies", "toPCE"}
SessionFits(held, s) ==
    /\ DOMAIN s = SessionFields /\ s.synced \in BOOLEAN
    /\ PoliciesFit(held, s.policies) /\ ToPCCFits(held, s.toPCC) /\ ToPCEFits(held, s.toPCE)

BuildFields == {"pc", "kind", "req", "seen"}
ListFields == BuildFields \cup {"key", "list"}
CallTyped(call) ==
    /\ "pc" \in DOMAIN call /\ call.pc \in PCs
    /\ call.pc = "build" => DOMAIN call = BuildFields
    /\ call.pc \in {"validate", "search"} =>
          /\ DOMAIN call = ListFields /\ IsKey(call.key) /\ IsList(call.list)
          /\ call.kind = "create" => IsIntent(resolveSRPolicyIntent(call.req))
    /\ call.pc \in {"build", "validate"} => call.req \in CreateRequests
CallFits(all, call) ==
    /\ CallTyped(call)
    /\ call.pc = "send" => /\ call.session \in 1 .. Len(all)
                           /\ MessageFits(all[call.session], call.message)

ListsFit ==
    /\ Sequence(sessions) /\ Sequence(lsps) /\ Len(lsps) = Len(sessions)
    /\ \A i \in 1 .. Len(sessions) : HeldFits(lsps[i]) /\ SessionFits(lsps[i], sessions[i])
CallsFit == DOMAIN calls = Calls /\ \A c \in Calls : CallFits(lsps, calls[c])

IInv == ListsFit /\ CallsFit

------------------------------------------------------------------------------
(* What the PCC does to its LSPs *)

(* LSPs are added at the end, change what is not their name, or go.        *)
Grows(held, new) ==
    /\ Sequence(held) /\ Sequence(new)
    /\ Len(held) <= Len(new)
    /\ \A p \in 1 .. Len(held) :
          new[p] # NoLSP => /\ held[p] # NoLSP
                            /\ new[p].key = held[p].key
                            /\ new[p].beside = held[p].beside

LEMMA NamesLast ==
    ASSUME NEW held, NEW new, Grows(held, new), NEW plsp, NEW key, Names(held, plsp, key)
    PROVE  Names(new, plsp, key)
BY SequenceLen DEF Grows, Names

LEMMA OthersLast ==
    ASSUME NEW held, NEW new, Grows(held, new), NEW plsps, NEW key, Others(held, plsps, key)
    PROVE  Others(new, plsps, key)
BY SequenceLen DEF Grows, Others

LEMMA MessageLasts ==
    ASSUME NEW held, NEW new, Grows(held, new), NEW m, MessageFits(held, m)
    PROVE  MessageFits(new, m)
BY NamesLast, OthersLast DEF MessageFits

LEMMA PoliciesLast ==
    ASSUME NEW held, NEW new, Grows(held, new), NEW all, PoliciesFit(held, all)
    PROVE  PoliciesFit(new, all)
BY NamesLast DEF PoliciesFit

LEMMA ToPCCLasts ==
    ASSUME NEW held, NEW new, Grows(held, new), NEW all, ToPCCFits(held, all)
    PROVE  ToPCCFits(new, all)
BY MessageLasts DEF ToPCCFits

LEMMA ToPCELasts ==
    ASSUME NEW held, NEW new, Grows(held, new), NEW all, ToPCEFits(held, all)
    PROVE  ToPCEFits(new, all)
BY NamesLast DEF ToPCEFits, ReportFits

LEMMA GrowsByNothing ==
    ASSUME NEW held, Sequence(held)
    PROVE  Grows(held, held)
BY SequenceLen DEF Grows

(* A new LSP, made by a request that saw no LSP of its name.               *)
LEMMA Created ==
    ASSUME NEW held, HeldFits(held), NEW key, IsKey(key), NEW list, IsList(list),
           NEW intent, IsIntent(intent), NEW beside, Others(held, beside, key)
    PROVE  LET lsp == LSP(key, list, intent, beside)
               new == Append(held, lsp)
           IN  /\ Grows(held, new) /\ HeldFits(new) /\ IsPolicy(lsp)
               /\ Names(new, Len(held) + 1, lsp.key)
<1> DEFINE lsp == LSP(key, list, intent, beside)
           new == Append(held, lsp)
<1>1. lsp.key = key /\ lsp.beside = beside /\ IsLSP(lsp)
  <2>1. /\ DOMAIN lsp = LSPFields /\ lsp.key = key /\ lsp.beside = beside
        /\ lsp.list = list /\ lsp.intent = intent /\ lsp.state = "up"
    BY DEF LSP, LSPFields
  <2> HIDE DEF lsp
  <2> QED
    BY <2>1 DEF IsLSP, IsPolicy, Describes, PolicyStates
<1> HIDE DEF lsp
<1>2. /\ Sequence(held) /\ Len(held) \in Nat
      /\ Sequence(new) /\ Len(new) = Len(held) + 1
      /\ \A p \in 1 .. Len(held) : new[p] = held[p]
      /\ new[Len(held) + 1] = lsp
  BY SequenceAppend, SequenceLen DEF HeldFits
<1> HIDE DEF new
<1>3. Grows(held, new)
  BY <1>2 DEF Grows
<1>4. ASSUME NEW p \in 1 .. Len(new), new[p] # NoLSP
      PROVE  IsLSP(new[p]) /\ Others(new, new[p].beside, new[p].key)
  <2>1. CASE p = Len(held) + 1
    BY <1>1, <1>2, <1>3, <2>1, OthersLast
  <2>2. CASE p # Len(held) + 1
    <3>1. p \in 1 .. Len(held) /\ new[p] = held[p]
      BY <1>2, <2>2
    <3> QED
      BY <1>3, <1>4, <3>1, OthersLast DEF HeldFits
  <2> QED
    BY <2>1, <2>2
<1>5. HeldFits(new)
  BY <1>2, <1>4 DEF HeldFits
<1>6. Names(new, Len(held) + 1, lsp.key)
  BY <1>2 DEF Names
<1> QED
  BY <1>1, <1>3, <1>5, <1>6 DEF lsp, new, IsLSP

(* An LSP that changes and keeps its name, or goes.                        *)
LEMMA Changed ==
    ASSUME NEW held, HeldFits(held), NEW plsp \in 1 .. Len(held), NEW lsp,
           \/ lsp = NoLSP
           \/ /\ held[plsp] # NoLSP /\ IsLSP(lsp)
              /\ lsp.key = held[plsp].key /\ lsp.beside = held[plsp].beside
    PROVE  LET new == Replaced(held, plsp, lsp)
           IN  Grows(held, new) /\ HeldFits(new)
<1> DEFINE new == Replaced(held, plsp, lsp)
<1>1. /\ Sequence(held) /\ Len(held) \in Nat
      /\ Sequence(new) /\ Len(new) = Len(held)
      /\ \A p \in 1 .. Len(held) : new[p] = IF p = plsp THEN lsp ELSE held[p]
  BY SequenceReplaced, SequenceLen DEF HeldFits
<1> HIDE DEF new
<1>2. Grows(held, new)
  BY <1>1 DEF Grows
<1>3. ASSUME NEW p \in 1 .. Len(new), new[p] # NoLSP
      PROVE  IsLSP(new[p]) /\ Others(new, new[p].beside, new[p].key)
  <2>1. held[p] # NoLSP /\ IsLSP(held[p]) /\ Others(held, held[p].beside, held[p].key)
    BY <1>1, <1>3 DEF HeldFits
  <2>2. /\ IsLSP(new[p])
        /\ new[p].beside = held[p].beside /\ new[p].key = held[p].key
    BY <1>1, <1>3, <2>1
  <2> QED
    BY <1>2, <2>1, <2>2, OthersLast
<1>4. HeldFits(new)
  BY <1>1, <1>3 DEF HeldFits
<1> QED
  BY <1>2, <1>4 DEF new

------------------------------------------------------------------------------
(* The registry and the two directions of the connection *)

LEMMA WithPlspIsLeast ==
    ASSUME NEW i, NEW plsp, Sequence(sessions[i].policies), WithPlsp(i, plsp) # {}
    PROVE  /\ Min(WithPlsp(i, plsp)) \in 1 .. Len(sessions[i].policies)
           /\ sessions[i].policies[Min(WithPlsp(i, plsp))].plsp = plsp
<1>1. WithPlsp(i, plsp) \subseteq 1 .. Len(sessions[i].policies)
  BY DEF WithPlsp
<1>2. WithPlsp(i, plsp) \in SUBSET Nat
  BY <1>1, SequenceLen
<1>3. Min(WithPlsp(i, plsp)) \in WithPlsp(i, plsp)
  BY <1>2, MinIsLeast
<1> QED
  BY <1>1, <1>3 DEF WithPlsp

LEMMA Registered ==
    ASSUME NEW i, NEW held, PoliciesFit(held, sessions[i].policies),
           NEW p, Names(held, p.plsp, p.key), IsPolicy(p)
    PROVE  PoliciesFit(held, RegisterSRPolicy(i, p))
<1> DEFINE all == sessions[i].policies
           old == WithPlsp(i, p.plsp)
<1>1. Sequence(all) /\ Len(all) \in Nat
  BY SequenceLen DEF PoliciesFit
<1>2. /\ \A j \in 1 .. Len(all) : Names(held, all[j].plsp, all[j].key) /\ IsPolicy(all[j])
      /\ \A j, k \in 1 .. Len(all) : all[j].plsp = all[k].plsp => j = k
  BY DEF PoliciesFit
<1>3. CASE old = {}
  <2>1. RegisterSRPolicy(i, p) = Append(all, p)
    BY <1>3 DEF RegisterSRPolicy
  <2>2. \A j \in 1 .. Len(all) : all[j].plsp # p.plsp
    BY <1>3 DEF WithPlsp
  <2> HIDE DEF all
  <2>3. PICK new : new = Append(all, p)
    OBVIOUS
  <2>4. /\ Sequence(new) /\ Len(new) = Len(all) + 1 /\ new[Len(all) + 1] = p
        /\ \A j \in 1 .. Len(all) : new[j] = all[j]
    BY <1>1, <2>3, SequenceAppend
  <2>5. \A j, k \in 1 .. Len(new) : new[j].plsp = new[k].plsp => j = k
    BY <1>1, <1>2, <2>2, <2>4
  <2>6. \A j \in 1 .. Len(new) : Names(held, new[j].plsp, new[j].key) /\ IsPolicy(new[j])
    BY <1>1, <1>2, <2>4
  <2> QED
    BY <2>1, <2>3, <2>4, <2>5, <2>6 DEF PoliciesFit
<1>4. CASE old # {}
  <2> DEFINE new == Replaced(all, Min(old), p)
  <2>1. RegisterSRPolicy(i, p) = new
    BY <1>4 DEF RegisterSRPolicy, Replaced
  <2>2. Min(old) \in 1 .. Len(all) /\ all[Min(old)].plsp = p.plsp
    BY <1>1, <1>4, WithPlspIsLeast
  <2> HIDE DEF all, old
  <2>3. /\ Sequence(new) /\ Len(new) = Len(all)
        /\ \A j \in 1 .. Len(all) : new[j] = IF j = Min(old) THEN p ELSE all[j]
    BY <1>1, <2>2, SequenceReplaced
  <2> HIDE DEF new
  <2>4. \A j \in 1 .. Len(all) : new[j].plsp = all[j].plsp
    BY <2>2, <2>3
  <2> QED
    BY <1>1, <1>2, <2>1, <2>3, <2>4 DEF PoliciesFit
<1> QED
  BY <1>3, <1>4

LEMMA Removed ==
    ASSUME NEW i, NEW held, PoliciesFit(held, sessions[i].policies), NEW plsp
    PROVE  PoliciesFit(held, RemoveSRPolicy(i, plsp))
<1> DEFINE all == sessions[i].policies
           old == WithPlsp(i, plsp)
           moved == Replaced(all, Min(old), Last(all))
<1>1. Sequence(all) /\ Len(all) \in Nat
  BY SequenceLen DEF PoliciesFit
<1>2. /\ \A j \in 1 .. Len(all) : Names(held, all[j].plsp, all[j].key) /\ IsPolicy(all[j])
      /\ \A j, k \in 1 .. Len(all) : all[j].plsp = all[k].plsp => j = k
  BY DEF PoliciesFit
<1>3. CASE old = {}
  BY <1>3 DEF RemoveSRPolicy
<1>4. CASE old # {}
  <2>1. RemoveSRPolicy(i, plsp) = Front(moved)
    BY <1>4 DEF RemoveSRPolicy, Replaced
  <2>2. Min(old) \in 1 .. Len(all)
    BY <1>1, <1>4, WithPlspIsLeast
  <2>3. Last(all) = all[Len(all)] /\ Len(all) \in 1 .. Len(all)
    BY <1>1, <2>2 DEF Last
  <2>4. /\ Sequence(moved) /\ Len(moved) = Len(all)
        /\ \A j \in 1 .. Len(moved) :
              Names(held, moved[j].plsp, moved[j].key) /\ IsPolicy(moved[j])
        /\ \A j, k \in 1 .. (Len(all) - 1) : moved[j].plsp = moved[k].plsp => j = k
    <3> HIDE DEF all, old
    <3>1. /\ Sequence(moved) /\ Len(moved) = Len(all)
          /\ \A j \in 1 .. Len(all) : moved[j] = IF j = Min(old) THEN Last(all) ELSE all[j]
      BY <1>1, <2>2, SequenceReplaced
    <3> HIDE DEF moved
    <3> QED
      BY <1>1, <1>2, <2>3, <3>1
  <2>5. moved # <<>>
    BY <1>1, <2>2, <2>4
  <2> HIDE DEF moved
  <2>6. /\ Sequence(Front(moved)) /\ Len(Front(moved)) = Len(moved) - 1
        /\ \A j \in 1 .. Len(Front(moved)) : Front(moved)[j] = moved[j]
    BY <2>4, <2>5, SequenceFront
  <2> QED
    BY <1>1, <2>1, <2>4, <2>6, SMTT(30) DEF PoliciesFit
<1> QED
  BY <1>3, <1>4

LEMMA Requested ==
    ASSUME NEW held, NEW all, ToPCCFits(held, all), NEW m, MessageFits(held, m)
    PROVE  ToPCCFits(held, Append(all, m))
BY SequenceAppend, SequenceLen DEF ToPCCFits

LEMMA RequestTaken ==
    ASSUME NEW held, NEW all, ToPCCFits(held, all), all # <<>>
    PROVE  MessageFits(held, Head(all)) /\ ToPCCFits(held, Tail(all))
BY SequenceTail DEF ToPCCFits

LEMMA Reported ==
    ASSUME NEW held, NEW all, ToPCEFits(held, all), NEW m, ReportFits(held, m)
    PROVE  ToPCEFits(held, Append(all, m))
BY SequenceAppend, SequenceLen DEF ToPCEFits

LEMMA ReportTaken ==
    ASSUME NEW held, NEW all, ToPCEFits(held, all), all # <<>>
    PROVE  ReportFits(held, Head(all)) /\ ToPCEFits(held, Tail(all))
BY SequenceTail DEF ToPCEFits

(* A report of an LSP names it; that of its removal names nothing.         *)
LEMMA ReportNames ==
    ASSUME NEW held, NEW plsp, NEW lsp, Names(held, plsp, lsp.key), IsPolicy(lsp),
           NEW remove \in BOOLEAN
    PROVE  ReportFits(held, Report(plsp, lsp, remove))
BY DEF ReportFits, Report, Policy, IsPolicy, Describes

LEMMA RemovalReported ==
    ASSUME NEW held, NEW plsp, NEW lsp
    PROVE  ReportFits(held, Report(plsp, lsp, TRUE))
BY DEF ReportFits, Report

------------------------------------------------------------------------------
(* Steps of one call and of one session *)

LEMMA CallChanges ==
    ASSUME CallsFit, NEW c \in Calls, NEW new, CallFits(lsps, new),
           calls' = [calls EXCEPT ![c] = new], lsps' = lsps
    PROVE  CallsFit'
BY DEF CallsFit

LEMMA CallsLast ==
    ASSUME ListsFit, CallsFit, calls' = calls, Len(lsps') = Len(lsps),
           \A i \in 1 .. Len(lsps) : Grows(lsps[i], lsps'[i])
    PROVE  CallsFit'
<1> SUFFICES ASSUME NEW c \in Calls, CallFits(lsps, calls[c])
             PROVE  CallFits(lsps', calls[c])
  BY DEF CallsFit
<1> QED
  BY MessageLasts DEF CallFits

LEMMA SessionChanges ==
    ASSUME ListsFit, NEW i \in 1 .. Len(sessions), NEW s, NEW held,
           sessions' = Replaced(sessions, i, s), lsps' = Replaced(lsps, i, held),
           HeldFits(held), SessionFits(held, s)
    PROVE  ListsFit' /\ Len(lsps') = Len(lsps)
<1>1. /\ Sequence(sessions) /\ Sequence(lsps) /\ Len(lsps) = Len(sessions)
      /\ i \in 1 .. Len(lsps)
  BY DEF ListsFit
<1>2. /\ Sequence(sessions') /\ Len(sessions') = Len(sessions)
      /\ \A j \in 1 .. Len(sessions) : sessions'[j] = IF j = i THEN s ELSE sessions[j]
  BY <1>1, SequenceReplaced
<1>3. /\ Sequence(lsps') /\ Len(lsps') = Len(lsps)
      /\ \A j \in 1 .. Len(lsps) : lsps'[j] = IF j = i THEN held ELSE lsps[j]
  BY <1>1, SequenceReplaced
<1>4. \A j \in 1 .. Len(sessions') : HeldFits(lsps'[j]) /\ SessionFits(lsps'[j], sessions'[j])
  BY <1>1, <1>2, <1>3 DEF ListsFit
<1> QED
  BY <1>1, <1>2, <1>3, <1>4 DEF ListsFit

LEMMA SessionStep ==
    ASSUME IInv, NEW i \in 1 .. Len(sessions), NEW s, NEW held,
           sessions' = Replaced(sessions, i, s), lsps' = Replaced(lsps, i, held),
           calls' = calls, Grows(lsps[i], held), HeldFits(held), SessionFits(held, s)
    PROVE  IInv'
<1>1. ListsFit' /\ Len(lsps') = Len(lsps)
  BY SessionChanges DEF IInv
<1>2. ASSUME NEW j \in 1 .. Len(lsps)
      PROVE  Grows(lsps[j], lsps'[j])
  <2>1. Sequence(lsps) /\ Sequence(lsps[j]) /\ i \in 1 .. Len(lsps)
    BY DEF IInv, ListsFit, HeldFits
  <2>2. lsps'[j] = IF j = i THEN held ELSE lsps[j]
    BY <2>1, SequenceReplaced
  <2> QED
    BY <2>1, <2>2, GrowsByNothing
<1>3. CallsFit'
  BY <1>1, <1>2, CallsLast DEF IInv
<1> QED
  BY <1>1, <1>3 DEF IInv

------------------------------------------------------------------------------
(* Steps of calls *)

(* A call that is not about to send has no session yet.                    *)
LEMMA NotSending ==
    ASSUME NEW call, CallTyped(call), call.pc # "send"
    PROVE  CallFits(lsps, call)
BY DEF CallFits

LEMMA SearchFinds ==
    ASSUME IInv, NEW peer, SyncedWith(peer) # {}
    PROVE  SearchSession(peer) \in 1 .. Len(lsps)
<1>1. SyncedWith(peer) \subseteq 1 .. Len(lsps) /\ Len(lsps) \in Nat
  BY SequenceLen DEF SyncedWith, IInv, ListsFit
<1>2. SyncedWith(peer) \in SUBSET Nat
  BY <1>1
<1>3. Min(SyncedWith(peer)) \in SyncedWith(peer)
  BY <1>2, MinIsLeast
<1> QED
  BY <1>1, <1>3 DEF SearchSession

LEMMA Registry ==
    ASSUME IInv, NEW i \in 1 .. Len(lsps)
    PROVE  /\ Sequence(sessions[i].policies) /\ Len(sessions[i].policies) \in Nat
           /\ \A j \in 1 .. Len(sessions[i].policies) :
                 Names(lsps[i], sessions[i].policies[j].plsp, sessions[i].policies[j].key)
BY SequenceLen DEF IInv, ListsFit, SessionFits, PoliciesFit

(* A PLSP-ID of the registry names the policy it was found with.           *)
LEMMA FoundIsNamed ==
    ASSUME IInv, NEW i \in 1 .. Len(lsps), NEW key, WithKey(i, key) # {}
    PROVE  Names(lsps[i], SearchPlspID(i, key), key)
<1> DEFINE all == sessions[i].policies
           found == WithKey(i, key)
<1>1. \A j \in found : j \in 1 .. Len(all) /\ all[j].key = key
  BY DEF WithKey
<1>2. found \in SUBSET Nat
  BY <1>1, Registry
<1>3. Min(found) \in found
  BY <1>2, MinIsLeast
<1>4. SearchPlspID(i, key) = all[Min(found)].plsp
  BY DEF SearchPlspID
<1> QED
  BY <1>1, <1>3, <1>4, Registry

(* When none is found, no registered LSP has the color and endpoint.       *)
LEMMA NotFoundIsOther ==
    ASSUME IInv, NEW i \in 1 .. Len(lsps), NEW key, WithKey(i, key) = {}
    PROVE  Others(lsps[i], Known(i), key)
<1>1. \A j \in 1 .. Len(sessions[i].policies) : sessions[i].policies[j].key # key
  BY DEF WithKey
<1>2. ASSUME NEW p \in Known(i)
      PROVE  p \in 1 .. Len(lsps[i]) /\ (lsps[i][p] # NoLSP => lsps[i][p].key # key)
  <2>1. PICK j \in 1 .. Len(sessions[i].policies) : p = sessions[i].policies[j].plsp
    BY <1>2 DEF Known
  <2>2. Names(lsps[i], p, sessions[i].policies[j].key)
    BY <2>1, Registry
  <2> QED
    BY <1>1, <2>2 DEF Names
<1> QED
  BY <1>2 DEF Others

LEMMA MessageFields ==
    ASSUME NEW c, NEW kind, NEW plsp, NEW i
    PROVE  LET m == Message(c, kind, plsp, i)
           IN  /\ m.kind = kind /\ m.plsp = plsp /\ m.key = calls[c].key
               /\ m.list = calls[c].list
               /\ kind # "delete" => m.intent = resolveSRPolicyIntent(Req(c))
               /\ kind = "delete" => IsIntent(m.intent)
               /\ kind = "create" => m.beside = Known(i)
<1>1. PICK none : none = ""
  BY Zenon
<1>2. PICK nothing : nothing = [type |-> none, metric |-> none]
  OBVIOUS
<1>3. IsIntent(nothing)
  <2>1. nothing.type = none /\ nothing.metric = none
    BY <1>2
  <2> QED
    BY <1>1, <2>1, Zenon DEF IsIntent
<1>4. Message(c, kind, plsp, i) =
         [kind |-> kind, plsp |-> plsp, key |-> calls[c].key, list |-> calls[c].list,
          intent |-> IF kind = "delete" THEN nothing ELSE resolveSRPolicyIntent(Req(c)),
          beside |-> IF kind = "create" THEN Known(i) ELSE {}]
  BY <1>1, <1>2, Zenon DEF Message
<1> QED
  BY <1>3, <1>4

(* What is sent to create or update a policy, or to delete it.             *)
LEMMA MessageDescribes ==
    ASSUME IInv, NEW c \in Calls, calls[c].pc = "search", NEW kind, NEW plsp, NEW i,
           kind = "delete" \/ calls[c].kind = "create"
    PROVE  Describes(Message(c, kind, plsp, i))
<1>1. PICK m : m = Message(c, kind, plsp, i)
  OBVIOUS
<1>2. PICK call : call = calls[c]
  OBVIOUS
<1>3. CallTyped(call) /\ call.pc = "search" /\ Req(c) = call.req
  BY <1>2 DEF Req, IInv, CallsFit, CallFits
<1>4. /\ m.key = call.key /\ m.list = call.list
      /\ kind # "delete" => m.intent = resolveSRPolicyIntent(call.req)
      /\ kind = "delete" => IsIntent(m.intent)
  BY <1>1, <1>2, <1>3, MessageFields
<1> QED
  BY <1>1, <1>2, <1>3, <1>4 DEF CallTyped, Describes

LEMMA SendingFits ==
    ASSUME IInv, NEW c \in Calls, NEW i \in 1 .. Len(lsps), NEW m, MessageFits(lsps[i], m),
           Sending(c, i, m), UNCHANGED <<sessions, lsps>>
    PROVE  IInv'
<1> DEFINE new == [pc |-> "send", req |-> Req(c), seen |-> calls[c].seen,
                   session |-> i, message |-> m]
<1>1. "pc" \in DOMAIN new /\ new.pc = "send" /\ new.session = i /\ new.message = m
  OBVIOUS
<1>2. calls' = [calls EXCEPT ![c] = new]
  BY DEF Sending
<1> HIDE DEF new
<1>3. CallFits(lsps, new)
  BY <1>1 DEF CallFits, CallTyped, PCs
<1>4. CallsFit'
  BY <1>2, <1>3, CallChanges DEF IInv
<1> QED
  BY <1>4 DEF IInv, ListsFit

LEMMA OtherCallSteps ==
    ASSUME IInv, NEW c \in Calls, NEW new, CallTyped(new), new.pc # "send",
           calls' = [calls EXCEPT ![c] = new], UNCHANGED <<sessions, lsps>>
    PROVE  IInv'
<1>1. CallsFit'
  BY NotSending, CallChanges DEF IInv
<1> QED
  BY <1>1 DEF IInv, ListsFit

LEMMA RefuseFits ==
    ASSUME IInv, NEW c \in Calls, Refuse(c), UNCHANGED <<sessions, lsps>>
    PROVE  IInv'
<1>1. CallTyped(Ended) /\ Ended.pc # "send"
  BY DEF Ended, CallTyped, PCs
<1> QED
  BY <1>1, OtherCallSteps DEF Refuse

LEMMA BuiltFits ==
    ASSUME IInv, NEW c \in Calls, calls[c].pc = "build", NEW key, IsKey(key), NEW list, IsList(list),
           IsIntent(resolveSRPolicyIntent(Req(c))), Built(c, key, list),
           UNCHANGED <<sessions, lsps>>
    PROVE  IInv'
<1> DEFINE new == [pc |-> "validate", kind |-> "create", req |-> Req(c),
                   seen |-> calls[c].seen, key |-> key, list |-> list]
<1>1. /\ DOMAIN new = ListFields /\ new.pc = "validate" /\ new.list = list /\ new.req = Req(c)
      /\ new.key = key
  BY DEF ListFields, BuildFields
<1>2. calls' = [calls EXCEPT ![c] = new]
  BY DEF Built
<1>3. Req(c) \in CreateRequests
  BY DEF Req, IInv, CallsFit, CallFits, CallTyped
<1> HIDE DEF new
<1>4. CallTyped(new)
  BY <1>1, <1>3 DEF CallTyped, ListFields, BuildFields, PCs
<1> QED
  BY <1>1, <1>2, <1>4, OtherCallSteps

(* An update or a deletion of the policy that was found.                   *)
LEMMA FoundFits ==
    ASSUME IInv, NEW c \in Calls, calls[c].pc = "search", NEW peer, SyncedWith(peer) # {},
           WithKey(SearchSession(peer), calls[c].key) # {},
           NEW kind \in {"update", "delete"}, kind = "delete" \/ calls[c].kind = "create",
           Sending(c, SearchSession(peer),
                   Message(c, kind, SearchPlspID(SearchSession(peer), calls[c].key),
                           SearchSession(peer))),
           UNCHANGED <<sessions, lsps>>
    PROVE  IInv'
<1> DEFINE i == SearchSession(peer)
           key == calls[c].key
           plsp == SearchPlspID(i, key)
           m == Message(c, kind, plsp, i)
<1>1. i \in 1 .. Len(lsps)
  BY SearchFinds
<1>2. m.kind = kind /\ m.plsp = plsp /\ m.key = key /\ Describes(m)
  BY MessageFields, MessageDescribes
<1>3. Names(lsps[i], plsp, key)
  BY <1>1, FoundIsNamed
<1>4. Sending(c, i, m)
  OBVIOUS
<1> HIDE DEF m, i, key, plsp
<1>5. MessageFits(lsps[i], m)
  BY <1>2, <1>3 DEF MessageFits
<1> QED
  BY <1>1, <1>4, <1>5, SendingFits

LEMMA ParsedIsList ==
    ASSUME NEW list \in Seq(Segments), Parse(list)
    PROVE  IsList(list)
<1> SUFFICES ASSUME NEW k \in 1 .. Len(list) PROVE IsSegment(list[k])
  BY SequenceOf DEF IsList, Sequence
<1>1. list[k] \in Segments /\ list[k] # NotASID
  BY ElementOfSeq DEF Parse
<1>2. list[k] \in [family : {"mpls"}, sid : Nat] \cup {NotASID}
                  \cup [family : {"srv6"}, sid : STRING, declared : Nat]
  BY <1>1, RequestsAssumption
<1> QED
  BY <1>1, <1>2 DEF IsSegment

LEMMA SegmentTyped ==
    ASSUME NEW n \in LsNodes, NodeSegment(n) # NoSegment
    PROVE  IsSegment(NodeSegment(n))
<1>1. CASE WithSID(n) # {}
  <2>1. n.prefixes \in Seq(LsPrefixes) /\ n.begin \in Uint
    BY DEF LsNodes
  <2>2. WithSID(n) \in SUBSET (1 .. Len(n.prefixes))
    BY DEF WithSID
  <2>3. n.prefixes[Min(WithSID(n))] \in LsPrefixes
    BY <1>1, <2>1, <2>2, FirstOf
  <2>4. PICK i \in Uint : i = PrefixIndex(n)
    BY <2>3 DEF PrefixIndex, LsPrefixes
  <2>5. UintSpace \in Nat \ {0}
    BY TEDAssumption
  <2>6. n.begin \in Nat /\ i \in Nat
    BY <2>1, <2>5 DEF Uint
  <2>7. PICK label \in Nat : label = (n.begin + i) % UintSpace
    BY <2>5, <2>6
  <2>8. NodeSegment(n) = MPLS(label)
    BY <1>1, <2>4, <2>7 DEF NodeSegment
  <2> QED
    BY <2>8 DEF MPLS, IsSegment
<1>2. CASE WithSID(n) = {}
  <2>1. WithSRv6(n) # {}
    BY <1>2 DEF NodeSegment
  <2>2. PICK a \in STRING : a = SRv6Address(n)
    BY <2>1, SRv6AddressTyped
  <2>3. NodeSegment(n) = SRv6(a, a)
    BY <1>2, <2>1, <2>2 DEF NodeSegment
  <2> QED
    BY <2>3 DEF SRv6, IsSegment
<1> QED
  BY <1>1, <1>2

LEMMA ComputedIsList ==
    ASSUME TableInv, NEW r, NEW p \in PathsFor(r)
    PROVE  IsList(SegmentsAlong(p))
<1>1. TEDTypeOK /\ LinksPointIntoTED
  BY PublishedIsMerged, WellFormedTED, ListingMade DEF TableInv
<1>2. Cardinality(Routers) \in Nat
  BY <1>1, RoutersFinite
<1>3. PICK n \in 1 .. Cardinality(Routers) : p \in [1 .. n -> Routers]
  BY DEF PathsFor
<1>4. \A i \in 1 .. Len(p) : NodeSegment(Node(p[i])) # NoSegment
  BY DEF PathsFor
<1>5. n \in Nat \ {0} /\ Len(p) = n
  BY <1>2, <1>3, LenProperties, SeqDef
<1>6. PICK m \in Nat : m = n - 1
  BY <1>5
<1>7. PICK s : s = SegmentsAlong(p)
  OBVIOUS
<1>8. s = [i \in 1 .. m |-> NodeSegment(Node(p[i + 1]))]
  BY <1>5, <1>6, <1>7 DEF SegmentsAlong
<1>9. s = [i \in 1 .. m |-> s[i]]
  BY <1>8
<1>10. Len(s) = m /\ s \in Seq(Range(s))
  BY <1>9, SequenceByIndex DEF Sequence
<1>11. ASSUME NEW k \in 1 .. m PROVE IsSegment(s[k])
  <2>1. k + 1 \in 1 .. Len(p)
    BY <1>5, <1>6
  <2>2. NodeSegment(Node(p[k + 1])) # NoSegment
    BY <1>4, <2>1
  <2>3. s[k] = NodeSegment(Node(p[k + 1]))
    BY <1>8
  <2>4. p[k + 1] \in Routers
    BY <1>3, <1>5, <2>1
  <2>5. PICK n1 : n1 = Node(p[k + 1])
    OBVIOUS
  <2>6. n1 \in LsNodes
    BY <2>4, <2>5, NodeHolds
  <2> QED
    BY <2>2, <2>3, <2>5, <2>6, SegmentTyped
<1> QED
  BY <1>7, <1>10, <1>11 DEF IsList

LEMMA PairIsKey ==
    ASSUME NEW color \in Nat, NEW address
    PROVE  IsKey(<<color, address>>)
BY DEF IsKey

(* resolveSRPolicyIntent knows the type and the metric of what was built.  *)
LEMMA GivenIntent ==
    ASSUME NEW r, r.disablePathCompute \/ r.type = "explicit"
    PROVE  IsIntent(resolveSRPolicyIntent(r))
BY Zenon DEF resolveSRPolicyIntent, IsIntent

LEMMA DynamicIntent ==
    ASSUME NEW r, r.type = "dynamic", getMetricType(r.metric)
    PROVE  IsIntent(resolveSRPolicyIntent(r))
BY Zenon DEF resolveSRPolicyIntent, IsIntent, getMetricType

LEMMA CallStepFits ==
    ASSUME TableInv, IInv, NEW c \in Calls, CallStep(c), UNCHANGED <<sessions, lsps>>
    PROVE  IInv'
<1>1. ASSUME NEW r \in CreateRequests, StartCreate(c, r)
      PROVE  IInv'
  <2> DEFINE new == IF validateCreateSRPolicy(r)
                    THEN [pc |-> "build", kind |-> "create", req |-> r, seen |-> {source}]
                    ELSE Ended
  <2>1. CallTyped(new) /\ new.pc # "send"
    <3>1. CASE validateCreateSRPolicy(r)
      <4>1. DOMAIN new = BuildFields /\ new.pc = "build" /\ new.req = r
        BY <3>1 DEF BuildFields
      <4> HIDE DEF new
      <4> QED
        BY <4>1 DEF CallTyped, BuildFields, PCs
    <3>2. CASE ~validateCreateSRPolicy(r)
      BY <3>2 DEF Ended, CallTyped, PCs
    <3> QED
      BY <3>1, <3>2
  <2>2. calls' = [calls EXCEPT ![c] = new]
    BY <1>1 DEF StartCreate
  <2> HIDE DEF new
  <2> QED
    BY <2>1, <2>2, OtherCallSteps
<1>2. ASSUME NEW r \in DeleteRequests, StartDelete(c, r)
      PROVE  IInv'
  <2> DEFINE new == IF DeleteIsWellFormed(r) /\ Parse(r.segments)
                    THEN [pc |-> "search", kind |-> "delete", req |-> r, seen |-> {},
                          key |-> <<r.color, r.dstAddr>>, list |-> r.segments]
                    ELSE Ended
  <2>1. CallTyped(new) /\ new.pc # "send"
    <3>1. CASE DeleteIsWellFormed(r) /\ Parse(r.segments)
      <4>1. /\ DOMAIN new = ListFields /\ new.pc = "search" /\ new.list = r.segments
            /\ new.kind = "delete" /\ new.key = <<r.color, r.dstAddr>>
        BY <3>1 DEF ListFields, BuildFields
      <4>2. IsList(r.segments) /\ IsKey(<<r.color, r.dstAddr>>)
        BY <3>1, RequestsAssumption, ParsedIsList, PairIsKey
      <4> HIDE DEF new
      <4> QED
        BY <4>1, <4>2 DEF CallTyped, ListFields, BuildFields, PCs
    <3>2. CASE ~(DeleteIsWellFormed(r) /\ Parse(r.segments))
      BY <3>2 DEF Ended, CallTyped, PCs
    <3> QED
      BY <3>1, <3>2
  <2>2. calls' = [calls EXCEPT ![c] = new]
    BY <1>2 DEF StartDelete
  <2> HIDE DEF new
  <2> QED
    BY <2>1, <2>2, OtherCallSteps
<1>3. CASE UseGivenList(c)
  <2>1. Req(c) \in CreateRequests
    BY <1>3 DEF UseGivenList, Req, IInv, CallsFit, CallFits, CallTyped
  <2>2. Parse(Req(c).segments) => IsList(Req(c).segments)
    BY <2>1, RequestsAssumption, ParsedIsList
  <2>3. IsKey(<<Req(c).color, Req(c).dstAddr>>)
    BY <2>1, RequestsAssumption, PairIsKey
  <2>4. IsIntent(resolveSRPolicyIntent(Req(c)))
    BY <1>3, GivenIntent DEF UseGivenList
  <2> QED
    BY <1>3, <2>2, <2>3, <2>4, BuiltFits, RefuseFits DEF UseGivenList
<1>4. CASE BuildSegmentList(c)
  <2>1. Req(c) \in CreateRequests
    BY <1>4 DEF BuildSegmentList, Req, IInv, CallsFit, CallFits, CallTyped
  <2>2. Explicit(Req(c)) => IsList(Req(c).segments)
    BY <2>1, RequestsAssumption, ParsedIsList DEF Explicit
  <2>3. \A p \in PathsFor(Req(c)) : IsList(SegmentsAlong(p))
    BY ComputedIsList
  <2>4. IsKey(<<Req(c).color, LoopbackAddr(Req(c).dstRouter)>>)
    BY <2>1, RequestsAssumption, PairIsKey
  <2>5. Explicit(Req(c)) \/ Dynamic(Req(c)) => IsIntent(resolveSRPolicyIntent(Req(c)))
    BY GivenIntent, DynamicIntent DEF Explicit, Dynamic
  <2> QED
    BY <1>4, <2>2, <2>3, <2>4, <2>5, BuiltFits, RefuseFits DEF BuildSegmentList
<1>5. CASE ValidateSIDs(c)
  <2> DEFINE new == [calls[c] EXCEPT !.pc = "search"]
  <2>1. /\ DOMAIN calls[c] = ListFields /\ IsKey(calls[c].key) /\ IsList(calls[c].list)
        /\ calls[c].kind = "create" => IsIntent(resolveSRPolicyIntent(calls[c].req))
    BY <1>5 DEF IInv, CallsFit, CallFits, CallTyped, ValidateSIDs
  <2>4. /\ DOMAIN new = ListFields /\ new.pc = "search" /\ new.list = calls[c].list
        /\ new.key = calls[c].key /\ new.kind = calls[c].kind /\ new.req = calls[c].req
    BY <2>1 DEF ListFields, BuildFields
  <2>3. Refuse(c) \/ calls' = [calls EXCEPT ![c] = new]
    BY <1>5 DEF ValidateSIDs
  <2> HIDE DEF new
  <2>2. CallTyped(new)
    BY <2>1, <2>4 DEF CallTyped, ListFields, BuildFields, PCs
  <2> QED
    BY <2>2, <2>3, <2>4, OtherCallSteps, RefuseFits
<1>6. CASE SearchForCreate(c)
  <2> DEFINE peer == Req(c).session
             i == SearchSession(peer)
             key == calls[c].key
  <2>1. CASE SyncedWith(peer) = {}
    BY <1>6, <2>1, RefuseFits DEF SearchForCreate
  <2>2. CASE SyncedWith(peer) # {} /\ WithKey(i, key) = {}
    <3> DEFINE m == Message(c, "create", 0, i)
    <3>1. i \in 1 .. Len(lsps)
      BY <2>2, SearchFinds
    <3>2. Sending(c, i, m)
      BY <1>6, <2>2 DEF SearchForCreate
    <3>3. m.kind = "create" /\ m.plsp = 0 /\ m.key = key /\ m.beside = Known(i)
      BY MessageFields
    <3>6. Describes(m)
      BY <1>6, MessageDescribes DEF SearchForCreate
    <3>4. Others(lsps[i], Known(i), key)
      BY <2>2, <3>1, NotFoundIsOther
    <3> HIDE DEF m, i, key
    <3>5. MessageFits(lsps[i], m)
      BY <3>3, <3>4, <3>6 DEF MessageFits
    <3> QED
      BY <3>1, <3>2, <3>5, SendingFits
  <2>3. CASE SyncedWith(peer) # {} /\ WithKey(i, key) # {}
    <3>1. Sending(c, i, Message(c, "update", SearchPlspID(i, key), i))
      BY <1>6, <2>3 DEF SearchForCreate
    <3>2. calls[c].pc = "search" /\ calls[c].kind = "create"
      BY <1>6 DEF SearchForCreate
    <3> QED
      BY <2>3, <3>1, <3>2, FoundFits
  <2> QED
    BY <2>1, <2>2, <2>3
<1>7. CASE SearchForDelete(c)
  <2> DEFINE peer == Req(c).session
             i == SearchSession(peer)
             key == calls[c].key
  <2>1. CASE SyncedWith(peer) = {} \/ WithKey(i, key) = {}
    BY <1>7, <2>1, RefuseFits DEF SearchForDelete
  <2>2. CASE SyncedWith(peer) # {} /\ WithKey(i, key) # {}
    <3>1. Sending(c, i, Message(c, "delete", SearchPlspID(i, key), i))
      BY <1>7, <2>2 DEF SearchForDelete
    <3>2. calls[c].pc = "search"
      BY <1>7 DEF SearchForDelete
    <3> QED
      BY <2>2, <3>1, <3>2, FoundFits
  <2> QED
    BY <2>1, <2>2
<1> QED
  BY <1>1, <1>2, <1>3, <1>4, <1>5, <1>6, <1>7 DEF CallStep

------------------------------------------------------------------------------
(* Steps of sessions and PCCs *)

(* One session with the LSPs of its PCC.                                   *)
LEMMA OneSession ==
    ASSUME IInv, NEW i \in 1 .. Len(sessions)
    PROVE  /\ Sequence(sessions) /\ Sequence(lsps) /\ i \in 1 .. Len(lsps)
           /\ HeldFits(lsps[i]) /\ Sequence(lsps[i])
           /\ SessionFits(lsps[i], sessions[i])
BY DEF IInv, ListsFit, HeldFits

LEMMA SameLSPs ==
    ASSUME IInv, NEW i \in 1 .. Len(sessions)
    PROVE  Replaced(lsps, i, lsps[i]) = lsps
BY OneSession DEF Replaced, Sequence

LEMMA SendFits ==
    ASSUME IInv, NEW c \in Calls, Send(c)
    PROVE  IInv'
<1> DEFINE i == calls[c].session
           m == calls[c].message
           s == [sessions[i] EXCEPT !.toPCC = Append(@, m)]
<1>1. i \in 1 .. Len(sessions) /\ MessageFits(lsps[i], m)
  BY DEF Send, IInv, ListsFit, CallsFit, CallFits
<1>2. SessionFits(lsps[i], sessions[i]) /\ HeldFits(lsps[i])
  BY <1>1, OneSession
<1>3. ToPCCFits(lsps[i], Append(sessions[i].toPCC, m))
  BY <1>1, <1>2, Requested DEF SessionFits
<1>4. SessionFits(lsps[i], s)
  BY <1>2, <1>3 DEF SessionFits, SessionFields
<1>5. sessions' = Replaced(sessions, i, s)
  BY DEF Send, Replaced
<1>6. lsps' = Replaced(lsps, i, lsps[i])
  BY <1>1, SameLSPs DEF Send
<1> HIDE DEF s
<1>7. ListsFit'
  BY <1>1, <1>2, <1>4, <1>5, <1>6, SessionChanges DEF IInv
<1>8. CallFits(lsps, Ended)
  BY NotSending DEF Ended, CallTyped, PCs
<1>9. CallsFit'
  BY <1>8, CallChanges DEF IInv, Send
<1> QED
  BY <1>7, <1>9 DEF IInv

LEMMA SendFailsFits ==
    ASSUME IInv, NEW c \in Calls, SendFails(c)
    PROVE  IInv'
BY RefuseFits DEF SendFails, sessionVars

LEMMA AnswersFit ==
    ASSUME IInv, NEW i \in 1 .. Len(sessions), sessions[i].toPCC # <<>>, calls' = calls,
           NEW plsp, NEW lsp, NEW remove, NEW held, Answers(i, plsp, lsp, remove, held),
           Grows(lsps[i], held), HeldFits(held), ReportFits(held, Report(plsp, lsp, remove))
    PROVE  IInv'
<1> DEFINE s0 == sessions[i]
           s == [s0 EXCEPT !.toPCC = Tail(@), !.toPCE = Append(@, Report(plsp, lsp, remove))]
<1>1. SessionFits(lsps[i], s0)
  BY OneSession
<1>2. PoliciesFit(held, s0.policies)
  BY <1>1, PoliciesLast DEF SessionFits
<1>3. ToPCCFits(held, Tail(s0.toPCC))
  BY <1>1, ToPCCLasts, RequestTaken DEF SessionFits
<1>4. ToPCEFits(held, Append(s0.toPCE, Report(plsp, lsp, remove)))
  BY <1>1, ToPCELasts, Reported DEF SessionFits
<1>5. SessionFits(held, s)
  BY <1>1, <1>2, <1>3, <1>4 DEF SessionFits, SessionFields
<1>6. sessions' = Replaced(sessions, i, s) /\ lsps' = Replaced(lsps, i, held)
  BY DEF Answers, Replaced
<1> HIDE DEF s
<1> QED
  BY <1>5, <1>6, SessionStep

LEMMA PCCAnswersFit ==
    ASSUME IInv, NEW i \in 1 .. Len(sessions), PCCAnswers(i), calls' = calls
    PROVE  IInv'
<1> DEFINE held == lsps[i]
           m == Head(sessions[i].toPCC)
           lsp == LSP(m.key, m.list, m.intent, m.beside)
           old == held[m.plsp]
           new == [old EXCEPT !.list = m.list, !.intent = m.intent]
<1>1. /\ HeldFits(held) /\ SessionFits(held, sessions[i]) /\ sessions[i].toPCC # <<>>
      /\ Sequence(held) /\ Len(held) \in Nat
  BY OneSession, SequenceLen DEF PCCAnswers
<1>2. MessageFits(held, m) /\ ToPCCFits(held, Tail(sessions[i].toPCC))
  BY <1>1, RequestTaken DEF SessionFits
<1>3. CASE m.kind = "create" /\ Answers(i, Len(held) + 1, lsp, FALSE, Append(held, lsp))
  <2> DEFINE after == Append(held, lsp)
  <2>1. Others(held, m.beside, m.key)
    BY <1>2, <1>3 DEF MessageFits
  <2>4. IsKey(m.key) /\ IsList(m.list) /\ IsIntent(m.intent)
    BY <1>2 DEF MessageFits, Describes
  <2>2. /\ Grows(held, after) /\ HeldFits(after) /\ IsPolicy(lsp)
        /\ Names(after, Len(held) + 1, lsp.key)
    BY <1>1, <2>1, <2>4, Created
  <2>3. ReportFits(after, Report(Len(held) + 1, lsp, FALSE))
    BY <2>2, ReportNames
  <2> HIDE DEF after
  <2> QED
    BY <1>1, <1>3, <2>2, <2>3, AnswersFit DEF after
<1>4. ASSUME m.kind = "update", PCCHolds(i, m.plsp),
             Answers(i, m.plsp, new, FALSE, [held EXCEPT ![m.plsp] = new])
      PROVE  IInv'
  <2> DEFINE after == Replaced(held, m.plsp, new)
  <2>1. m.plsp \in 1 .. Len(held) /\ old # NoLSP
    BY <1>4 DEF PCCHolds
  <2>2. IsLSP(old)
    BY <1>1, <2>1 DEF HeldFits
  <2>9. IsList(m.list) /\ IsIntent(m.intent)
    BY <1>2 DEF MessageFits, Describes
  <2>3. new.key = old.key /\ new.beside = old.beside /\ IsLSP(new)
    <3>1. /\ DOMAIN new = LSPFields /\ new.key = old.key /\ new.beside = old.beside
          /\ new.list = m.list /\ new.intent = m.intent /\ new.state = old.state
      BY <2>2 DEF IsLSP, LSPFields
    <3> HIDE DEF new, old, m
    <3> QED
      BY <2>2, <2>9, <3>1 DEF IsLSP, IsPolicy, Describes
  <2> HIDE DEF new
  <2>4. Grows(held, after) /\ HeldFits(after)
    BY <1>1, <2>1, <2>3, Changed
  <2>5. after[m.plsp] = new /\ Len(after) = Len(held)
    BY <1>1, <2>1, SequenceReplaced
  <2>6. Names(after, m.plsp, new.key)
    BY <2>1, <2>5 DEF Names
  <2>7. ReportFits(after, Report(m.plsp, new, FALSE))
    BY <2>3, <2>6, ReportNames DEF IsLSP
  <2>8. Answers(i, m.plsp, new, FALSE, after)
    BY <1>4 DEF Replaced
  <2> HIDE DEF after
  <2> QED
    BY <1>1, <2>4, <2>7, <2>8, AnswersFit
<1>5. ASSUME PCCHolds(i, m.plsp),
             Answers(i, m.plsp, old, TRUE, [held EXCEPT ![m.plsp] = NoLSP])
      PROVE  IInv'
  <2> DEFINE after == Replaced(held, m.plsp, NoLSP)
  <2>1. m.plsp \in 1 .. Len(held)
    BY <1>5 DEF PCCHolds
  <2>2. Grows(held, after) /\ HeldFits(after)
    BY <1>1, <2>1, Changed
  <2>3. ReportFits(after, Report(m.plsp, old, TRUE))
    BY RemovalReported
  <2>4. Answers(i, m.plsp, old, TRUE, after)
    BY <1>5 DEF Replaced
  <2> HIDE DEF after
  <2> QED
    BY <1>1, <2>2, <2>3, <2>4, AnswersFit
<1>6. ASSUME sessions' = [sessions EXCEPT ![i].toPCC = Tail(@)], lsps' = lsps
      PROVE  IInv'
  <2> DEFINE s == [sessions[i] EXCEPT !.toPCC = Tail(@)]
  <2>1. SessionFits(held, s)
    BY <1>1, <1>2 DEF SessionFits, SessionFields
  <2>2. sessions' = Replaced(sessions, i, s) /\ lsps' = Replaced(lsps, i, held)
    BY <1>6, SameLSPs DEF Replaced
  <2> HIDE DEF s
  <2> QED
    BY <1>1, <2>1, <2>2, GrowsByNothing, SessionStep
<1> QED
  BY <1>3, <1>4, <1>5, <1>6 DEF PCCAnswers

LEMMA PCCRemovesFits ==
    ASSUME IInv, NEW i \in 1 .. Len(sessions), NEW plsp, PCCRemoves(i, plsp), calls' = calls
    PROVE  IInv'
<1> DEFINE held == lsps[i]
           after == Replaced(held, plsp, NoLSP)
           s0 == sessions[i]
           s == [s0 EXCEPT !.toPCE = Append(@, Report(plsp, held[plsp], TRUE))]
<1>1. HeldFits(held) /\ SessionFits(held, s0) /\ plsp \in 1 .. Len(held)
  BY OneSession DEF PCCRemoves, PCCHolds
<1>2. Grows(held, after) /\ HeldFits(after)
  BY <1>1, Changed
<1>3. sessions' = Replaced(sessions, i, s) /\ lsps' = Replaced(lsps, i, after)
  BY DEF PCCRemoves, Replaced
<1> HIDE DEF after
<1>4. PoliciesFit(after, s0.policies) /\ ToPCCFits(after, s0.toPCC)
  BY <1>1, <1>2, PoliciesLast, ToPCCLasts DEF SessionFits
<1>5. ToPCEFits(after, Append(s0.toPCE, Report(plsp, held[plsp], TRUE)))
  BY <1>1, <1>2, ToPCELasts, Reported, RemovalReported DEF SessionFits
<1>6. SessionFits(after, s)
  BY <1>1, <1>4, <1>5 DEF SessionFits, SessionFields
<1> HIDE DEF s
<1> QED
  BY <1>2, <1>3, <1>6, SessionStep

LEMMA ReadReportFits ==
    ASSUME IInv, NEW i \in 1 .. Len(sessions), ReadReport(i), calls' = calls
    PROVE  IInv'
<1> DEFINE held == lsps[i]
           s0 == sessions[i]
           m == Head(s0.toPCE)
           policies == HandleStateReport(i, m)
           synced == IF m.kind = "endOfSync" THEN TRUE ELSE s0.synced
           s == [s0 EXCEPT !.toPCE = Tail(@), !.synced = synced, !.policies = policies]
<1>1. /\ HeldFits(held) /\ Sequence(held) /\ SessionFits(held, s0)
      /\ s0.toPCE # <<>>
  BY OneSession DEF ReadReport
<1>2. ReportFits(held, m) /\ ToPCEFits(held, Tail(s0.toPCE))
  BY <1>1, ReportTaken DEF SessionFits
<1>3. PoliciesFit(held, policies)
  <2>1. PoliciesFit(held, s0.policies)
    BY <1>1 DEF SessionFits
  <2>2. m.kind = "report" => PoliciesFit(held, RegisterSRPolicy(i, m.policy))
    BY <1>2, <2>1, Registered DEF ReportFits
  <2>3. PoliciesFit(held, RemoveSRPolicy(i, m.plsp))
    BY <2>1, Removed
  <2>4. m.kind \in {"report", "remove", "endOfSync"}
    BY <1>2 DEF ReportFits
  <2> QED
    BY <2>1, <2>2, <2>3, <2>4 DEF HandleStateReport
<1>4. sessions' = [sessions EXCEPT ![i] = s]
  BY DEF ReadReport
<1>10. synced \in BOOLEAN
  BY <1>1 DEF SessionFits
<1> HIDE DEF synced, policies
<1>5. DOMAIN s0 = SessionFields
  BY <1>1 DEF SessionFits
<1>6. /\ DOMAIN s = SessionFields /\ s.toPCC = s0.toPCC /\ s.toPCE = Tail(s0.toPCE)
      /\ s.policies = policies /\ s.synced = synced
  BY <1>5 DEF SessionFields
<1> HIDE DEF s
<1>7. sessions' = Replaced(sessions, i, s)
  BY <1>4 DEF Replaced
<1>8. lsps' = Replaced(lsps, i, held)
  BY SameLSPs DEF ReadReport
<1>9. SessionFits(held, s)
  BY <1>1, <1>2, <1>3, <1>6, <1>10 DEF SessionFits
<1> QED
  BY <1>1, <1>7, <1>8, <1>9, GrowsByNothing, SessionStep

------------------------------------------------------------------------------
(* The initial states, and every step *)

LEMMA InitialSession ==
    ASSUME NEW all \in SessionLists, NEW i \in 1 .. Len(all)
    PROVE  LET held == all[i].held
           IN  /\ HeldFits(held)
               /\ SessionFits(held, Session(all[i].peer, all[i].synced, held))
<1> DEFINE held == all[i].held
           policies == [p \in 1 .. Len(held) |-> Policy(p, held[p])]
           reports == [p \in 1 .. Len(held) |-> Report(p, held[p], FALSE)]
           s == Session(all[i].peer, all[i].synced, held)
<1>1. /\ Sequence(held) /\ Len(held) \in Nat
      /\ \A p \in 1 .. Len(held) : IsLSP(held[p]) /\ held[p].beside = {}
      /\ all[i].synced \in BOOLEAN
  BY SessionListsAssumption, SequenceLen DEF Sequence
<1> HIDE DEF held
<1>2. HeldFits(held)
  BY <1>1 DEF HeldFits, Others
<1>3. PoliciesFit(held, <<>>) /\ ToPCCFits(held, <<>>) /\ ToPCEFits(held, <<>>)
  BY DEF PoliciesFit, ToPCCFits, ToPCEFits, Sequence
<1>4. \A p \in 1 .. Len(held) : Names(held, p, held[p].key)
  BY DEF Names
<1>5. PoliciesFit(held, policies)
  <2>1. Sequence(policies) /\ Len(policies) = Len(held)
    BY <1>1, SequenceByIndex
  <2>2. \A p \in 1 .. Len(held) : /\ policies[p].plsp = p /\ policies[p].key = held[p].key
                                   /\ IsPolicy(policies[p])
    BY <1>1 DEF Policy, IsLSP, IsPolicy, Describes
  <2> HIDE DEF policies
  <2> QED
    BY <1>1, <1>4, <2>1, <2>2 DEF PoliciesFit
<1>6. ToPCEFits(held, Append(reports, EndOfSync))
  <2>1. Sequence(reports) /\ Len(reports) = Len(held)
    BY <1>1, SequenceByIndex
  <2>2. \A p \in 1 .. Len(held) : ReportFits(held, reports[p])
    BY <1>1, <1>4, ReportNames DEF IsLSP
  <2> HIDE DEF reports
  <2>3. ToPCEFits(held, reports)
    BY <2>1, <2>2 DEF ToPCEFits
  <2>4. ReportFits(held, EndOfSync)
    BY DEF ReportFits, EndOfSync
  <2> QED
    BY <2>3, <2>4, Reported
<1>7. /\ DOMAIN s = SessionFields /\ s.toPCC = <<>> /\ s.synced = all[i].synced
      /\ s.policies = IF all[i].synced THEN policies ELSE <<>>
      /\ s.toPCE = IF all[i].synced THEN <<>> ELSE Append(reports, EndOfSync)
  BY DEF Session, SessionFields
<1> HIDE DEF s, policies, reports
<1>8. SessionFits(held, s)
  BY <1>1, <1>3, <1>5, <1>6, <1>7 DEF SessionFits
<1> QED
  BY <1>2, <1>8 DEF held, s

LEMMA InitFits == Init => IInv
<1> SUFFICES ASSUME Init PROVE IInv
  OBVIOUS
<1>1. PICK all \in SessionLists :
         /\ sessions = [i \in 1 .. Len(all) |-> Session(all[i].peer, all[i].synced, all[i].held)]
         /\ lsps = [i \in 1 .. Len(all) |-> all[i].held]
  BY DEF Init
<1>2. Len(all) \in Nat
  BY SessionListsAssumption, SequenceLen DEF Sequence
<1>3. Sequence(sessions) /\ Len(sessions) = Len(all)
  BY <1>1, <1>2, SequenceByIndex
<1>4. Sequence(lsps) /\ Len(lsps) = Len(all)
  BY <1>1, <1>2, SequenceByIndex
<1>5. ListsFit
  BY <1>1, <1>3, <1>4, InitialSession DEF ListsFit
<1>6. CallsFit
  BY NotSending DEF Init, Idle, CallsFit, CallTyped, PCs
<1> QED
  BY <1>5, <1>6 DEF IInv

LEMMA PublishFits ==
    ASSUME IInv, Publish
    PROVE  IInv'
<1>1. lsps' = lsps /\ sessions' = sessions
  BY DEF Publish, sessionVars
<1>2. DOMAIN calls' = Calls
  BY DEF Publish
<1>3. ASSUME NEW c \in Calls
      PROVE  CallFits(lsps, calls'[c])
  <2>1. CallFits(lsps, calls[c]) /\ CallTyped(calls[c])
    BY DEF IInv, CallsFit, CallFits
  <2>2. CASE calls[c].pc \in {"build", "validate"}
    <3>1. calls'[c] = [calls[c] EXCEPT !.seen = @ \cup {source'}]
      BY <2>2 DEF Publish
    <3>2. PICK old, new : old = calls[c] /\ new = calls'[c]
      OBVIOUS
    <3>3. new = [old EXCEPT !.seen = new.seen] /\ old.pc \in {"build", "validate"}
      <4>1. "seen" \in DOMAIN old
        BY <2>1, <2>2, <3>2 DEF CallTyped, ListFields, BuildFields
      <4> QED
        BY <2>2, <3>1, <3>2, <4>1
    <3>4. CallTyped(old)
      BY <2>1, <3>2
    <3>5. CallTyped(new) /\ new.pc # "send"
      <4>1. CASE old.pc = "build"
        BY <3>3, <3>4, <4>1 DEF CallTyped, BuildFields
      <4>2. CASE old.pc = "validate"
        BY <3>3, <3>4, <4>2 DEF CallTyped, ListFields, BuildFields
      <4> QED
        BY <3>3, <4>1, <4>2
    <3> QED
      BY <3>2, <3>5, NotSending
  <2>3. CASE calls[c].pc \notin {"build", "validate"}
    <3>1. calls'[c] = calls[c]
      BY <2>3 DEF Publish
    <3> QED
      BY <2>1, <3>1
  <2> QED
    BY <2>2, <2>3
<1>4. CallsFit'
  BY <1>1, <1>2, <1>3 DEF CallsFit
<1> QED
  BY <1>1, <1>4 DEF IInv, ListsFit

LEMMA InitialTable == Init => TableInv
<1> SUFFICES ASSUME Init PROVE TableInv
  OBVIOUS
<1>1. /\ table \in Tables /\ source = <<>> /\ changes = 0
      /\ listing = <<>> /\ applied = 0 /\ ted = EmptyTED
  BY DEF Init, TableInit
<1>2. GetBGPlsNLRIs(<<>>) = <<>>
  <2>1. PICK parts : parts = [i \in 1 .. Len(<<>>) |->
                                IF Refuses(<<>>[i]) THEN <<>> ELSE ConvertToTEDElem(<<>>[i])]
    OBVIOUS
  <2>2. parts = <<>>
    BY <2>1
  <2> QED
    BY <2>1, <2>2 DEF GetBGPlsNLRIs, FlattenSeq
<1>3. BuildTED(listing) = EmptyTED
  BY <1>1, BuiltOneByOne
<1>4. Fetches(<<>>)
  BY DEF Fetches
<1>5. 0 \in 0 .. MaxChanges
  BY TablesAssumption
<1> QED
  BY <1>1, <1>2, <1>3, <1>4, <1>5 DEF TableInv

LEMMA TableStep == TableInv /\ [Next]_vars => TableInv'
<1> SUFFICES ASSUME TableInv, [Next]_vars PROVE TableInv'
  OBVIOUS
<1>1. ASSUME UNCHANGED <<tedVars, tableVars>>
      PROVE  TableInv'
  BY <1>1 DEF TableInv, tedVars, tableVars
<1>2. CASE TableChanges
  BY <1>2, TablesAssumption DEF TableChanges, TableInv, tedVars
<1>3. CASE FetchAndPublish
  BY <1>3 DEF FetchAndPublish, TableInv
<1> QED
  BY <1>1, <1>2, <1>3 DEF Next, Publish, vars

LEMMA TableInvariant == Spec => []TableInv
BY InitialTable, TableStep, PTL DEF Spec

(* For every table, every number of updates and any order in which they    *)
(* come: a client shows the routers, the ranges, the links, the prefixes   *)
(* and the SRv6 SIDs that the table the TED was built from announces.      *)
THEOREM ClientShowsWhatWasAnnounced == Spec => []ClientShowsTable
BY TableInvariant, TableIsShown, PTL

LEMMA StepFits == TableInv /\ IInv /\ [Next]_vars => IInv'
<1> SUFFICES ASSUME TableInv, IInv, [Next]_vars PROVE IInv'
  OBVIOUS
<1>1. ASSUME UNCHANGED <<sessions, lsps, calls>>
      PROVE  IInv'
  BY <1>1 DEF IInv, ListsFit, CallsFit
<1>2. CASE TableChanges /\ UNCHANGED <<sessionVars, calls>>
  BY <1>1, <1>2 DEF sessionVars
<1>3. CASE Publish
  BY <1>3, PublishFits
<1>4. ASSUME NEW c \in Calls, CallStep(c), UNCHANGED sessionVars
      PROVE  IInv'
  BY <1>4, CallStepFits DEF sessionVars
<1>5. ASSUME NEW c \in Calls, Send(c) \/ SendFails(c)
      PROVE  IInv'
  BY <1>5, SendFits, SendFailsFits
<1>6. ASSUME NEW i \in 1 .. Len(sessions), UNCHANGED calls,
             \/ PCCAnswers(i)
             \/ ReadReport(i)
             \/ \E plsp \in 1 .. Len(lsps[i]) : PCCRemoves(i, plsp)
      PROVE  IInv'
  BY <1>6, PCCAnswersFit, ReadReportFits, PCCRemovesFits
<1>7. CASE UNCHANGED vars
  BY <1>1, <1>7 DEF vars, sessionVars
<1> QED
  BY <1>2, <1>3, <1>4, <1>5, <1>6, <1>7 DEF Next

LEMMA Invariant == Spec => []IInv
BY TableInvariant, InitFits, StepFits, PTL DEF Spec

------------------------------------------------------------------------------
(* The theorems *)

LEMMA HitTheirPolicy == IInv => RequestsHitTheirPolicy
<1> SUFFICES ASSUME IInv, NEW i \in 1 .. Len(sessions), NEW k \in 1 .. Len(sessions[i].toPCC),
                    sessions[i].toPCC[k].kind # "create",
                    PCCHolds(i, sessions[i].toPCC[k].plsp)
             PROVE  lsps[i][sessions[i].toPCC[k].plsp].key = sessions[i].toPCC[k].key
  BY DEF RequestsHitTheirPolicy
<1>1. MessageFits(lsps[i], sessions[i].toPCC[k])
  BY OneSession DEF SessionFits, ToPCCFits
<1> QED
  BY <1>1 DEF MessageFits, Names, PCCHolds

(* An update or a deletion reaches an LSP of the color and endpoint it was *)
(* made for, or none, however late: whatever reports were handled between  *)
(* the search and the sending and whatever the PCC removed meanwhile.      *)
THEOREM RequestsReachTheirPolicies == Spec => []RequestsHitTheirPolicy
BY Invariant, HitTheirPolicy, PTL

LEMMA NeedOverlap == IInv => DuplicatesNeedOverlap
<1> SUFFICES ASSUME IInv, NEW i \in 1 .. Len(lsps),
                    NEW p \in 1 .. Len(lsps[i]), NEW q \in 1 .. Len(lsps[i]),
                    PCCHolds(i, p), PCCHolds(i, q), lsps[i][p].key = lsps[i][q].key,
                    p \in lsps[i][q].beside
             PROVE  FALSE
  BY DEF DuplicatesNeedOverlap
<1>1. HeldFits(lsps[i])
  BY DEF IInv, ListsFit
<1>2. Others(lsps[i], lsps[i][q].beside, lsps[i][q].key)
  BY <1>1 DEF HeldFits, PCCHolds
<1> QED
  BY <1>2 DEF Others, PCCHolds

(* Two LSPs of one color and endpoint only come from calls that overlap:   *)
(* the second was asked for before the first one was registered.           *)
THEOREM DuplicatesComeFromOverlap == Spec => []DuplicatesNeedOverlap
BY Invariant, NeedOverlap, PTL

------------------------------------------------------------------------------
(* What a call found on the TED.  A table it saw announced the endpoint as *)
(* soon as it has one, and the segments once they are validated; while it  *)
(* still looks at the TED, the published table is among those it saw.      *)

Computed(r) == r.type = "dynamic" /\ ~r.disablePathCompute
EndpointSeen(r, seen, key) ==
    r.disablePathCompute \/ \E t \in seen : AnnouncesHost(t, r.dstRouter, key[2])
ListSeen(r, seen, list) ==
    /\ Cardinality({list[k].family : k \in 1 .. Len(list)}) <= 1
    /\ \A k \in 1 .. Len(list) : list[k].family = "mpls" => list[k].sid <= MPLSLabelMax
    /\ Computed(r) \/ r.noSIDValidate
          \/ \E t \in seen : \A k \in 1 .. Len(list) : Announces(t, list[k])

CallSaw(call) ==
    /\ call.pc \in {"build", "validate"} => source \in call.seen
    /\ call.pc = "validate" =>
          /\ EndpointSeen(call.req, call.seen, call.key)
          /\ Computed(call.req) \/ call.list = call.req.segments
    /\ call.pc = "search" /\ call.kind = "create" =>
          /\ EndpointSeen(call.req, call.seen, call.key)
          /\ ListSeen(call.req, call.seen, call.list)
    /\ call.pc = "send" => sessions[call.session].synced
    /\ call.pc = "send" /\ call.message.kind # "delete" =>
          /\ EndpointSeen(call.req, call.seen, call.message.key)
          /\ ListSeen(call.req, call.seen, call.message.list)
CallsSaw == \A call \in {calls[c] : c \in Calls} : CallSaw(call)

ConfigInv ==
    /\ <<tedEnabled, usidMode>> \in Configurations
    /\ ~tedEnabled => source = <<>>
    /\ removals \in 0 .. MaxRemovals

LEMMA FewFamilies ==
    ASSUME NEW list, IsList(list), ~HasMixedSegmentTypes(list)
    PROVE  Cardinality({list[k].family : k \in 1 .. Len(list)}) <= 1
<1> DEFINE F == {list[k].family : k \in 1 .. Len(list)}
<1>1. F \subseteq {"mpls", "srv6"}
  BY DEF IsList, IsSegment
<1>2. IsFiniteSet({"mpls", "srv6"})
  <2>1. IsFiniteSet({} \cup {"mpls"})
    BY FS_AddElement, FS_EmptySet
  <2>2. IsFiniteSet(({} \cup {"mpls"}) \cup {"srv6"})
    BY <2>1, FS_AddElement
  <2>3. {"mpls", "srv6"} = ({} \cup {"mpls"}) \cup {"srv6"}
    OBVIOUS
  <2> QED
    BY <2>2, <2>3
<1>3. Cardinality(F) \in Nat
  BY <1>1, <1>2, FS_Subset, FS_CardinalityType
<1>4. ~(Cardinality(F) > 1)
  BY DEF HasMixedSegmentTypes
<1> HIDE DEF F
<1>5. Cardinality(F) <= 1
  BY <1>3, <1>4
<1> QED
  BY <1>5 DEF F

LEMMA LabelsInRange ==
    ASSUME NEW list, IsList(list), OutOfRangeSRMPLSLabels(list) = {}
    PROVE  \A k \in 1 .. Len(list) : list[k].family = "mpls" => list[k].sid <= MPLSLabelMax
<1>1. MPLSLabelMax \in Nat
  BY TEDAssumption DEF Uint
<1> SUFFICES ASSUME NEW k \in 1 .. Len(list), list[k].family = "mpls"
             PROVE  list[k].sid <= MPLSLabelMax
  OBVIOUS
<1>2. list[k].sid \in Nat
  BY DEF IsList, IsSegment
<1>3. ~(list[k].sid > MPLSLabelMax)
  BY DEF OutOfRangeSRMPLSLabels
<1> QED
  BY <1>1, <1>2, <1>3

(* validateSIDs, on the published TED.                                     *)
LEMMA ValidatedIsSeen ==
    ASSUME TableInv, NEW list, IsList(list), NEW r \in CreateRequests, NEW seen, source \in seen,
           OutOfRangeSRMPLSLabels(list) = {}, ~HasMixedSegmentTypes(list),
           SkipsTED(r) \/ MissingFromTED(list) = {},
           Computed(r) \/ list = r.segments
    PROVE  ListSeen(r, seen, list)
<1>1. CASE SkipsTED(r)
  <2>1. Computed(r) \/ r.noSIDValidate
    BY <1>1 DEF SkipsTED, Computed
  <2> QED
    BY <2>1, FewFamilies, LabelsInRange DEF ListSeen
<1>2. CASE Computed(r)
  BY <1>2, FewFamilies, LabelsInRange DEF ListSeen
<1>3. CASE MissingFromTED(list) = {} /\ list = r.segments
  <2>1. list \in Seq(Segments)
    BY <1>3, RequestsAssumption
  <2>2. ASSUME NEW k \in 1 .. Len(list) PROVE Announces(source, list[k])
    <3>1. list[k] \in Segments
      BY <2>1, ElementOfSeq
    <3>2. HasSegment(list[k])
      BY <1>3 DEF MissingFromTED
    <3> QED
      BY <3>1, <3>2, SegmentAnnounced
  <2> QED
    BY <2>2, FewFamilies, LabelsInRange DEF ListSeen
<1> QED
  BY <1>1, <1>2, <1>3

(* Announcements of a table do not change.                                 *)
LEMMA AnnouncedForEver ==
    ASSUME UNCHANGED usidMode
    PROVE  \A t, s : Announces(t, s)' <=> Announces(t, s)
BY DEF Announces

(* Sessions stay synchronized, and a call that sends has one of them.      *)
KeepsSynced ==
    \A i \in 1 .. Len(sessions) : sessions[i].synced => sessions'[i].synced
HasSession(call) == call.pc = "send" => call.session \in 1 .. Len(sessions)

LEMMA StillSaw ==
    ASSUME UNCHANGED usidMode, KeepsSynced, NEW call, HasSession(call), CallSaw(call),
           source' = source \/ call.pc \notin {"build", "validate"}
    PROVE  CallSaw(call)'
<1>1. \A r, seen, list : ListSeen(r, seen, list)' <=> ListSeen(r, seen, list)
  BY AnnouncedForEver DEF ListSeen
<1>2. \A r, seen, key : EndpointSeen(r, seen, key)' <=> EndpointSeen(r, seen, key)
  BY DEF EndpointSeen
<1> QED
  BY <1>1, <1>2 DEF CallSaw, KeepsSynced, HasSession

LEMMA CallHasSession ==
    ASSUME IInv, NEW c \in Calls
    PROVE  HasSession(calls[c])
BY DEF IInv, ListsFit, CallsFit, CallFits, HasSession

LEMMA OneCallSaw ==
    ASSUME IInv, CallsSaw, NEW c \in Calls, NEW new, calls' = [calls EXCEPT ![c] = new],
           HasSession(new), CallSaw(new), KeepsSynced, UNCHANGED <<source, usidMode>>
    PROVE  CallsSaw'
<1> SUFFICES ASSUME NEW call \in {calls'[d] : d \in Calls} PROVE CallSaw(call)'
  BY DEF CallsSaw
<1>1. PICK d \in Calls : call = calls'[d]
  OBVIOUS
<1>2. HasSession(call) /\ CallSaw(call)
  <2>1. call = IF d = c THEN new ELSE calls[d]
    BY <1>1 DEF IInv, CallsFit
  <2> QED
    BY <2>1, CallHasSession DEF CallsSaw
<1> QED
  BY <1>2, StillSaw

LEMMA RefuseSaw ==
    ASSUME IInv, CallsSaw, NEW c \in Calls, Refuse(c), KeepsSynced, UNCHANGED <<source, usidMode>>
    PROVE  CallsSaw'
<1>1. HasSession(Ended) /\ CallSaw(Ended)
  BY DEF Ended, HasSession, CallSaw
<1> QED
  BY <1>1, OneCallSaw DEF Refuse

LEMMA OtherStepsSaw ==
    ASSUME IInv, CallsSaw, KeepsSynced, UNCHANGED <<source, usidMode, calls>>
    PROVE  CallsSaw'
<1> SUFFICES ASSUME NEW call \in {calls'[c] : c \in Calls} PROVE CallSaw(call)'
  BY DEF CallsSaw
<1>1. PICK c \in Calls : call = calls[c]
  OBVIOUS
<1>2. HasSession(call) /\ CallSaw(call)
  BY <1>1, CallHasSession DEF CallsSaw
<1> QED
  BY <1>2, StillSaw

(* A list that is built is the one given, or a computed one; its endpoint  *)
(* is on the published TED if it is not given.                             *)
LEMMA BuiltSaw ==
    ASSUME IInv, CallsSaw, NEW c \in Calls, calls[c].pc = "build", NEW key, NEW list,
           Built(c, key, list), UNCHANGED <<source, usidMode, sessions>>,
           source \in calls[c].seen => EndpointSeen(Req(c), calls[c].seen, key),
           Computed(Req(c)) \/ list = Req(c).segments
    PROVE  CallsSaw'
<1> DEFINE new == [pc |-> "validate", kind |-> "create", req |-> Req(c),
                   seen |-> calls[c].seen, key |-> key, list |-> list]
<1>1. /\ new.pc = "validate" /\ new.req = Req(c) /\ new.seen = calls[c].seen
      /\ new.key = key /\ new.list = list
  OBVIOUS
<1>2. calls' = [calls EXCEPT ![c] = new]
  BY DEF Built
<1>3. source \in calls[c].seen
  BY DEF CallsSaw, CallSaw
<1> HIDE DEF new
<1>4. HasSession(new) /\ CallSaw(new)
  BY <1>1, <1>3 DEF HasSession, CallSaw
<1> QED
  BY <1>2, <1>4, OneCallSaw DEF KeepsSynced

(* A request that is found its session goes out with what the call built.  *)
LEMMA SendingSaw ==
    ASSUME IInv, CallsSaw, NEW c \in Calls, calls[c].pc = "search",
           NEW peer, SyncedWith(peer) # {}, NEW kind, NEW plsp, NEW i, i = SearchSession(peer),
           kind = "delete" \/ calls[c].kind = "create",
           Sending(c, i, Message(c, kind, plsp, i)), UNCHANGED <<source, usidMode, sessions>>
    PROVE  CallsSaw'
<1>1. PICK m : m = Message(c, kind, plsp, i)
  OBVIOUS
<1>2. m.kind = kind /\ m.key = calls[c].key /\ m.list = calls[c].list
  BY <1>1, MessageFields
<1> DEFINE new == [pc |-> "send", req |-> Req(c), seen |-> calls[c].seen,
                   session |-> i, message |-> m]
<1>3. /\ new.pc = "send" /\ new.req = Req(c) /\ new.seen = calls[c].seen
      /\ new.session = i /\ new.message = m
  OBVIOUS
<1>4. calls' = [calls EXCEPT ![c] = new]
  BY <1>1 DEF Sending
<1> HIDE DEF new
<1>5. i \in 1 .. Len(sessions) /\ sessions[i].synced
  <2>1. SyncedWith(peer) \subseteq 1 .. Len(sessions) /\ Len(sessions) \in Nat
    BY SequenceLen DEF SyncedWith, IInv, ListsFit
  <2>2. SyncedWith(peer) \in SUBSET Nat
    BY <2>1
  <2>3. Min(SyncedWith(peer)) \in SyncedWith(peer)
    BY <2>2, MinIsLeast
  <2> QED
    BY <2>3 DEF SearchSession, SyncedWith
<1>6. kind # "delete" => /\ EndpointSeen(Req(c), calls[c].seen, calls[c].key)
                          /\ ListSeen(Req(c), calls[c].seen, calls[c].list)
  BY DEF CallsSaw, CallSaw, Req
<1>7. HasSession(new) /\ CallSaw(new)
  BY <1>2, <1>3, <1>5, <1>6 DEF HasSession, CallSaw
<1> QED
  BY <1>4, <1>7, OneCallSaw DEF KeepsSynced

LEMMA CallStepSaw ==
    ASSUME TableInv, IInv, CallsSaw, NEW c \in Calls, CallStep(c),
           UNCHANGED <<source, usidMode, sessions>>
    PROVE  CallsSaw'
<1>1. KeepsSynced
  BY DEF KeepsSynced
<1>2. calls[c].pc \in {"build", "validate"} =>
         Req(c) \in CreateRequests /\ source \in calls[c].seen
  BY DEF Req, IInv, CallsFit, CallFits, CallTyped, CallsSaw, CallSaw
<1>3. ASSUME NEW r \in CreateRequests, StartCreate(c, r)
      PROVE  CallsSaw'
  <2> DEFINE new == [pc |-> "build", kind |-> "create", req |-> r, seen |-> {source}]
  <2>1. HasSession(new) /\ CallSaw(new)
    <3>1. new.pc = "build" /\ new.seen = {source}
      OBVIOUS
    <3> HIDE DEF new
    <3> QED
      BY <3>1 DEF HasSession, CallSaw
  <2>2. calls' = [calls EXCEPT ![c] = new] \/ Refuse(c)
    BY <1>3 DEF StartCreate, Refuse
  <2> HIDE DEF new
  <2> QED
    BY <1>1, <2>1, <2>2, OneCallSaw, RefuseSaw
<1>4. ASSUME NEW r \in DeleteRequests, StartDelete(c, r)
      PROVE  CallsSaw'
  <2> DEFINE new == [pc |-> "search", kind |-> "delete", req |-> r, seen |-> {},
                     key |-> <<r.color, r.dstAddr>>, list |-> r.segments]
  <2>1. HasSession(new) /\ CallSaw(new)
    <3>1. new.pc = "search" /\ new.kind = "delete"
      OBVIOUS
    <3> HIDE DEF new
    <3> QED
      BY <3>1 DEF HasSession, CallSaw
  <2>2. calls' = [calls EXCEPT ![c] = new] \/ Refuse(c)
    BY <1>4 DEF StartDelete, Refuse
  <2> HIDE DEF new
  <2> QED
    BY <1>1, <2>1, <2>2, OneCallSaw, RefuseSaw
<1>5. CASE UseGivenList(c)
  <2>1. EndpointSeen(Req(c), calls[c].seen, <<Req(c).color, Req(c).dstAddr>>)
    BY <1>5 DEF UseGivenList, EndpointSeen
  <2> QED
    BY <1>1, <1>5, <2>1, BuiltSaw, RefuseSaw DEF UseGivenList
<1>6. CASE BuildSegmentList(c)
  <2> DEFINE key == <<Req(c).color, LoopbackAddr(Req(c).dstRouter)>>
  <2>1. calls[c].pc = "build" /\ ~Req(c).disablePathCompute
    BY <1>6 DEF BuildSegmentList
  <2>2. HasEndpoints(Req(c)) => EndpointSeen(Req(c), calls[c].seen, key)
    <3>1. ASSUME HasEndpoints(Req(c))
          PROVE  AnnouncesHost(source, Req(c).dstRouter, key[2])
      BY <3>1, LoopbackAnnounced DEF HasEndpoints
    <3> QED
      BY <1>2, <2>1, <3>1 DEF EndpointSeen
  <2>3. Dynamic(Req(c)) => Computed(Req(c))
    BY <2>1 DEF Dynamic, Computed
  <2>4. \/ HasEndpoints(Req(c)) /\ Built(c, key, Req(c).segments)
        \/ /\ HasEndpoints(Req(c)) /\ Dynamic(Req(c))
           /\ \E p \in PathsFor(Req(c)) : Built(c, key, SegmentsAlong(p))
        \/ Refuse(c)
    BY <1>6 DEF BuildSegmentList
  <2> HIDE DEF key
  <2> QED
    BY <1>1, <2>1, <2>2, <2>3, <2>4, BuiltSaw, RefuseSaw
<1>7. CASE ValidateSIDs(c)
  <2>1. calls[c].pc = "validate" /\ DOMAIN calls[c] = ListFields /\ IsList(calls[c].list)
    BY <1>7 DEF IInv, CallsFit, CallFits, CallTyped, ValidateSIDs
  <2>2. PICK old, new : old = calls[c] /\ new = [old EXCEPT !.pc = "search"]
    OBVIOUS
  <2>3. /\ new.pc = "search" /\ new.req = old.req /\ new.seen = old.seen
        /\ new.key = old.key /\ new.list = old.list
    BY <2>1, <2>2 DEF ListFields, BuildFields
  <2>4. CASE calls' = [calls EXCEPT ![c] = new] /\ OutOfRangeSRMPLSLabels(old.list) = {}
             /\ ~HasMixedSegmentTypes(old.list)
             /\ (SkipsTED(old.req) \/ MissingFromTED(old.list) = {})
    <3>1. CallSaw(old) /\ IsList(old.list) /\ old.pc = "validate"
      BY <2>1, <2>2 DEF CallsSaw
    <3>2. /\ source \in old.seen /\ EndpointSeen(old.req, old.seen, old.key)
          /\ Computed(old.req) \/ old.list = old.req.segments
      BY <3>1 DEF CallSaw
    <3>3. old.req \in CreateRequests
      BY <1>2, <2>1, <2>2 DEF Req
    <3>4. ListSeen(old.req, old.seen, old.list)
      BY <2>4, <3>1, <3>2, <3>3, ValidatedIsSeen
    <3>5. HasSession(new) /\ CallSaw(new)
      BY <2>3, <3>2, <3>4 DEF HasSession, CallSaw
    <3> QED
      BY <1>1, <2>4, <3>5, OneCallSaw
  <2>5. CASE Refuse(c)
    BY <1>1, <2>5, RefuseSaw
  <2> QED
    BY <1>7, <2>2, <2>4, <2>5 DEF ValidateSIDs, Req
<1>8. CASE SearchForCreate(c)
  <2>1. calls[c].pc = "search" /\ calls[c].kind = "create"
    BY <1>8 DEF SearchForCreate
  <2>2. PICK peer, i : peer = Req(c).session /\ i = SearchSession(peer)
    OBVIOUS
  <2>3. \/ Refuse(c)
        \/ SyncedWith(peer) # {} /\ Sending(c, i, Message(c, "create", 0, i))
        \/ /\ SyncedWith(peer) # {}
           /\ Sending(c, i, Message(c, "update", SearchPlspID(i, calls[c].key), i))
    BY <1>8, <2>2 DEF SearchForCreate
  <2> QED
    BY <1>1, <2>1, <2>2, <2>3, SendingSaw, RefuseSaw
<1>9. CASE SearchForDelete(c)
  <2>1. calls[c].pc = "search"
    BY <1>9 DEF SearchForDelete
  <2>2. PICK peer, i : peer = Req(c).session /\ i = SearchSession(peer)
    OBVIOUS
  <2>3. \/ Refuse(c)
        \/ /\ SyncedWith(peer) # {}
           /\ Sending(c, i, Message(c, "delete", SearchPlspID(i, calls[c].key), i))
    BY <1>9, <2>2 DEF SearchForDelete
  <2> QED
    BY <1>1, <2>1, <2>2, <2>3, SendingSaw, RefuseSaw
<1> QED
  BY <1>3, <1>4, <1>5, <1>6, <1>7, <1>8, <1>9 DEF CallStep

(* A newer TED is one more that a call has seen.                           *)
LEMMA PublishSaw ==
    ASSUME IInv, CallsSaw, Publish
    PROVE  CallsSaw'
<1>1. UNCHANGED <<usidMode, sessions>> /\ KeepsSynced
  BY DEF Publish, configVars, sessionVars, KeepsSynced
<1> SUFFICES ASSUME NEW new \in {calls'[c] : c \in Calls} PROVE CallSaw(new)'
  BY DEF CallsSaw
<1>2. PICK c \in Calls : new = calls'[c]
  OBVIOUS
<1> DEFINE old == calls[c]
<1>3. CallTyped(old) /\ CallSaw(old) /\ HasSession(old)
  BY <1>2, CallHasSession DEF CallsSaw, IInv, CallsFit, CallFits
<1>4. CASE old.pc \in {"build", "validate"}
  <2>1. new = [old EXCEPT !.seen = @ \cup {source'}]
    BY <1>2, <1>4 DEF Publish
  <2>2. /\ new.seen = old.seen \cup {source'} /\ new.pc = old.pc /\ new.req = old.req
        /\ new.pc = "validate" => (new.key = old.key /\ new.list = old.list)
    <3>1. CASE old.pc = "build"
      BY <1>3, <2>1, <3>1 DEF CallTyped, BuildFields
    <3>2. CASE old.pc = "validate"
      BY <1>3, <2>1, <3>2 DEF CallTyped, ListFields, BuildFields
    <3> QED
      BY <1>4, <3>1, <3>2
  <2>3. \A r, key : EndpointSeen(r, old.seen, key) => EndpointSeen(r, new.seen, key)'
    BY <2>2 DEF EndpointSeen
  <2>4. source' \in new.seen /\ new.pc \in {"build", "validate"}
    BY <1>4, <2>2
  <2>5. new.pc = "validate" => /\ EndpointSeen(new.req, new.seen, new.key)'
                                /\ (Computed(new.req) \/ new.list = new.req.segments)
    BY <1>3, <2>2, <2>3 DEF CallSaw
  <2> QED
    BY <2>4, <2>5 DEF CallSaw
<1>5. CASE old.pc \notin {"build", "validate"}
  <2>1. new = old
    BY <1>2, <1>5 DEF Publish
  <2> QED
    BY <1>1, <1>3, <1>5, <2>1, StillSaw
<1> QED
  BY <1>4, <1>5

(* No step of a session undoes its synchronization.                        *)
LEMMA OneStaysSynced ==
    ASSUME IInv, NEW i \in 1 .. Len(sessions), NEW s, sessions' = [sessions EXCEPT ![i] = s],
           sessions[i].synced => s.synced
    PROVE  KeepsSynced
<1>1. DOMAIN sessions = 1 .. Len(sessions)
  BY OneSession, SequenceLen DEF Sequence
<1>2. \A j \in 1 .. Len(sessions) : sessions'[j] = IF j = i THEN s ELSE sessions[j]
  BY <1>1
<1> QED
  BY <1>2 DEF KeepsSynced

LEMMA SessionStepKeeps ==
    ASSUME IInv, NEW i \in 1 .. Len(sessions),
           \/ PCCAnswers(i)
           \/ ReadReport(i)
           \/ \E plsp \in 1 .. Len(lsps[i]) : PCCRemoves(i, plsp)
    PROVE  KeepsSynced
<1>1. PICK s0 : s0 = sessions[i]
  OBVIOUS
<1>2. DOMAIN s0 = SessionFields /\ s0.synced \in BOOLEAN
  BY <1>1, OneSession DEF SessionFits
<1>7. "synced" \in DOMAIN s0
  BY <1>2 DEF SessionFields
<1>3. ASSUME NEW x, NEW y,
             \/ sessions' = [sessions EXCEPT ![i].toPCC = x]
             \/ sessions' = [sessions EXCEPT ![i].toPCE = y]
             \/ sessions' = [sessions EXCEPT ![i].toPCC = x, ![i].toPCE = y]
      PROVE  KeepsSynced
  <2>1. PICK s \in {[s0 EXCEPT !.toPCC = x], [s0 EXCEPT !.toPCE = y],
                    [s0 EXCEPT !.toPCC = x, !.toPCE = y]} :
           sessions' = [sessions EXCEPT ![i] = s]
    BY <1>1, <1>3
  <2>2. s.synced = s0.synced
    <3>1. ASSUME NEW t, "synced" \in DOMAIN t
          PROVE  /\ [t EXCEPT !.toPCC = x].synced = t.synced
                 /\ [t EXCEPT !.toPCE = y].synced = t.synced
                 /\ "synced" \in DOMAIN [t EXCEPT !.toPCC = x]
      BY <3>1
    <3> QED
      BY <1>7, <2>1, <3>1
  <2> QED
    BY <1>1, <2>1, <2>2, OneStaysSynced
<1>4. CASE PCCAnswers(i)
  <2>1. ASSUME NEW plsp, NEW lsp, NEW remove, NEW held, Answers(i, plsp, lsp, remove, held)
        PROVE  KeepsSynced
    <3>1. PICK x, y : x = Tail(sessions[i].toPCC) /\ y = Append(sessions[i].toPCE, Report(plsp, lsp, remove))
      OBVIOUS
    <3>2. sessions' = [sessions EXCEPT ![i].toPCC = x, ![i].toPCE = y]
      BY <2>1, <3>1 DEF Answers
    <3> QED
      BY <1>3, <3>2
  <2>2. CASE sessions' = [sessions EXCEPT ![i].toPCC = Tail(@)]
    BY <1>3, <2>2
  <2> QED
    BY <1>4, <2>1, <2>2 DEF PCCAnswers
<1>5. ASSUME NEW plsp \in 1 .. Len(lsps[i]), PCCRemoves(i, plsp)
      PROVE  KeepsSynced
  BY <1>3, <1>5 DEF PCCRemoves
<1>6. CASE ReadReport(i)
  <2>1. PICK kind, policies : /\ kind = Head(s0.toPCE).kind
                              /\ policies = HandleStateReport(i, Head(s0.toPCE))
    OBVIOUS
  <2>2. PICK s : s = [s0 EXCEPT !.toPCE = Tail(@),
                                !.synced = IF kind = "endOfSync" THEN TRUE ELSE @,
                                !.policies = policies]
    OBVIOUS
  <2>3. sessions' = [sessions EXCEPT ![i] = s]
    BY <1>1, <1>6, <2>1, <2>2 DEF ReadReport
  <2>4. s.synced = IF kind = "endOfSync" THEN TRUE ELSE s0.synced
    BY <1>2, <2>2 DEF SessionFields
  <2>5. s0.synced => s.synced
    BY <1>2, <2>4
  <2> QED
    BY <1>1, <2>3, <2>5, OneStaysSynced
<1> QED
  BY <1>4, <1>5, <1>6

LEMMA SendKeeps ==
    ASSUME IInv, NEW c \in Calls, Send(c)
    PROVE  KeepsSynced
<1>1. PICK i, s0, s : /\ i = calls[c].session /\ s0 = sessions[i]
                      /\ s = [s0 EXCEPT !.toPCC = Append(@, calls[c].message)]
  OBVIOUS
<1>2. i \in 1 .. Len(sessions)
  BY <1>1, CallHasSession DEF Send, HasSession
<1>3. DOMAIN s0 = SessionFields
  BY <1>1, <1>2, OneSession DEF SessionFits
<1>4. sessions' = [sessions EXCEPT ![i] = s] /\ s.synced = s0.synced
  BY <1>1, <1>3 DEF Send, SessionFields
<1> QED
  BY <1>1, <1>2, <1>4, OneStaysSynced

LEMMA InitSaw == Init => CallsSaw /\ ConfigInv
<1> SUFFICES ASSUME Init PROVE CallsSaw /\ ConfigInv
  OBVIOUS
<1>1. CallsSaw
  BY DEF Init, Idle, CallsSaw, CallSaw
<1>2. PICK config \in Configurations : tedEnabled = config[1] /\ usidMode = config[2]
  BY DEF Init
<1>3. config \in BOOLEAN \X BOOLEAN
  BY RequestsAssumption
<1>4. <<tedEnabled, usidMode>> = config
  BY <1>2, <1>3
<1>5. source = <<>> /\ removals = 0 /\ MaxRemovals \in Nat
  BY RequestsAssumption DEF Init, TableInit
<1> QED
  BY <1>1, <1>4, <1>5 DEF ConfigInv

LEMMA StepSaw == TableInv /\ IInv /\ CallsSaw /\ [Next]_vars => CallsSaw'
<1> SUFFICES ASSUME TableInv, IInv, CallsSaw, [Next]_vars PROVE CallsSaw'
  OBVIOUS
<1>1. ASSUME UNCHANGED <<source, usidMode, sessions, calls>>
      PROVE  CallsSaw'
  BY <1>1, OtherStepsSaw DEF KeepsSynced
<1>2. CASE TableChanges /\ UNCHANGED <<configVars, sessionVars, calls>>
  BY <1>1, <1>2 DEF TableChanges, configVars, sessionVars
<1>3. CASE Publish
  BY <1>3, PublishSaw
<1>4. ASSUME NEW c \in Calls, CallStep(c), UNCHANGED <<tedVars, tableVars, configVars, sessionVars>>
      PROVE  CallsSaw'
  BY <1>4, CallStepSaw DEF tableVars, configVars, sessionVars
<1>5. ASSUME NEW c \in Calls, Send(c) \/ SendFails(c), UNCHANGED <<tableVars, configVars>>
      PROVE  CallsSaw'
  <2>1. KeepsSynced /\ UNCHANGED <<source, usidMode>>
    BY <1>5, SendKeeps DEF SendFails, sessionVars, tableVars, configVars, KeepsSynced
  <2> QED
    BY <1>5, <2>1, RefuseSaw DEF Send, SendFails, Refuse
<1>6. ASSUME NEW i \in 1 .. Len(sessions), UNCHANGED <<tableVars, configVars, calls>>,
             \/ PCCAnswers(i)
             \/ ReadReport(i)
             \/ \E plsp \in 1 .. Len(lsps[i]) : PCCRemoves(i, plsp)
      PROVE  CallsSaw'
  BY <1>6, SessionStepKeeps, OtherStepsSaw DEF tableVars, configVars
<1>7. CASE UNCHANGED vars
  BY <1>1, <1>7 DEF vars, tableVars, configVars, sessionVars
<1> QED
  BY <1>2, <1>3, <1>4, <1>5, <1>6, <1>7 DEF Next

LEMMA StepConfig == ConfigInv /\ [Next]_vars => ConfigInv'
<1> SUFFICES ASSUME ConfigInv, [Next]_vars PROVE ConfigInv'
  OBVIOUS
<1>1. UNCHANGED configVars
  BY DEF Next, Publish, vars
<1>2. tedEnabled \/ source' = source
  BY DEF Next, Publish, vars, tableVars
<1>3. MaxRemovals \in Nat /\ removals \in 0 .. MaxRemovals
  BY RequestsAssumption DEF ConfigInv
<1>4. removals' \in 0 .. MaxRemovals
  <2>1. removals' = removals \/ (removals < MaxRemovals /\ removals' = removals + 1)
    <3>1. CASE UNCHANGED sessionVars
      BY <3>1 DEF sessionVars
    <3>2. ASSUME NEW i, PCCAnswers(i) \/ ReadReport(i)
          PROVE  removals' = removals
      BY <3>2 DEF PCCAnswers, Answers, ReadReport
    <3>3. ASSUME NEW i, NEW plsp, PCCRemoves(i, plsp)
          PROVE  removals < MaxRemovals /\ removals' = removals + 1
      BY <3>3 DEF PCCRemoves
    <3>4. ASSUME NEW c, Send(c) \/ SendFails(c)
          PROVE  removals' = removals
      BY <3>4 DEF Send, SendFails, sessionVars
    <3> QED
      BY <3>1, <3>2, <3>3, <3>4, Zenon DEF Next, Publish, vars
  <2> QED
    BY <1>3, <2>1
<1> QED
  BY <1>1, <1>2, <1>4 DEF ConfigInv, configVars

LEMMA SawInvariant == Spec => [](CallsSaw /\ ConfigInv)
BY TableInvariant, Invariant, InitSaw, StepSaw, StepConfig, PTL DEF Spec

LEMMA Typed == TableInv /\ IInv /\ CallsSaw /\ ConfigInv => TypeOK
<1> SUFFICES ASSUME TableInv, IInv, CallsSaw, ConfigInv PROVE TypeOK
  OBVIOUS
<1>1. TEDTypeOK
  BY PublishedIsMerged, WellFormedTED, ListingMade DEF TableInv
<1>2. ASSUME NEW c \in Calls
      PROVE  /\ calls[c].pc \in PCs
             /\ calls[c].pc = "validate" => IsList(calls[c].list)
             /\ calls[c].pc = "send" =>
                   /\ calls[c].session \in 1 .. Len(sessions)
                   /\ sessions[calls[c].session].synced
                   /\ calls[c].message.kind # "create" <=> calls[c].message.plsp # 0
  <2>1. PICK call : call = calls[c]
    OBVIOUS
  <2>2. CallFits(lsps, call) /\ CallTyped(call) /\ CallSaw(call) /\ HasSession(call)
    BY <2>1, CallHasSession DEF IInv, CallsFit, CallFits, CallsSaw
  <2>3. call.pc = "send" => (call.message.kind # "create" <=> call.message.plsp # 0)
    <3> SUFFICES ASSUME call.pc = "send"
                 PROVE  call.message.kind # "create" <=> call.message.plsp # 0
      OBVIOUS
    <3>1. PICK held, m : held = lsps[call.session] /\ m = call.message
      OBVIOUS
    <3>2. MessageFits(held, m)
      BY <2>2, <3>1 DEF CallFits
    <3>3. m.kind = "create" => m.plsp = 0
      BY <3>2 DEF MessageFits
    <3>4. m.kind # "create" => m.plsp \in 1 .. Len(held)
      BY <3>2 DEF MessageFits, Names
    <3>5. 0 \notin 1 .. Len(held)
      OBVIOUS
    <3> QED
      BY <3>1, <3>3, <3>4, <3>5
  <2> QED
    BY <2>1, <2>2, <2>3 DEF CallTyped, CallSaw, HasSession
<1>3. ASSUME NEW i \in 1 .. Len(sessions)
      PROVE  /\ sessions[i].synced \in BOOLEAN
             /\ \A j \in 1 .. Len(sessions[i].policies) :
                   /\ sessions[i].policies[j].plsp \in 1 .. Len(lsps[i])
                   /\ IsPolicy(sessions[i].policies[j])
  BY OneSession DEF SessionFits, PoliciesFit, Names
<1> QED
  BY <1>1, <1>2, <1>3 DEF TypeOK, TableInv, ConfigInv

(* The types of the variables; requests are sent on synchronized sessions  *)
(* and name an LSP unless they create one; policies and lists hold nothing *)
(* but segments; without a TED nothing is published.                       *)
THEOREM TypeCorrect == Spec => []TypeOK
BY TableInvariant, Invariant, SawInvariant, Typed, PTL

LEMMA WereOnTED == CallsSaw => ListsWereOnTED
BY DEF CallsSaw, CallSaw, ListSeen, EndpointSeen, Computed, ListsWereOnTED, Req

(* Every request on its way to a PCC carries an endpoint and a list that   *)
(* tables published during its call announced, however often the TED was   *)
(* replaced in between; no list mixes families or exceeds a label.         *)
THEOREM ListsComeFromTheTED == Spec => []ListsWereOnTED
BY SawInvariant, WereOnTED, PTL

------------------------------------------------------------------------------
(* What `pola sr-policy list` shows *)

(* The routers an address is attributed to are those that announced it as  *)
(* that of a host.                                                         *)
LEMMA ReachedIsIn ==
    ASSUME TableInv, NEW x \in Reached(source, "prefix")
    PROVE  x.nlri.prefixes[1] \in PrefixesIn(source) /\ HostsAgree(source)
<1>1. PICK i \in 1 .. Len(source) : \E k \in 1 .. Len(source[i].body.reach) :
         /\ source[i].nlri = "prefix" /\ source[i].attr = "prefix" /\ x.body = source[i].body
         /\ x.nlri = source[i].body.reach[k] /\ x.nlri.asn = ASN
  BY ReachedAt
<1>2. PICK d, b : d = source[i] /\ b = d.body
  OBVIOUS
<1>3. PICK k \in 1 .. Len(b.reach) : x.nlri = b.reach[k]
  BY <1>1, <1>2
<1>4. PICK n : n = x.nlri
  OBVIOUS
<1>5. IsDestination(d) /\ ~Refuses(d) /\ d.nlri = "prefix" /\ d.attr = "prefix"
  BY <1>1, <1>2, SourceConverts
<1>6. b.reach \in Seq(PrefixNLRIs)
  BY <1>2, <1>5, BodyTypes
<1>7. n \in PrefixNLRIs /\ ~RefusesPrefix(n)
  <2>1. n \in PrefixNLRIs
    BY <1>3, <1>4, <1>6, ElementOfSeq
  <2>2. ~RefusesPrefix(b.reach[k])
    BY <1>2, <1>3, <1>5 DEF Refuses, RefusesByType
  <2> QED
    BY <1>3, <1>4, <2>1, <2>2
<1>8. n.isPrefix /\ n.prefixes \in Seq(IPPrefixes) /\ Len(n.prefixes) = 1
  <2>1. n.isPrefix /\ Len(n.prefixes) = 1
    BY <1>7 DEF RefusesPrefix
  <2>2. n.prefixes \in Seq(IPPrefixes)
    BY <1>7, <2>1 DEF PrefixNLRIs
  <2> QED
    BY <2>1, <2>2
<1>9. n.prefixes[1] \in Range(n.prefixes)
  BY <1>8, LenProperties DEF Range
<1>10. n \in Range(b.reach)
  BY <1>3, <1>4, <1>6, LenProperties DEF Range
<1>11. source \in Tables
  BY <1>1 DEF TableInv
<1>12. d \in Range(source)
  <2>1. source \in Seq(Range(source))
    BY <1>11, TablesAssumption
  <2> QED
    BY <1>2, <2>1, ElementOfSeq
<1>13. n.prefixes[1] \in PrefixesIn(source)
  <2>1. PICK all : all = UNION {Range(m.prefixes) : m \in {y \in Range(b.reach) : y.isPrefix}}
    OBVIOUS
  <2>2. Range(n.prefixes) \subseteq all
    BY <1>8, <1>10, <2>1
  <2>3. all \in {UNION {Range(m.prefixes) : m \in {y \in Range(e.body.reach) : y.isPrefix}} :
                    e \in {y \in Range(source) : y.nlri = "prefix" /\ y.attr = "prefix"}}
    BY <1>2, <1>5, <1>12, <2>1
  <2> QED
    BY <1>9, <2>2, <2>3 DEF PrefixesIn
<1> QED
  BY <1>4, <1>11, <1>13, TablesAssumption

LEMMA HostsShown ==
    ASSUME TableInv, NEW address
    PROVE  RouterIDsOf(address) =
              {r \in AnnouncedRouters(source) : AnnouncesHost(source, r, address)}
<1>1. ASSUME NEW r \in Routers, NEW j \in HostPrefixes(r), Node(r).prefixes[j].prefix = address
      PROVE  AnnouncesHost(source, r, address)
  <2>1. PICK all : all = Node(r).prefixes
    OBVIOUS
  <2>2. all \in Seq(LsPrefixes)
    BY <2>1, NodeHolds DEF LsNodes
  <2>3. j \in 1 .. Len(all) /\ all[j].host
    BY <2>1 DEF HostPrefixes
  <2>4. all[j] \in Range(all)
    BY <2>2, <2>3, LenProperties DEF Range
  <2>5. PICK x \in Reached(source, "prefix") :
           /\ x.nlri.router = r
           /\ x.nlri.prefixes[1].prefix = all[j].prefix /\ x.nlri.prefixes[1].host = all[j].host
    BY <2>1, <2>4, PrefixAnnounced
  <2> QED
    BY <1>1, <2>1, <2>3, <2>5 DEF AnnouncesHost
<1>2. ASSUME NEW r \in Routers, AnnouncesHost(source, r, address)
      PROVE  \E j \in HostPrefixes(r) : Node(r).prefixes[j].prefix = address
  <2>1. PICK x \in Reached(source, "prefix") :
           /\ x.nlri.router = r
           /\ x.nlri.prefixes[1].prefix = address /\ x.nlri.prefixes[1].host
    BY <1>2 DEF AnnouncesHost
  <2>2. PICK m \in Of(Len(listing), "prefix", r) : listing[m].prefix.prefix = address
    BY <2>1, PrefixListed
  <2>3. PICK all : all = Node(r).prefixes
    OBVIOUS
  <2>4. all \in Seq(LsPrefixes)
    BY <2>3, NodeHolds DEF LsNodes
  <2>5. {p.prefix : p \in Range(all)} =
           {listing[i].prefix.prefix : i \in Of(Len(listing), "prefix", r)}
    BY <2>3, NodeHolds DEF NodeIsMerge, PrefixesFrom
  <2>6. PICK p \in Range(all) : p.prefix = address
    BY <2>2, <2>5
  <2>7. PICK y \in Reached(source, "prefix") :
           /\ y.nlri.router = r
           /\ y.nlri.prefixes[1].prefix = p.prefix /\ y.nlri.prefixes[1].host = p.host
    BY <2>3, <2>6, PrefixAnnounced
  <2>8. x.nlri.prefixes[1].host = y.nlri.prefixes[1].host
    BY <2>1, <2>6, <2>7, ReachedIsIn DEF HostsAgree
  <2>9. p.host
    BY <2>1, <2>7, <2>8
  <2>10. PICK j \in 1 .. Len(all) : p = all[j]
    BY <2>4, <2>6, LenProperties DEF Range
  <2> QED
    BY <2>3, <2>6, <2>9, <2>10 DEF HostPrefixes
<1>3. Routers = AnnouncedRouters(source)
  BY RoutersAnnounced
<1> QED
  BY <1>1, <1>2, <1>3 DEF RouterIDsOf

------------------------------------------------------------------------------
(* Conversions there and back *)

LEMMA SegmentComesBack ==
    ASSUME NEW s, IsSegment(s)
    PROVE  segmentFromPB(convertSegment(s)) = s
<1> DEFINE names == {"family", "sid"}
           rest == [f \in DOMAIN s \ names |-> s[f]]
           pb == convertSegment(s)
<1>1. /\ s = [f \in DOMAIN s |-> s[f]] /\ names \subseteq DOMAIN s
      /\ s.family \in {"mpls", "srv6"}
  BY DEF IsSegment
<1>2. /\ pb.sid = <<IF s.family = "mpls" THEN "number" ELSE "address", s.sid>>
      /\ pb.rest = rest
  BY DEF convertSegment, SidString
<1>3. /\ pb.sid[2] = s.sid
      /\ (IF pb.sid[1] = "number" THEN "mpls" ELSE "srv6") = s.family
  BY <1>1, <1>2
<1>4. PICK back : back = segmentFromPB(pb)
  OBVIOUS
<1> HIDE DEF pb
<1>5. back = [f \in names \cup DOMAIN rest |->
                 CASE f = "family" -> s.family [] f = "sid" -> s.sid [] OTHER -> rest[f]]
  BY <1>2, <1>3, <1>4 DEF segmentFromPB
<1>6. names \cup DOMAIN rest = DOMAIN s
  BY <1>1
<1>7. \A f \in DOMAIN s : back[f] = s[f]
  BY <1>1, <1>5, <1>6
<1>8. back = [f \in DOMAIN s |-> s[f]]
  BY <1>5, <1>6, <1>7
<1> QED
  BY <1>1, <1>4, <1>8 DEF pb

LEMMA TypeComesBack ==
    ASSUME NEW intent, IsIntent(intent)
    PROVE  policyTypeFromPB(toPBPolicyType(intent.type)) = intent.type
<1>1. CASE intent.type = "explicit"
  BY <1>1 DEF policyTypeFromPB, toPBPolicyType
<1>2. CASE intent.type = "dynamic"
  BY <1>2 DEF policyTypeFromPB, toPBPolicyType
<1>3. CASE intent.type = ""
  BY <1>3, Zenon DEF policyTypeFromPB, toPBPolicyType
<1> QED
  BY <1>1, <1>2, <1>3, Zenon DEF IsIntent

LEMMA MetricComesBack ==
    ASSUME NEW intent, IsIntent(intent)
    PROVE  metricTypeFromPB(toPBMetricType(intent.metric)) = intent.metric
<1>1. CASE intent.metric = "igp"
  BY <1>1 DEF metricTypeFromPB, toPBMetricType
<1>2. CASE intent.metric = "te"
  BY <1>2 DEF metricTypeFromPB, toPBMetricType
<1>3. CASE intent.metric = "delay"
  BY <1>3 DEF metricTypeFromPB, toPBMetricType
<1>4. CASE intent.metric = "hopcount"
  BY <1>4 DEF metricTypeFromPB, toPBMetricType
<1>5. CASE intent.metric = ""
  BY <1>5, Zenon DEF metricTypeFromPB, toPBMetricType
<1> QED
  BY <1>1, <1>2, <1>3, <1>4, <1>5, Zenon DEF IsIntent

LEMMA StateComesBack ==
    ASSUME NEW state \in PolicyStates
    PROVE  policyStateFromPB(toPBPolicyState(state)) = state
BY DEF PolicyStates, policyStateFromPB, toPBPolicyState

LEMMA ListComesBack ==
    ASSUME NEW list, IsList(list), NEW n, n = Len(list)
    PROVE  [k \in 1 .. n |-> segmentFromPB([j \in 1 .. n |-> convertSegment(list[j])][k])] = list
<1>1. list = [k \in 1 .. n |-> list[k]] /\ \A k \in 1 .. n : IsSegment(list[k])
  BY LenProperties DEF IsList
<1>2. \A k \in 1 .. n : segmentFromPB([j \in 1 .. n |-> convertSegment(list[j])][k]) = list[k]
  BY <1>1, SegmentComesBack
<1> QED
  BY <1>1, <1>2

(* What the client makes of a policy it was sent.                          *)
LEMMA PolicyComesBack ==
    ASSUME NEW p, IsPolicy(p)
    PROVE  LET q == buildPBSRPolicy(p)
               v == convertSRPolicy(q)
           IN  /\ q.plsp = p.plsp /\ q.color = p.key[1]
               /\ v.plsp = q.plsp /\ v.color = q.color /\ v.dstAddr = p.key[2]
               /\ v.dstRouters = RouterIDsOf(v.dstAddr) /\ ShowsPolicy(v, p)
<1>1. PICK q, v : q = buildPBSRPolicy(p) /\ v = convertSRPolicy(q)
  OBVIOUS
<1>2. PICK n : n = Len(p.list)
  OBVIOUS
<1>3. PICK pbs, pbState, pbType, pbMetric, ids :
         /\ pbs = [k \in 1 .. n |-> convertSegment(p.list[k])]
         /\ pbState = toPBPolicyState(p.state) /\ pbType = toPBPolicyType(p.intent.type)
         /\ pbMetric = toPBMetricType(p.intent.metric) /\ ids = RouterIDsOf(p.key[2])
  OBVIOUS
<1>4. q = [plsp |-> p.plsp, color |-> p.key[1], dstAddr |-> p.key[2], segments |-> pbs,
           dstRouters |-> ids, state |-> pbState, type |-> pbType, metric |-> pbMetric]
  BY <1>1, <1>2, <1>3 DEF buildPBSRPolicy
<1>5. Len(pbs) = n
  BY <1>2, <1>3, SequenceByIndex, LenProperties DEF IsPolicy, Describes, IsList
<1>6. PICK state, type, metric, list :
         /\ state = policyStateFromPB(pbState) /\ type = policyTypeFromPB(pbType)
         /\ metric = metricTypeFromPB(pbMetric)
         /\ list = [k \in 1 .. n |-> segmentFromPB(pbs[k])]
  OBVIOUS
<1>7. state = p.state /\ type = p.intent.type /\ metric = p.intent.metric /\ list = p.list
  BY <1>2, <1>3, <1>6, StateComesBack, TypeComesBack, MetricComesBack, ListComesBack
     DEF IsPolicy, Describes
<1>8. v = [q EXCEPT !.state = state, !.type = type, !.metric = metric, !.segments = list]
  <2>1. q.state = pbState /\ q.type = pbType /\ q.metric = pbMetric /\ q.segments = pbs
    BY <1>4
  <2>2. v = [q EXCEPT !.state = policyStateFromPB(q.state), !.type = policyTypeFromPB(q.type),
                      !.metric = metricTypeFromPB(q.metric),
                      !.segments = [k \in 1 .. Len(q.segments) |-> segmentFromPB(q.segments[k])]]
    BY <1>1, Zenon DEF convertSRPolicy
  <2>3. /\ state = policyStateFromPB(q.state) /\ type = policyTypeFromPB(q.type)
        /\ metric = metricTypeFromPB(q.metric)
        /\ list = [k \in 1 .. Len(q.segments) |-> segmentFromPB(q.segments[k])]
    BY <1>5, <1>6, <2>1
  <2> QED
    BY <2>2, <2>3, Zenon
<1>9. /\ v.plsp = p.plsp /\ v.color = p.key[1] /\ v.dstAddr = p.key[2] /\ v.segments = list
      /\ v.dstRouters = ids /\ v.state = state /\ v.type = type /\ v.metric = metric
  BY <1>4, <1>8
<1>10. <<v.color, v.dstAddr>> = p.key
  BY <1>9 DEF IsPolicy, Describes, IsKey
<1>11. ShowsPolicy(v, p)
  BY <1>7, <1>9, <1>10 DEF ShowsPolicy
<1> QED
  BY <1>1, <1>3, <1>4, <1>9, <1>11

------------------------------------------------------------------------------
(* SortFunc: policies of different PLSP-IDs have one place each, which is  *)
(* the number of those that do not come after them.                        *)

Before(p, q) == p.color < q.color \/ (p.color = q.color /\ p.plsp < q.plsp)
Comparable(all, n) ==
    /\ DOMAIN all = 1 .. n
    /\ \A j \in 1 .. n : all[j].color \in Nat /\ all[j].plsp \in Nat
    /\ \A j, k \in 1 .. n : all[j].plsp = all[k].plsp => j = k

LEMMA Sortable ==
    ASSUME NEW n \in Nat, NEW all, Comparable(all, n)
    PROVE  \E f \in Bijection(1 .. n, 1 .. n) : Sorts(f, all)
<1> DEFINE D == 1 .. n
           upTo(k) == {j \in D : j = k \/ Before(all[j], all[k])}
           rank == [k \in D |-> Cardinality(upTo(k))]
<1>1. \A j \in D : all[j].color \in Nat /\ all[j].plsp \in Nat
  BY DEF Comparable
<1>2. \A j, k \in D : j # k => Before(all[j], all[k]) \/ Before(all[k], all[j])
  BY <1>1 DEF Before, Comparable
<1>3. \A j, k \in D : ~(Before(all[j], all[k]) /\ Before(all[k], all[j]))
  BY <1>1 DEF Before
<1>4. \A i, j, k \in D : Before(all[i], all[j]) /\ Before(all[j], all[k]) => Before(all[i], all[k])
  BY <1>1 DEF Before
<1>5. IsFiniteSet(D) /\ Cardinality(D) = n
  BY FS_Interval
<1>6. ASSUME NEW k \in D
      PROVE  IsFiniteSet(upTo(k)) /\ rank[k] \in D
  <2>1. upTo(k) \in SUBSET D
    OBVIOUS
  <2>2. IsFiniteSet(upTo(k)) /\ Cardinality(upTo(k)) <= n /\ Cardinality(upTo(k)) \in Nat
    BY <1>5, <2>1, FS_Subset, FS_CardinalityType
  <2>3. Cardinality(upTo(k)) # 0
    <3>1. k \in upTo(k)
      OBVIOUS
    <3> HIDE DEF upTo
    <3> QED
      BY <2>2, <3>1, FS_EmptySet
  <2> HIDE DEF upTo
  <2> QED
    BY <2>2, <2>3
<1>7. ASSUME NEW j \in D, NEW k \in D, Before(all[j], all[k])
      PROVE  rank[j] < rank[k]
  <2>1. upTo(j) \in SUBSET upTo(k)
    BY <1>4, <1>7
  <2>2. k \in upTo(k) /\ k \notin upTo(j)
    BY <1>3, <1>7
  <2>3. rank[j] = Cardinality(upTo(j)) /\ rank[k] = Cardinality(upTo(k))
    OBVIOUS
  <2>4. rank[j] \in Nat /\ rank[k] \in Nat /\ IsFiniteSet(upTo(k))
    BY <1>6
  <2> HIDE DEF upTo, rank
  <2>5. Cardinality(upTo(j)) <= Cardinality(upTo(k))
    BY <2>1, <2>4, FS_Subset
  <2>6. Cardinality(upTo(j)) # Cardinality(upTo(k))
    BY <2>1, <2>2, <2>4, FS_Subset
  <2> QED
    BY <2>3, <2>4, <2>5, <2>6
<1>8. rank \in [D -> D]
  BY <1>6
<1> HIDE DEF upTo, rank
<1>9. \A j, k \in D : rank[j] = rank[k] => j = k
  <2> SUFFICES ASSUME NEW j \in D, NEW k \in D, rank[j] = rank[k], j # k PROVE FALSE
    OBVIOUS
  <2>1. rank[j] < rank[k] \/ rank[k] < rank[j]
    BY <1>2, <1>7
  <2> QED
    BY <1>8, <2>1
<1>10. rank \in Injection(D, D)
  BY <1>8, <1>9 DEF Injection, IsInjective
<1>11. rank \in Surjection(D, D)
  BY <1>5, <1>10, FS_Injection
<1>12. \A i \in D : \E k \in D : rank[k] = i
  BY <1>8, <1>11 DEF Surjection
<1>13. PICK f : f = [i \in D |-> CHOOSE k \in D : rank[k] = i]
  OBVIOUS
<1>14. f \in [D -> D] /\ \A i \in D : rank[f[i]] = i
  BY <1>12, <1>13
<1>15. f \in Injection(D, D)
  BY <1>14 DEF Injection, IsInjective
<1>16. f \in Surjection(D, D)
  BY <1>5, <1>15, FS_Injection
<1>17. ASSUME NEW j \in D, NEW k \in D, j <= k
       PROVE  ByColorAndPlsp(all[f[j]], all[f[k]])
  <2>1. f[j] \in D /\ f[k] \in D
    BY <1>14
  <2>2. ~Before(all[f[k]], all[f[j]])
    <3>1. ~(rank[f[k]] < rank[f[j]])
      BY <1>14, <1>17
    <3> QED
      BY <1>7, <2>1, <3>1
  <2>3. PICK p, q : p = all[f[j]] /\ q = all[f[k]]
    OBVIOUS
  <2>4. p.color \in Nat /\ p.plsp \in Nat /\ q.color \in Nat /\ q.plsp \in Nat
    BY <1>1, <2>1, <2>3
  <2> QED
    BY <2>2, <2>3, <2>4 DEF Before, ByColorAndPlsp
<1>18. DOMAIN all = D
  BY DEF Comparable
<1>19. Sorts(f, all)
  BY <1>17, <1>18 DEF Sorts
<1> QED
  BY <1>15, <1>16, <1>19 DEF Bijection

LEMMA Sorted ==
    ASSUME NEW n \in Nat, NEW all, Comparable(all, n)
    PROVE  \E f \in Bijection(1 .. n, 1 .. n) :
              /\ SortFunc(all) = [j \in 1 .. n |-> all[f[j]]]
              /\ \A j, k \in 1 .. n : j < k => Before(all[f[j]], all[f[k]])
<1>1. DOMAIN all = 1 .. n
  BY DEF Comparable
<1>2. PICK f : f = CHOOSE g \in Bijection(DOMAIN all, DOMAIN all) : Sorts(g, all)
  OBVIOUS
<1>3. f \in Bijection(1 .. n, 1 .. n) /\ Sorts(f, all)
  BY <1>1, <1>2, Sortable
<1>4. SortFunc(all) = [j \in 1 .. n |-> all[f[j]]]
  BY <1>1, <1>2 DEF SortFunc
<1>5. ASSUME NEW j \in 1 .. n, NEW k \in 1 .. n, j < k
      PROVE  Before(all[f[j]], all[f[k]])
  <2>1. f[j] \in 1 .. n /\ f[k] \in 1 .. n /\ f[j] # f[k]
    BY <1>3, <1>5 DEF Bijection, Injection, IsInjective
  <2>2. ByColorAndPlsp(all[f[j]], all[f[k]])
    BY <1>1, <1>3, <1>5 DEF Sorts
  <2>3. PICK p, q : p = all[f[j]] /\ q = all[f[k]]
    OBVIOUS
  <2>4. p.color \in Nat /\ p.plsp \in Nat /\ q.color \in Nat /\ q.plsp \in Nat /\ p.plsp # q.plsp
    BY <2>1, <2>3 DEF Comparable
  <2> QED
    BY <2>2, <2>3, <2>4 DEF Before, ByColorAndPlsp
<1> QED
  BY <1>3, <1>4, <1>5

------------------------------------------------------------------------------
(* SRPolicies: a session that was synchronized, the last of its address.   *)

LEMMA MaxIsGreatest ==
    ASSUME NEW n \in Nat, NEW S \in SUBSET (1 .. n), S # {}
    PROVE  Max(S) \in S
<1> DEFINE T == {d \in Nat : \E x \in S : n - d = x}
<1>1. T \in SUBSET Nat /\ T # {}
  <2>1. PICK x \in S : TRUE
    OBVIOUS
  <2>2. n - x \in Nat /\ n - (n - x) = x
    BY <2>1
  <2>3. n - x \in T
    BY <2>1, <2>2
  <2> QED
    BY <2>3
<1>2. Min(T) \in T /\ \A d \in T : Min(T) <= d
  BY <1>1, MinIsLeast
<1>3. PICK d \in T : \A e \in T : d <= e
  BY <1>2
<1>4. PICK x \in S : n - d = x
  OBVIOUS
<1>5. ASSUME NEW y \in S PROVE x >= y
  <2>1. n - y \in Nat /\ n - (n - y) = y
    OBVIOUS
  <2>2. n - y \in T
    BY <2>1
  <2>3. d <= n - y /\ d \in Nat
    BY <1>3, <2>2
  <2> QED
    BY <1>4, <2>3
<1> QED
  BY <1>5 DEF Max

(* What the list shows of a session's policies.                            *)
ListsAll(view, all) ==
    /\ Len(view) = Len(all) /\ Len(all) \in Nat
    /\ \A j \in 1 .. Len(all) : \E k \in 1 .. Len(all) : ShowsPolicy(view[k], all[j])
    /\ \A j \in 1 .. (Len(all) - 1) :
          \/ view[j].color < view[j + 1].color
          \/ view[j].color = view[j + 1].color /\ view[j].plsp < view[j + 1].plsp
    /\ \A j \in 1 .. Len(all) : view[j].dstRouters = RouterIDsOf(view[j].dstAddr)

LEMMA RegistryIsListed ==
    ASSUME NEW held, NEW all, PoliciesFit(held, all),
           NEW peer, all = SRPolicies(peer), NEW view, view = ClientPolicies(peer)
    PROVE  ListsAll(view, all)
<1>1. PICK n \in Nat : n = Len(all)
  BY SequenceLen DEF PoliciesFit
<1>2. PICK pbs : pbs = [j \in 1 .. n |-> buildPBSRPolicy(all[j])]
  OBVIOUS
<1>3. \A j \in 1 .. n : /\ Names(held, all[j].plsp, all[j].key) /\ IsPolicy(all[j])
                          /\ pbs[j] = buildPBSRPolicy(all[j])
  BY <1>1, <1>2 DEF PoliciesFit
<1>4. \A j \in 1 .. n : /\ pbs[j].plsp = all[j].plsp /\ pbs[j].color = all[j].key[1]
                          /\ all[j].plsp \in Nat /\ all[j].key[1] \in Nat
  <2> TAKE j \in 1 .. n
  <2>1. all[j].plsp \in Nat
    BY <1>3 DEF Names
  <2>2. all[j].key[1] \in Nat
    BY <1>3 DEF IsPolicy, Describes, IsKey
  <2> QED
    BY <1>3, <2>1, <2>2, PolicyComesBack
<1>5. Comparable(pbs, n)
  <2>1. \A j, k \in 1 .. n : all[j].plsp = all[k].plsp => j = k
    BY <1>1 DEF PoliciesFit
  <2> QED
    BY <1>2, <1>4, <2>1 DEF Comparable
<1>6. PICK f \in Bijection(1 .. n, 1 .. n) :
         /\ SortFunc(pbs) = [j \in 1 .. n |-> pbs[f[j]]]
         /\ \A j, k \in 1 .. n : j < k => Before(pbs[f[j]], pbs[f[k]])
  BY <1>5, Sorted
<1>7. f \in [1 .. n -> 1 .. n] /\ \A j \in 1 .. n : \E k \in 1 .. n : f[k] = j
  BY <1>6 DEF Bijection, Injection, Surjection
<1>8. PICK list : list = GetSRPolicyList(peer)
  OBVIOUS
<1>9. list = [j \in 1 .. n |-> pbs[f[j]]] /\ list = [j \in 1 .. n |-> list[j]]
  BY <1>1, <1>2, <1>6, <1>8 DEF GetSRPolicyList
<1>10. Len(list) = n
  BY <1>9, SequenceByIndex
<1>11. view = [j \in 1 .. n |-> convertSRPolicy(list[j])]
  BY <1>8, <1>10 DEF ClientPolicies
<1>12. view = [j \in 1 .. n |-> view[j]]
  BY <1>11
<1>13. Len(view) = n
  BY <1>12, SequenceByIndex
<1>14. ASSUME NEW j \in 1 .. n
       PROVE  /\ view[j].plsp = pbs[f[j]].plsp /\ view[j].color = pbs[f[j]].color
              /\ view[j].dstRouters = RouterIDsOf(view[j].dstAddr)
              /\ ShowsPolicy(view[j], all[f[j]])
  <2>1. f[j] \in 1 .. n
    BY <1>7
  <2>2. view[j] = convertSRPolicy(pbs[f[j]])
    BY <1>9, <1>11
  <2>3. pbs[f[j]] = buildPBSRPolicy(all[f[j]]) /\ IsPolicy(all[f[j]])
    BY <1>3, <2>1
  <2> QED
    BY <2>2, <2>3, PolicyComesBack
<1>15. ASSUME NEW j \in 1 .. (n - 1)
       PROVE  \/ view[j].color < view[j + 1].color
              \/ view[j].color = view[j + 1].color /\ view[j].plsp < view[j + 1].plsp
  <2>1. j \in 1 .. n /\ j + 1 \in 1 .. n /\ j < j + 1
    OBVIOUS
  <2>2. Before(pbs[f[j]], pbs[f[j + 1]])
    BY <1>6, <2>1
  <2> QED
    BY <1>14, <2>1, <2>2 DEF Before
<1>16. \A j \in 1 .. n : \E k \in 1 .. n : ShowsPolicy(view[k], all[j])
  BY <1>7, <1>14
<1> QED
  BY <1>1, <1>13, <1>14, <1>15, <1>16 DEF ListsAll

LEMMA PoliciesAreShown == TableInv /\ IInv => ListShowsPolicies
<1> SUFFICES ASSUME TableInv, IInv, NEW peer \in Peers, NEW view, view = ClientPolicies(peer)
             PROVE  /\ \E i \in SyncedWith(peer) :
                          /\ Len(view) = Len(sessions[i].policies)
                          /\ \A j \in 1 .. Len(view) : \E k \in 1 .. Len(view) :
                                ShowsPolicy(view[k], sessions[i].policies[j])
                    /\ \A j \in 1 .. (Len(view) - 1) :
                          \/ view[j].color < view[j + 1].color
                          \/ view[j].color = view[j + 1].color /\ view[j].plsp < view[j + 1].plsp
                    /\ \A j \in 1 .. Len(view) :
                          view[j].dstRouters = {r \in AnnouncedRouters(source) :
                                                   AnnouncesHost(source, r, view[j].dstAddr)}
  BY DEF ListShowsPolicies
<1>1. SyncedWith(peer) \in SUBSET (1 .. Len(sessions)) /\ Len(sessions) \in Nat
  BY SequenceLen DEF SyncedWith, IInv, ListsFit
<1>2. SyncedWith(peer) # {}
  BY DEF Peers, SyncedWith
<1>3. PICK i \in SyncedWith(peer) : i = Max(SyncedWith(peer))
  BY <1>1, <1>2, MaxIsGreatest
<1>4. PICK held, all : held = lsps[i] /\ all = sessions[i].policies
  OBVIOUS
<1>5. PoliciesFit(held, all) /\ all = SRPolicies(peer)
  BY <1>1, <1>3, <1>4, OneSession DEF SessionFits, SRPolicies
<1>6. ListsAll(view, all)
  BY <1>5, RegistryIsListed
<1> QED
  BY <1>3, <1>4, <1>6, HostsShown DEF ListsAll

(* For every registry and whatever order reports left it in: the client    *)
(* shows the policies of a synchronized session, each once and in order,   *)
(* and attributes each to the routers that announced its endpoint.         *)
THEOREM ListShowsTheRegistry == Spec => []ListShowsPolicies
BY TableInvariant, Invariant, PoliciesAreShown, PTL
=============================================================================
