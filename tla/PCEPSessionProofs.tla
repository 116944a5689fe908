-------------------------- MODULE PCEPSessionProofs --------------------------
(***************************************************************************)
(* Proofs about PCEPSession, for any number of gRPC handlers, any set of   *)
(* policies and any width of SRP-IDs and LSP-IDs, and with no bound on     *)
(* requests or on the changes of the PCC.                                  *)
(***************************************************************************)
EXTENDS PCEPSession, FiniteSetsExt, WellFoundedInduction, SequenceTheorems, FiniteSetTheorems, TLAPS

(* A set of naturals that has a member has a least one.                    *)
LEMMA MinIsLeast ==
    ASSUME NEW S \in SUBSET Nat, S # {}
    PROVE  Min(S) \in S /\ \A n \in S : Min(S) <= n
<1> DEFINE R == OpToRel(<, Nat)
<1>1. IsWellFoundedOn(R, Nat)
  BY NatLessThanWellFounded
<1>2. \A x, y \in Nat : y < x => <<y, x>> \in R
  BY DEF OpToRel
<1> HIDE DEF R
<1>3. PICK x \in S : \A y \in S : ~(<<y, x>> \in R)
  BY <1>1, WFMin
<1>4. \A y \in S : x <= y
  <2> SUFFICES ASSUME NEW y \in S PROVE x <= y
    OBVIOUS
  <2>1. x \in Nat /\ y \in Nat /\ ~(y < x)
    BY <1>2, <1>3
  <2> QED
    BY <2>1
<1> QED
  BY <1>4 DEF Min

(* RemovePolicy shortens the list by one and moves its last policy only.   *)
LEMMA RemovePolicyList ==
    ASSUME TypeOK, NEW i \in 1 .. Len(policies)
    PROVE  /\ RemovePolicy(i) \in Seq(Policies)
           /\ Len(RemovePolicy(i)) = Len(policies) - 1
           /\ \A j \in 1 .. (Len(policies) - 1) :
                 RemovePolicy(i)[j] =
                    IF j = i THEN policies[Len(policies)] ELSE policies[j]
<1> DEFINE q == [policies EXCEPT ![i] = Last(policies)]
<1>1. policies \in Seq(Policies) /\ Len(policies) \in Nat
  BY DEF TypeOK
<1>2. Last(policies) = policies[Len(policies)] /\ Last(policies) \in Policies
  BY <1>1 DEF Last
<1>3. /\ q \in Seq(Policies) /\ Len(q) = Len(policies)
      /\ \A j \in 1 .. Len(policies) : q[j] = IF j = i THEN Last(policies) ELSE policies[j]
  BY <1>1, <1>2, ExceptSeq
<1>4. RemovePolicy(i) = SubSeq(q, 1, Len(policies) - 1)
  BY <1>3 DEF RemovePolicy, Front
<1> HIDE DEF q
<1>5. \A j \in 1 .. (Len(policies) - 1) : q[j] \in Policies
  BY <1>1, <1>3
<1>6. /\ SubSeq(q, 1, Len(policies) - 1) \in Seq(Policies)
      /\ Len(SubSeq(q, 1, Len(policies) - 1)) = Len(policies) - 1
      /\ \A j \in 1 .. (Len(policies) - 1) :
            SubSeq(q, 1, Len(policies) - 1)[j] = q[j]
  <2> DEFINE n == Len(policies) - 1
  <2>1. n \in Int /\ n >= 0 /\ 1 \in Int /\ \A j \in 1 .. n : q[j] \in Policies
    BY <1>1, <1>5
  <2> HIDE DEF n
  <2>2. /\ SubSeq(q, 1, n) \in Seq(Policies)
        /\ Len(SubSeq(q, 1, n)) = IF 1 <= n THEN n - 1 + 1 ELSE 0
        /\ \A j \in 1 .. (n - 1 + 1) : SubSeq(q, 1, n)[j] = q[1 + j - 1]
    BY <2>1, SubSeqProperties
  <2>3. /\ Len(SubSeq(q, 1, n)) = n
        /\ \A j \in 1 .. n : SubSeq(q, 1, n)[j] = q[j]
    BY <2>1, <2>2
  <2> QED
    BY <2>2, <2>3 DEF n
<1> QED
  BY <1>1, <1>2, <1>3, <1>4, <1>6

(* An SRP-ID without an intent is among the candidates, which go once      *)
(* around the circle of IDs from wherever the head stands.                 *)
LEMMA CandidatesCover ==
    ASSUME srpIDHead \in 1 .. MaxSRPID, NEW id \in SRPID
    PROVE  \E k \in 0 .. (MaxSRPID - 2) : Candidate(k) = id
<1> DEFINE start == IF srpIDHead >= MaxSRPID THEN 1 ELSE srpIDHead
<1>1. start \in SRPID
  BY SessionAssumption DEF SRPID
<1>2. \A k \in 0 .. (MaxSRPID - 2) :
         Candidate(k) = IF start + k < MaxSRPID THEN start + k
                        ELSE start + k - (MaxSRPID - 1)
  BY SessionAssumption DEF Candidate
<1> HIDE DEF start
<1>3. CASE id >= start
  <2>1. id - start \in 0 .. (MaxSRPID - 2) /\ Candidate(id - start) = id
    BY <1>1, <1>2, <1>3, SessionAssumption DEF SRPID
  <2> QED
    BY <2>1
<1>4. CASE id < start
  <2>1. id - start + (MaxSRPID - 1) \in 0 .. (MaxSRPID - 2)
    BY <1>1, <1>4, SessionAssumption DEF SRPID
  <2>2. Candidate(id - start + (MaxSRPID - 1)) = id
    BY <1>1, <1>2, <1>4, <2>1, SessionAssumption DEF SRPID
  <2> QED
    BY <2>1, <2>2
<1> QED
  BY <1>1, <1>3, <1>4, SessionAssumption DEF SRPID

(* nextUnusedSRPID returns an ID that is neither reserved nor in use       *)
(* whenever there is one.                                                  *)
LEMMA NextUnusedIsFree ==
    ASSUME TypeOK, DOMAIN intents # SRPID
    PROVE  NextUnusedSRPID \in SRPID \ DOMAIN intents
<1> DEFINE K == {k \in 0 .. (MaxSRPID - 2) : Candidate(k) \notin DOMAIN intents}
<1>1. PICK id \in SRPID : id \notin DOMAIN intents
  BY DEF TypeOK
<1>2. PICK k \in 0 .. (MaxSRPID - 2) : Candidate(k) = id
  BY <1>1, CandidatesCover DEF TypeOK
<1>3. K \in SUBSET Nat /\ K # {}
  BY <1>1, <1>2, SessionAssumption
<1>4. Min(K) \in K
  BY <1>3, MinIsLeast
<1>5. \A j \in 0 .. (MaxSRPID - 2) : Candidate(j) \in SRPID
  BY SessionAssumption DEF Candidate, SRPID, TypeOK
<1> QED
  BY <1>4, <1>5 DEF NextUnusedSRPID

------------------------------------------------------------------------------
(* Types *)

(* What a sender works on is a request, with an SRP-ID once it has one.    *)
TasksTyped ==
    \A p \in Senders :
       /\ pc[p] \in {"allocate", "send", "forget"} => task[p] \in Requests
       /\ pc[p] \in {"send", "forget"} => task[p].srpID \in SRPID

Typed == TypeOK /\ TasksTyped

(* Every form in which the PCC may report an LSP is well typed.            *)
LEMMA ReportableTyped ==
    ASSUME NEW key \in Key, NEW lspID \in 0 .. MaxLSPID
    PROVE  Reportable(key, lspID) \subseteq LSPs
<1>1. Forms \subseteq [state : {"up", "down"}, ero : BOOLEAN]
  BY DEF Forms
<1> QED
  BY <1>1 DEF Reportable, LSPs

(* A request that is taken up is well typed.                               *)
LEMMA RequestTyped ==
    ASSUME NEW kind \in {"create", "update", "delete"}, NEW plsp \in Plsp \cup {0},
           NEW key \in Key, NEW setting \in Setting \cup {NoSetting}, NEW n \in Nat
    PROVE  [Request(kind, plsp, key, setting) EXCEPT !.req = n] \in Requests
<1>1. Request(kind, plsp, key, setting) \in Requests
  BY DEF Request, Requests
<1> QED
  BY <1>1 DEF Requests

(* So is every report the PCC makes of an LSP.                             *)
LEMMA ReportTyped ==
    ASSUME NEW srpID \in SRPID \cup {0}, NEW plsp \in Plsp, NEW lsp \in LSPs,
           NEW remove \in BOOLEAN, NEW sync \in BOOLEAN, NEW req \in Nat
    PROVE  Report(srpID, plsp, lsp, remove, sync, req) \in Reports
  BY DEF Report, Reports, LSPs

(* Dropping intents keeps what remains.                                    *)
LEMMA WithoutIntentsTyped ==
    ASSUME TypeOK, NEW S
    PROVE  /\ DOMAIN WithoutIntents(S) = DOMAIN intents \ S
           /\ \A id \in DOMAIN WithoutIntents(S) :
                 WithoutIntents(S)[id] \in Intents
  BY DEF WithoutIntents, Restrict, TypeOK

(* The LSP database as the PCC sends it is a sequence of reports.          *)
LEMMA SyncReportsTyped ==
    ASSUME NEW S \in SUBSET Plsp, NEW f \in [S -> LSPs], NEW order \in SetToSeqs(S)
    PROVE  SyncReports(f, order) \in Seq(Reports)
<1> DEFINE n == Cardinality(S)
<1>1. n \in Nat
  BY SessionAssumption, FS_Subset, FS_CardinalityType
<1> HIDE DEF n
<1>2. order \in [1 .. n -> S]
  BY DEF SetToSeqs, n
<1>3. \A i \in 1 .. n : f[order[i]] \in LSPs /\ order[i] \in Plsp
  BY <1>2
<1>4. \A i \in 1 .. n : Report(0, order[i], f[order[i]], FALSE, TRUE, 0) \in Reports
  BY <1>3, ReportTyped
<1>5. SyncReports(f, order) =
         [i \in 1 .. n |-> Report(0, order[i], f[order[i]], FALSE, TRUE, 0)]
  BY <1>2 DEF SyncReports
<1>6. SyncReports(f, order) \in [1 .. n -> Reports]
  BY <1>4, <1>5
<1> QED
  BY <1>1, <1>6

(* The first state is well typed.                                          *)
LEMMA TypedInit == Init => Typed
<1> SUFFICES ASSUME Init PROVE Typed
  OBVIOUS
<1> USE SessionAssumption
<1>1. PICK S \in SUBSET Plsp :
         \E f \in [S -> UNION {Reportable(k, 0) : k \in Key}] :
            /\ lsps = f
            /\ \E order \in SetToSeqs(S) :
                  toPCE = Append(SyncReports(f, order), EndOfSync)
  BY DEF Init
<1>2. \A k \in Key : Reportable(k, 0) \subseteq LSPs
  BY ReportableTyped
<1>3. /\ lsps \in [S -> LSPs]
      /\ \E order \in SetToSeqs(S) :
            toPCE = Append(SyncReports(lsps, order), EndOfSync)
  BY <1>1, <1>2
<1>4. toPCE \in Seq(Reports \cup PCErrs \cup {EndOfSync, Close})
  <2>1. PICK order \in SetToSeqs(S) :
           toPCE = Append(SyncReports(lsps, order), EndOfSync)
    BY <1>3
  <2>2. SyncReports(lsps, order) \in Seq(Reports)
    BY <1>3, SyncReportsTyped
  <2>3. SyncReports(lsps, order) \in Seq(Reports \cup PCErrs \cup {EndOfSync, Close})
    BY <2>2, SeqMonotonic
  <2> QED
    BY <2>1, <2>3, AppendProperties
<1>5. /\ DOMAIN lsps \subseteq Plsp
      /\ \A plsp \in DOMAIN lsps : lsps[plsp] \in LSPs
  BY <1>3
<1>6. DOMAIN intents = {} /\ policies \in Seq(Policies) /\ toPCC \in Seq(Requests)
  BY DEF Init
<1>7. TasksTyped
  BY DEF Init, TasksTyped
<1>8. /\ pc \in [Senders -> {"idle", "allocate", "send", "forget", "ended"}]
      /\ task \in [Senders -> Requests \cup {NoTask}]
      /\ closer \in [{"established", "deleteSession"} ->
                        {"running", "closeConn", "clear", "unlist", "done"}]
  BY DEF Init
<1>9. /\ conn \in {"up", "reset", "closed"}
      /\ listed \in BOOLEAN /\ isSynced \in BOOLEAN
      /\ sweeping \in BOOLEAN /\ tainted \in BOOLEAN
  BY DEF Init
<1>10. /\ srpIDHead \in 1 .. MaxSRPID
       /\ requests \in Nat /\ events \in 0 .. MaxEvents
       /\ orphans \subseteq Nat /\ missed \subseteq Plsp
  BY DEF Init
<1> QED
  BY <1>4, <1>5, <1>6, <1>7, <1>8, <1>9, <1>10 DEF Typed, TypeOK

(* What the receiver reads is a message of the kind it says it is.         *)
LEMMA HeadTyped ==
    ASSUME TypeOK, toPCE # <<>>
    PROVE  /\ Tail(toPCE) \in Seq(Reports \cup PCErrs \cup {EndOfSync, Close})
           /\ Head(toPCE).kind = "report" => Head(toPCE) \in Reports
           /\ Head(toPCE).kind = "pcErr" => Head(toPCE) \in PCErrs
<1>1. /\ Tail(toPCE) \in Seq(Reports \cup PCErrs \cup {EndOfSync, Close})
      /\ Head(toPCE) \in Reports \cup PCErrs \cup {EndOfSync, Close}
  BY HeadTailProperties DEF TypeOK
<1>2. \A m \in Reports : m.kind = "report"
  BY DEF Reports
<1>3. \A m \in PCErrs : m.kind = "pcErr"
  BY DEF PCErrs
<1>4. EndOfSync.kind = "endOfSync" /\ Close.kind = "close"
  BY DEF EndOfSync, Close
<1> QED
  BY <1>1, <1>2, <1>3, <1>4

(* A search that finds something finds the first policy of that PLSP-ID.   *)
LEMMA FirstWithPlsp ==
    ASSUME TypeOK, NEW plsp, WithPlsp(plsp) # {}
    PROVE  /\ Min(WithPlsp(plsp)) \in 1 .. Len(policies)
           /\ policies[Min(WithPlsp(plsp))].plsp = plsp
<1>1. WithPlsp(plsp) \in SUBSET Nat
  BY DEF WithPlsp
<1>2. Min(WithPlsp(plsp)) \in WithPlsp(plsp)
  BY <1>1, MinIsLeast
<1> QED
  BY <1>2 DEF WithPlsp

(* A registered report leaves the list, the intents and the history typed. *)
LEMMA RegisterTyped ==
    ASSUME TypeOK, NEW r \in Reports, RegisterSRPolicy(r)
    PROVE  /\ policies' \in Seq(Policies)
           /\ DOMAIN intents' \subseteq SRPID
           /\ \A id \in DOMAIN intents' : intents'[id] \in Intents
           /\ missed' \subseteq Plsp
<1> DEFINE settingFor(old) ==
              IF r.srpID \in DOMAIN intents THEN intents[r.srpID].setting ELSE old
           policy(old) ==
              [plsp |-> r.plsp, key |-> r.key, lspID |-> r.lspID, state |-> r.state,
               setting |-> settingFor(old)]
           at == Min(WithPlsp(r.plsp))
<1>1. \A old \in Setting \cup {NoSetting} : policy(old) \in Policies
  BY DEF TypeOK, Intents, Reports, Policies
<1>2. /\ DOMAIN WithoutIntents({r.srpID}) \subseteq SRPID
      /\ \A id \in DOMAIN WithoutIntents({r.srpID}) :
            WithoutIntents({r.srpID})[id] \in Intents
  BY WithoutIntentsTyped DEF TypeOK
<1>3. r.plsp \in Plsp
  BY DEF Reports
<1>4. CASE WithPlsp(r.plsp) = {}
  <2>1. policies' = Append(policies, policy(NoSetting))
    BY <1>4 DEF RegisterSRPolicy
  <2>2. policies' \in Seq(Policies)
    BY <1>1, <2>1, AppendProperties DEF TypeOK
  <2> QED
    BY <1>2, <1>3, <1>4, <2>2 DEF RegisterSRPolicy, TypeOK
<1>5. CASE WithPlsp(r.plsp) # {} /\ UpToDate(at, r)
  <2>1. at \in 1 .. Len(policies)
    BY <1>5, FirstWithPlsp
  <2>2. policies[at].setting \in Setting \cup {NoSetting}
    <3>1. policies[at] \in Policies
      BY <2>1, ElementOfSeq DEF TypeOK
    <3> QED
      BY <3>1 DEF Policies
  <2>3. policies' = [policies EXCEPT ![at] = policy(policies[at].setting)]
    BY <1>5 DEF RegisterSRPolicy
  <2> HIDE DEF at, policy
  <2>4. policies' \in Seq(Policies)
    BY <1>1, <2>1, <2>2, <2>3, ExceptSeq DEF TypeOK
  <2> QED
    BY <1>2, <1>3, <1>5, <2>4 DEF RegisterSRPolicy, TypeOK, at
<1>6. CASE WithPlsp(r.plsp) # {} /\ ~UpToDate(at, r)
  BY <1>3, <1>6 DEF RegisterSRPolicy, TypeOK
<1> QED
  BY <1>4, <1>5, <1>6

(* So it is when a removed policy is taken off.                            *)
LEMMA DeleteTyped ==
    ASSUME TypeOK, NEW r \in Reports, DeleteReported(r)
    PROVE  /\ policies' \in Seq(Policies)
           /\ DOMAIN intents' \subseteq SRPID
           /\ \A id \in DOMAIN intents' : intents'[id] \in Intents
           /\ missed' \subseteq Plsp
<1> DEFINE old == {i \in WithPlsp(r.plsp) : UpToDate(i, r)}
<1>1. CASE old # {}
  <2>1. old \in SUBSET Nat /\ old \subseteq 1 .. Len(policies)
    BY DEF WithPlsp
  <2>2. Min(old) \in 1 .. Len(policies)
    BY <1>1, <2>1, MinIsLeast
  <2>3. RemovePolicy(Min(old)) \in Seq(Policies)
    BY <2>2, RemovePolicyList
  <2>4. /\ DOMAIN WithoutIntents({r.srpID}) \subseteq SRPID
        /\ \A id \in DOMAIN WithoutIntents({r.srpID}) :
              WithoutIntents({r.srpID})[id] \in Intents
    BY WithoutIntentsTyped DEF TypeOK
  <2> QED
    BY <1>1, <2>3, <2>4 DEF DeleteReported, TypeOK
<1>2. CASE old = {}
  BY <1>2 DEF DeleteReported, TypeOK, Reports
<1> QED
  BY <1>1, <1>2

(* A policy that was registered is found again.                            *)
LEMMA RegisteredIsListed ==
    ASSUME TypeOK, NEW r \in Reports, RegisterSRPolicy(r)
    PROVE  \E i \in 1 .. Len(policies') : policies'[i].plsp = r.plsp
<1> DEFINE settingFor(old) ==
              IF r.srpID \in DOMAIN intents THEN intents[r.srpID].setting ELSE old
           policy(old) ==
              [plsp |-> r.plsp, key |-> r.key, lspID |-> r.lspID, state |-> r.state,
               setting |-> settingFor(old)]
           at == Min(WithPlsp(r.plsp))
<1>1. \A old \in Setting \cup {NoSetting} : policy(old) \in Policies
  BY DEF TypeOK, Intents, Reports, Policies
<1>2. CASE WithPlsp(r.plsp) = {}
  <2>1. policies' = Append(policies, policy(NoSetting))
    BY <1>2 DEF RegisterSRPolicy
  <2>2. /\ Len(policies') = Len(policies) + 1
        /\ policies'[Len(policies) + 1] = policy(NoSetting)
    BY <1>1, <2>1, AppendProperties DEF TypeOK
  <2>3. Len(policies) + 1 \in 1 .. Len(policies')
    BY <2>2, LenProperties DEF TypeOK
  <2> QED
    BY <2>2, <2>3
<1>3. CASE WithPlsp(r.plsp) # {} /\ UpToDate(at, r)
  <2>1. at \in 1 .. Len(policies)
    BY <1>3, FirstWithPlsp
  <2>2. policies' = [policies EXCEPT ![at] = policy(policies[at].setting)]
    BY <1>3 DEF RegisterSRPolicy
  <2> HIDE DEF at
  <2>3. Len(policies') = Len(policies) /\ policies'[at] = policy(policies[at].setting)
    BY <2>1, <2>2 DEF TypeOK
  <2> QED
    BY <2>1, <2>3
<1>4. CASE WithPlsp(r.plsp) # {} /\ ~UpToDate(at, r)
  BY <1>4, FirstWithPlsp DEF RegisterSRPolicy
<1> QED
  BY <1>2, <1>3, <1>4

(* The PCC sends well-typed answers and reports.                           *)
LEMMA PCCTyped == Typed /\ PCCStep => Typed'
<1> SUFFICES ASSUME Typed, PCCStep PROVE Typed'
  OBVIOUS
<1> USE SessionAssumption
        DEF Typed, TypeOK, TasksTyped, sessionVars, intentVars, senderVars, policyVars
<1> DEFINE Messages == Reports \cup PCErrs \cup {EndOfSync, Close}
<1>1. toPCC # <<>> => /\ Head(toPCC) \in Requests
                      /\ Tail(toPCC) \in Seq(Requests)
  BY HeadTailProperties
<1>2. \A m \in Messages : Append(toPCE, m) \in Seq(Messages)
  BY AppendProperties
<1>3. \A lspID \in 0 .. MaxLSPID : NextLSPID(lspID) \in 0 .. MaxLSPID
  BY DEF NextLSPID
<1>4. ASSUME NEW m \in Messages, Answering, Answer(m),
             DOMAIN lsps' \subseteq Plsp,
             \A plsp \in DOMAIN lsps' : lsps'[plsp] \in LSPs
      PROVE  Typed'
  <2>1. toPCC' \in Seq(Requests) /\ toPCE' \in Seq(Messages)
    BY <1>1, <1>2, <1>4 DEF Answering, Answer
  <2>2. /\ UNCHANGED <<conn, listed, isSynced, sweeping, closer, policies, missed>>
        /\ UNCHANGED <<srpIDHead, intents, orphans, tainted, pc, task, requests,
                       events>>
    BY <1>4 DEF Answer
  <2>3. TasksTyped'
    BY <2>2
  <2>4. TypeOK'
    BY <1>4, <2>1, <2>2
  <2> QED
    BY <2>3, <2>4
<1>5. ASSUME NEW m \in Messages, Unasked, toPCE' = Append(toPCE, m),
             DOMAIN lsps' \subseteq Plsp,
             \A plsp \in DOMAIN lsps' : lsps'[plsp] \in LSPs
      PROVE  Typed'
  <2>1. toPCE' \in Seq(Messages) /\ events' \in 0 .. MaxEvents
    BY <1>2, <1>5 DEF Unasked
  <2>2. /\ UNCHANGED <<conn, listed, isSynced, sweeping, closer, policies, missed>>
        /\ UNCHANGED <<srpIDHead, intents, orphans, tainted, pc, task, requests,
                       toPCC>>
    BY <1>5 DEF Unasked
  <2>3. TasksTyped'
    BY <2>2
  <2>4. TypeOK'
    BY <1>5, <2>1, <2>2
  <2> QED
    BY <2>3, <2>4
<1>6. CASE PCCCreates
  <2>1. Head(toPCC) \in Requests /\ Answering
    BY <1>1, <1>6 DEF PCCCreates, Answering
  <2>2. PICK plsp \in Plsp \ DOMAIN lsps,
             lsp \in Reportable(Head(toPCC).key, 0) :
           /\ lsps' = [q \in DOMAIN lsps \cup {plsp} |->
                          IF q = plsp THEN lsp ELSE lsps[q]]
           /\ Answer(Report(Head(toPCC).srpID, plsp, lsp, FALSE, FALSE,
                            Head(toPCC).req))
    BY <1>6 DEF PCCCreates
  <2>3. lsp \in LSPs
    BY <2>1, ReportableTyped DEF Requests
  <2>4. Report(Head(toPCC).srpID, plsp, lsp, FALSE, FALSE, Head(toPCC).req) \in Reports
    BY <2>1, <2>3, ReportTyped DEF Requests
  <2> QED
    BY <1>4, <2>1, <2>2, <2>3, <2>4
<1>7. CASE PCCUpdates
  <2> DEFINE plsp == Head(toPCC).plsp
  <2>1. Head(toPCC) \in Requests /\ Answering /\ plsp \in DOMAIN lsps
    BY <1>1, <1>7 DEF PCCUpdates, Answering
  <2>2. lsps[plsp] \in LSPs
    BY <2>1
  <2>3. PICK lspID \in {lsps[plsp].lspID, NextLSPID(lsps[plsp].lspID)} :
           \E lsp \in Reportable(lsps[plsp].key, lspID) :
              /\ lsps' = [lsps EXCEPT ![plsp] = lsp]
              /\ Answer(Report(Head(toPCC).srpID, plsp, lsp, FALSE, FALSE,
                               Head(toPCC).req))
    BY <1>7 DEF PCCUpdates
  <2>4. PICK lsp \in Reportable(lsps[plsp].key, lspID) :
           /\ lsps' = [lsps EXCEPT ![plsp] = lsp]
           /\ Answer(Report(Head(toPCC).srpID, plsp, lsp, FALSE, FALSE,
                            Head(toPCC).req))
    BY <2>3
  <2>5. lsp \in LSPs
    BY <1>3, <2>2, ReportableTyped DEF LSPs
  <2>6. Report(Head(toPCC).srpID, plsp, lsp, FALSE, FALSE, Head(toPCC).req) \in Reports
    BY <2>1, <2>5, ReportTyped DEF Requests
  <2> QED
    BY <1>4, <2>1, <2>4, <2>5, <2>6
<1>8. CASE PCCDeletes
  <2> DEFINE plsp == Head(toPCC).plsp
  <2>1. /\ Head(toPCC) \in Requests /\ Answering /\ plsp \in DOMAIN lsps
        /\ lsps' = Restrict(lsps, DOMAIN lsps \ {plsp})
        /\ Answer(Report(Head(toPCC).srpID, plsp, lsps[plsp], TRUE, FALSE,
                         Head(toPCC).req))
    BY <1>1, <1>8 DEF PCCDeletes, Answering
  <2>2. Report(Head(toPCC).srpID, plsp, lsps[plsp], TRUE, FALSE, Head(toPCC).req)
           \in Reports
    BY <2>1, ReportTyped DEF Requests
  <2>3. /\ DOMAIN lsps' \subseteq Plsp
        /\ \A q \in DOMAIN lsps' : lsps'[q] \in LSPs
    BY <2>1 DEF Restrict
  <2> QED
    BY <1>4, <2>1, <2>2, <2>3
<1>9. CASE PCCRejects
  <2>1. PCErr(Head(toPCC).srpID, Head(toPCC).req) \in PCErrs
    BY <1>1, <1>9 DEF PCCRejects, Answering, PCErr, PCErrs, Requests
  <2> QED
    BY <1>4, <1>9, <2>1 DEF PCCRejects
<1>10. ASSUME NEW plsp \in Plsp, PCCChanges(plsp) PROVE Typed'
  <2>1. plsp \in DOMAIN lsps /\ lsps[plsp] \in LSPs
    BY <1>10 DEF PCCChanges
  <2>2. PICK lspID \in {lsps[plsp].lspID, NextLSPID(lsps[plsp].lspID)} :
           \E lsp \in Reportable(lsps[plsp].key, lspID) :
              /\ lsps' = [lsps EXCEPT ![plsp] = lsp]
              /\ toPCE' = Append(toPCE, Report(0, plsp, lsp, FALSE, FALSE, 0))
    BY <1>10 DEF PCCChanges
  <2>3. PICK lsp \in Reportable(lsps[plsp].key, lspID) :
           /\ lsps' = [lsps EXCEPT ![plsp] = lsp]
           /\ toPCE' = Append(toPCE, Report(0, plsp, lsp, FALSE, FALSE, 0))
    BY <2>2
  <2>4. lsp \in LSPs
    BY <1>3, <2>1, ReportableTyped DEF LSPs
  <2>5. Report(0, plsp, lsp, FALSE, FALSE, 0) \in Reports
    BY <2>4, ReportTyped
  <2> QED
    BY <1>5, <1>10, <2>1, <2>3, <2>4, <2>5 DEF PCCChanges
<1>11. ASSUME NEW plsp \in Plsp, PCCRemoves(plsp) PROVE Typed'
  <2>1. /\ plsp \in DOMAIN lsps
        /\ lsps' = Restrict(lsps, DOMAIN lsps \ {plsp})
        /\ toPCE' = Append(toPCE, Report(0, plsp, lsps[plsp], TRUE, FALSE, 0))
    BY <1>11 DEF PCCRemoves
  <2>2. Report(0, plsp, lsps[plsp], TRUE, FALSE, 0) \in Reports
    BY <2>1, ReportTyped
  <2>3. /\ DOMAIN lsps' \subseteq Plsp
        /\ \A q \in DOMAIN lsps' : lsps'[q] \in LSPs
    BY <2>1 DEF Restrict
  <2> QED
    BY <1>5, <1>11, <2>1, <2>2, <2>3 DEF PCCRemoves
<1>12. CASE PCCCloses
  BY <1>5, <1>12 DEF PCCCloses
<1>13. CASE ConnectionBreaks
  <2>1. /\ UNCHANGED <<listed, isSynced, sweeping, closer, policies, missed, toPCE>>
        /\ UNCHANGED <<srpIDHead, intents, orphans, tainted, pc, task, requests,
                       lsps, events>>
        /\ conn' = "reset" /\ toPCC' = <<>>
    BY <1>13 DEF ConnectionBreaks, pccVars
  <2>2. TasksTyped'
    BY <2>1
  <2>3. TypeOK'
    BY <2>1
  <2> QED
    BY <2>2, <2>3
<1> QED
  BY <1>6, <1>7, <1>8, <1>9, <1>10, <1>11, <1>12, <1>13 DEF PCCStep

(* Every step keeps the types.                                             *)
LEMMA TypedStep == Typed /\ [Next]_vars => Typed'
<1> SUFFICES ASSUME Typed, [Next]_vars PROVE Typed'
  OBVIOUS
<1> USE SessionAssumption
        DEF Typed, TypeOK, TasksTyped, sessionVars, intentVars, senderVars, pccVars,
            policyVars
<1>1. ASSUME NEW h \in Handlers, NEW key \in Key, NEW setting \in Setting,
             CreateSRPolicy(h, key, setting)
      PROVE  Typed'
  <2>1. h \in Senders
    BY DEF Senders
  <2>2. WithKey(key) # {} => SearchPlspID(key) \in Plsp
    <3> SUFFICES ASSUME WithKey(key) # {} PROVE SearchPlspID(key) \in Plsp
      OBVIOUS
    <3>1. WithKey(key) \in SUBSET Nat /\ WithKey(key) \subseteq 1 .. Len(policies)
      BY DEF WithKey
    <3>2. Min(WithKey(key)) \in 1 .. Len(policies)
      BY <3>1, MinIsLeast
    <3>3. policies[Min(WithKey(key))] \in Policies
      BY <3>2, ElementOfSeq
    <3> QED
      BY <3>3 DEF SearchPlspID, Policies
  <2>3. task'[h] \in Requests
    <3>1. CASE WithKey(key) = {}
      <4>1. task'[h] = [Request("create", 0, key, setting) EXCEPT !.req = requests + 1]
        BY <1>1, <2>1, <3>1 DEF CreateSRPolicy, StartRequest
      <4>2. requests + 1 \in Nat /\ setting \in Setting \cup {NoSetting}
        OBVIOUS
      <4>3. [Request("create", 0, key, setting) EXCEPT !.req = requests + 1] \in Requests
        BY <4>2, RequestTyped
      <4> QED
        BY <4>1, <4>3
    <3>2. CASE WithKey(key) # {}
      <4>1. task'[h] = [Request("update", SearchPlspID(key), key, setting)
                           EXCEPT !.req = requests + 1]
        BY <1>1, <2>1, <3>2 DEF CreateSRPolicy, StartRequest
      <4>2. requests + 1 \in Nat /\ setting \in Setting \cup {NoSetting}
            /\ SearchPlspID(key) \in Plsp \cup {0}
        BY <2>2, <3>2
      <4>3. [Request("update", SearchPlspID(key), key, setting)
                EXCEPT !.req = requests + 1] \in Requests
        BY <4>2, RequestTyped
      <4> QED
        BY <4>1, <4>3
    <3> QED
      BY <3>1, <3>2
  <2>4. /\ task' \in [Senders -> Requests \cup {NoTask}]
        /\ \A p \in Senders \ {h} : task'[p] = task[p] /\ pc'[p] = pc[p]
        /\ pc'[h] = "allocate"
        /\ pc' \in [Senders -> {"idle", "allocate", "send", "forget", "ended"}]
    BY <1>1, <2>1, <2>3 DEF CreateSRPolicy, StartRequest
  <2>5. /\ UNCHANGED <<conn, listed, isSynced, sweeping, closer, policies, missed>>
        /\ UNCHANGED <<srpIDHead, intents, orphans, tainted, lsps, events, toPCC,
                       toPCE>>
        /\ requests' = requests + 1
    BY <1>1 DEF CreateSRPolicy, StartRequest, pccVars
  <2>6. TasksTyped'
    BY <2>3, <2>4
  <2>7. TypeOK'
    BY <2>4, <2>5
  <2> QED
    BY <2>6, <2>7
<1>2. ASSUME NEW h \in Handlers, NEW key \in Key, DeleteSRPolicy(h, key)
      PROVE  Typed'
  <2>1. h \in Senders
    BY DEF Senders
  <2>2. SearchPlspID(key) \in Plsp
    <3>1. /\ WithKey(key) \in SUBSET Nat /\ WithKey(key) \subseteq 1 .. Len(policies)
          /\ WithKey(key) # {}
      BY <1>2 DEF WithKey, DeleteSRPolicy
    <3>2. Min(WithKey(key)) \in 1 .. Len(policies)
      BY <3>1, MinIsLeast
    <3>3. policies[Min(WithKey(key))] \in Policies
      BY <3>2, ElementOfSeq
    <3> QED
      BY <3>3 DEF SearchPlspID, Policies
  <2>3. task'[h] \in Requests
    <3>1. task'[h] = [Request("delete", SearchPlspID(key), key, NoSetting)
                         EXCEPT !.req = requests + 1]
      BY <1>2, <2>1 DEF DeleteSRPolicy, StartRequest
    <3>2. requests + 1 \in Nat /\ SearchPlspID(key) \in Plsp \cup {0}
      BY <2>2
    <3>3. [Request("delete", SearchPlspID(key), key, NoSetting)
              EXCEPT !.req = requests + 1] \in Requests
      BY <3>2, RequestTyped
    <3> QED
      BY <3>1, <3>3
  <2>4. /\ task' \in [Senders -> Requests \cup {NoTask}]
        /\ \A p \in Senders \ {h} : task'[p] = task[p] /\ pc'[p] = pc[p]
        /\ pc'[h] = "allocate"
        /\ pc' \in [Senders -> {"idle", "allocate", "send", "forget", "ended"}]
    BY <1>2, <2>1, <2>3 DEF DeleteSRPolicy, StartRequest
  <2>5. /\ UNCHANGED <<conn, listed, isSynced, sweeping, closer, policies, missed>>
        /\ UNCHANGED <<srpIDHead, intents, orphans, tainted, lsps, events, toPCC,
                       toPCE>>
        /\ requests' = requests + 1
    BY <1>2 DEF DeleteSRPolicy, StartRequest, pccVars
  <2>6. TasksTyped'
    BY <2>3, <2>4
  <2>7. TypeOK'
    BY <2>4, <2>5
  <2> QED
    BY <2>6, <2>7
<1>3. ASSUME NEW p \in Senders, Allocate(p) PROVE Typed'
  <2> DEFINE id == NextUnusedSRPID
  <2>1. id \in SRPID
    BY <1>3, NextUnusedIsFree DEF Allocate
  <2> HIDE DEF id
  <2>2. /\ srpIDHead' = id + 1
        /\ intents' = [i \in DOMAIN intents \cup {id} |->
                 IF i = id THEN [setting |-> task[p].setting, req |-> task[p].req,
                                 overdue |-> FALSE]
                 ELSE intents[i]]
        /\ task' = [task EXCEPT ![p].srpID = id]
        /\ pc' = [pc EXCEPT ![p] = "send"]
        /\ pc[p] = "allocate"
    BY <1>3 DEF Allocate, id
  <2>3. srpIDHead' \in 1 .. MaxSRPID
    BY <2>1, <2>2 DEF SRPID
  <2>4. task[p] \in Requests
    BY <2>2
  <2>5. /\ DOMAIN intents' \subseteq SRPID
        /\ \A i \in DOMAIN intents' : intents'[i] \in Intents
    BY <2>1, <2>2, <2>4 DEF Requests, Intents
  <2>6. task'[p] \in Requests /\ task'[p].srpID \in SRPID
    BY <2>1, <2>2, <2>4 DEF Requests
  <2>7. /\ task' \in [Senders -> Requests \cup {NoTask}]
        /\ \A q \in Senders \ {p} : task'[q] = task[q] /\ pc'[q] = pc[q]
        /\ pc'[p] = "send"
        /\ pc' \in [Senders -> {"idle", "allocate", "send", "forget", "ended"}]
    BY <2>2, <2>6
  <2>8. tainted' \in BOOLEAN
    BY <1>3, Zenon DEF Allocate
  <2> QED
    BY <1>3, <2>3, <2>5, <2>6, <2>7, <2>8 DEF Allocate
<1>4. ASSUME NEW p \in Senders, AllocateFails(p) PROVE Typed'
  BY <1>4 DEF AllocateFails, FinishRequest
<1>5. ASSUME NEW p \in Senders, Send(p) PROVE Typed'
  <2>1. toPCC' \in Seq(Requests)
    BY <1>5, AppendProperties DEF Send
  <2> QED
    BY <1>5, <2>1 DEF Send, FinishRequest
<1>6. ASSUME NEW p \in Senders, SendFails(p) PROVE Typed'
  BY <1>6 DEF SendFails
<1>7. ASSUME NEW p \in Senders, Forget(p) PROVE Typed'
  BY <1>7, WithoutIntentsTyped DEF Forget, FinishRequest
<1>8. CASE ReceiveReport
  <2>1. Head(toPCE) \in Reports
    BY <1>8, HeadTyped DEF ReceiveReport, Reading
  <2>2. toPCE' \in Seq(Reports \cup PCErrs \cup {EndOfSync, Close})
    BY <1>8, HeadTyped DEF ReceiveReport, Reading
  <2>3. /\ policies' \in Seq(Policies)
        /\ DOMAIN intents' \subseteq SRPID
        /\ \A id \in DOMAIN intents' : intents'[id] \in Intents
        /\ missed' \subseteq Plsp
    <3>1. CASE DeleteReported(Head(toPCE))
      BY <2>1, <3>1, DeleteTyped
    <3>2. CASE RegisterSRPolicy(Head(toPCE))
      BY <2>1, <3>2, RegisterTyped
    <3>3. CASE RefuseReport(Head(toPCE))
      BY <2>1, <3>3 DEF RefuseReport, Reports
    <3> QED
      BY <1>8, <3>1, <3>2, <3>3 DEF ReceiveReport, RegisterReported
  <2> QED
    BY <1>8, <2>2, <2>3 DEF ReceiveReport
<1>9. CASE ReceiveUnsolicited
  <2> DEFINE r == Head(toPCE)
             at == CHOOSE i \in 1 .. Len(policies') : policies'[i].plsp = r.plsp
  <2>1. /\ r \in Reports
        /\ toPCE' \in Seq(Reports \cup PCErrs \cup {EndOfSync, Close})
        /\ RegisterSRPolicy(r)
    BY <1>9, HeadTyped DEF ReceiveUnsolicited, Reading
  <2>2. /\ policies' \in Seq(Policies)
        /\ DOMAIN intents' \subseteq SRPID
        /\ \A id \in DOMAIN intents' : intents'[id] \in Intents
        /\ missed' \subseteq Plsp
    BY <2>1, RegisterTyped
  <2>3. \E i \in 1 .. Len(policies') : policies'[i].plsp = r.plsp
    BY <2>1, RegisteredIsListed
  <2>4. policies'[at] \in Policies
    BY <2>2, <2>3, ElementOfSeq
  <2>5. Receiver \in Senders
    BY DEF Senders
  <2>6. /\ task' = [task EXCEPT ![Receiver] =
               [Request("update", policies'[at].plsp, policies'[at].key,
                        policies'[at].setting) EXCEPT !.req = requests + 1]]
        /\ pc' = [pc EXCEPT ![Receiver] = "allocate"]
        /\ requests' = requests + 1
    BY <1>9 DEF ReceiveUnsolicited, StartRequest
  <2> HIDE DEF at, r
  <2>7. task'[Receiver] \in Requests
    <3> DEFINE p == policies'[at]
    <3>1. p \in Policies
      BY <2>4
    <3>2. task'[Receiver] = [Request("update", p.plsp, p.key, p.setting)
                                EXCEPT !.req = requests + 1]
      BY <2>5, <2>6
    <3> HIDE DEF p
    <3>3. /\ requests + 1 \in Nat /\ p.plsp \in Plsp \cup {0} /\ p.key \in Key
          /\ p.setting \in Setting \cup {NoSetting}
      BY <3>1 DEF Policies
    <3>4. [Request("update", p.plsp, p.key, p.setting) EXCEPT !.req = requests + 1]
             \in Requests
      BY <3>3, RequestTyped
    <3> QED
      BY <3>2, <3>4
  <2>8. /\ task' \in [Senders -> Requests \cup {NoTask}]
        /\ \A p \in Senders \ {Receiver} : task'[p] = task[p] /\ pc'[p] = pc[p]
        /\ pc'[Receiver] = "allocate"
        /\ pc' \in [Senders -> {"idle", "allocate", "send", "forget", "ended"}]
    BY <2>5, <2>6, <2>7
  <2> QED
    <3>1. /\ UNCHANGED <<conn, listed, isSynced, sweeping, closer>>
          /\ UNCHANGED <<srpIDHead, orphans, tainted, lsps, events, toPCC>>
      BY <1>9 DEF ReceiveUnsolicited, pccVars
    <3>2. TasksTyped'
      BY <2>7, <2>8
    <3>3. TypeOK'
      BY <2>1, <2>2, <2>6, <2>8, <3>1, SMTT(30)
    <3> QED
      BY <3>2, <3>3
<1>10. CASE ReceiveUncomputable
  <2>1. /\ Head(toPCE) \in Reports
        /\ toPCE' \in Seq(Reports \cup PCErrs \cup {EndOfSync, Close})
    BY <1>10, HeadTyped DEF ReceiveUncomputable, Reading
  <2>2. missed' \subseteq Plsp
    BY <1>10, <2>1 DEF ReceiveUncomputable, RefuseReport, Reports
  <2> QED
    BY <1>10, <2>1, <2>2 DEF ReceiveUncomputable, RefuseReport
<1>11. CASE ReceiveEndOfSync
  BY <1>11, HeadTyped DEF ReceiveEndOfSync, Reading
<1>12. CASE ReceivePCErr
  <2>1. toPCE' \in Seq(Reports \cup PCErrs \cup {EndOfSync, Close})
    BY <1>12, HeadTyped DEF ReceivePCErr, Reading
  <2>2. intents' = WithoutIntents({Head(toPCE).srpID})
    BY <1>12 DEF ReceivePCErr
  <2>3. /\ DOMAIN intents' \subseteq SRPID
        /\ \A id \in DOMAIN intents' : intents'[id] \in Intents
    BY <2>2, WithoutIntentsTyped
  <2> QED
    BY <1>12, <2>1, <2>3 DEF ReceivePCErr
<1>13. CASE ReceiveClose
  BY <1>13, HeadTyped DEF ReceiveClose, Reading
<1>14. CASE ReceiveFails
  BY <1>14 DEF ReceiveFails
<1>15. ASSUME NEW id \in SRPID, Elapse(id) PROVE Typed'
  BY <1>15 DEF Elapse, Intents
<1>16. CASE Sweep
  <2>1. /\ DOMAIN intents' \subseteq SRPID
        /\ \A id \in DOMAIN intents' : intents'[id] \in Intents
    BY <1>16, WithoutIntentsTyped DEF Sweep
  <2>2. orphans' \subseteq Nat
    <3>1. \A id \in Overdue : intents[id].req \in Nat
      BY DEF Overdue, Intents
    <3>2. orphans' = orphans \cup {intents[id].req : id \in Overdue}
      BY <1>16 DEF Sweep
    <3> QED
      BY <3>1, <3>2, ZenonT(60)
  <2> QED
    BY <1>16, <2>1, <2>2 DEF Sweep
<1>17. CASE EstablishedReturns \/ DeleteSession
  BY <1>17 DEF EstablishedReturns, DeleteSession
<1>18. ASSUME NEW x \in DOMAIN closer, CloserStep(x) PROVE Typed'
  <2>1. CASE CloseConn(x)
    BY <2>1 DEF CloseConn, pccVars
  <2>2. CASE ClearIntents(x)
    BY <2>2 DEF ClearIntents, pccVars
  <2>3. CASE Unlist(x)
    BY <2>3 DEF Unlist, pccVars
  <2> QED
    BY <1>18, <2>1, <2>2, <2>3 DEF CloserStep
<1>19. CASE PCCStep
  BY <1>19, PCCTyped
<1>20. CASE UNCHANGED vars
  BY <1>20 DEF vars
<1> QED
  BY <1>1, <1>2, <1>3, <1>4, <1>5, <1>6, <1>7, <1>8, <1>9, <1>10, <1>11, <1>12,
     <1>13, <1>14, <1>15, <1>16, <1>17, <1>18, <1>19, <1>20
     DEF Next, SenderStep, ReceiverStep

------------------------------------------------------------------------------
(* The policy list *)

(* LSP-IDs can be compared.                                                *)
LEMMA LSPIDsAreNumbers ==
    ASSUME TypeOK
    PROVE  \A i \in 1 .. Len(policies) : policies[i].lspID \in Nat
<1> SUFFICES ASSUME NEW i \in 1 .. Len(policies) PROVE policies[i].lspID \in Nat
  OBVIOUS
<1>1. policies[i] \in Policies
  BY ElementOfSeq DEF TypeOK
<1> QED
  BY <1>1, SessionAssumption DEF Policies

(* A registered report adds an entry for a PLSP-ID the list does not have, *)
(* or renews the entry that has it with an LSP-ID that is not older.       *)
LEMMA RegisterKeepsList ==
    ASSUME TypeOK, UniquePlspIDs, NEW r \in Reports, RegisterSRPolicy(r)
    PROVE  UniquePlspIDs' /\ LSPIDsAdvance
<1> DEFINE settingFor(old) ==
              IF r.srpID \in DOMAIN intents THEN intents[r.srpID].setting ELSE old
           policy(old) ==
              [plsp |-> r.plsp, key |-> r.key, lspID |-> r.lspID, state |-> r.state,
               setting |-> settingFor(old)]
           at == Min(WithPlsp(r.plsp))
<1>1. \A old \in Setting \cup {NoSetting} : policy(old) \in Policies
  BY DEF TypeOK, Intents, Reports, Policies
<1>2. \A old : policy(old).plsp = r.plsp /\ policy(old).lspID = r.lspID
  OBVIOUS
<1>3. /\ policies \in Seq(Policies) /\ Len(policies) \in Nat
      /\ \A i \in 1 .. Len(policies) : policies[i].lspID \in Nat
  BY LSPIDsAreNumbers DEF TypeOK
<1> HIDE DEF policy
<1>4. CASE WithPlsp(r.plsp) = {}
  <2>1. policies' = Append(policies, policy(NoSetting))
    BY <1>4 DEF RegisterSRPolicy, policy
  <2>2. /\ Len(policies') = Len(policies) + 1
        /\ \A i \in 1 .. Len(policies) : policies'[i] = policies[i]
        /\ policies'[Len(policies) + 1].plsp = r.plsp
    BY <1>1, <1>2, <1>3, <2>1, AppendProperties
  <2>3. \A i \in 1 .. Len(policies) : policies[i].plsp # r.plsp
    BY <1>4 DEF WithPlsp
  <2>4. UniquePlspIDs'
    BY <1>3, <2>2, <2>3 DEF UniquePlspIDs
  <2>5. LSPIDsAdvance
    <3> SUFFICES ASSUME NEW i \in 1 .. Len(policies), NEW j \in 1 .. Len(policies'),
                        policies[i].plsp = policies'[j].plsp
                 PROVE  policies[i].lspID <= policies'[j].lspID
      BY DEF LSPIDsAdvance
    <3>1. j \in 1 .. Len(policies)
      BY <1>3, <2>2, <2>3
    <3>2. policies'[j] = policies[j]
      BY <2>2, <3>1
    <3>3. i = j
      BY <3>1, <3>2 DEF UniquePlspIDs
    <3> QED
      BY <1>3, <3>2, <3>3
  <2> QED
    BY <2>4, <2>5
<1>5. CASE WithPlsp(r.plsp) # {} /\ UpToDate(at, r)
  <2>1. at \in 1 .. Len(policies) /\ policies[at].plsp = r.plsp
    BY <1>5, FirstWithPlsp
  <2>2. policies' = [policies EXCEPT ![at] = policy(policies[at].setting)]
    BY <1>5 DEF RegisterSRPolicy, policy
  <2>3. policies[at].lspID <= r.lspID
    BY <1>5 DEF UpToDate
  <2> HIDE DEF at
  <2>4. /\ Len(policies') = Len(policies)
        /\ \A i \in 1 .. Len(policies) :
              policies'[i] = IF i = at THEN policy(policies[at].setting) ELSE policies[i]
    BY <1>3, <2>1, <2>2
  <2>5. /\ policies'[at].plsp = r.plsp /\ policies'[at].lspID = r.lspID
        /\ \A i \in 1 .. Len(policies) : policies'[i].plsp = policies[i].plsp
    BY <1>2, <2>1, <2>4
  <2>6. UniquePlspIDs'
    BY <2>4, <2>5 DEF UniquePlspIDs
  <2>7. LSPIDsAdvance
    BY <1>3, <2>1, <2>3, <2>4, <2>5 DEF UniquePlspIDs, LSPIDsAdvance
  <2> QED
    BY <2>6, <2>7
<1>6. CASE WithPlsp(r.plsp) # {} /\ ~UpToDate(at, r)
  <2>1. policies' = policies
    BY <1>6 DEF RegisterSRPolicy
  <2> QED
    BY <1>3, <2>1 DEF UniquePlspIDs, LSPIDsAdvance
<1> QED
  BY <1>4, <1>5, <1>6

(* A report with the R flag removes one entry and leaves the others alone. *)
LEMMA DeleteKeepsList ==
    ASSUME TypeOK, UniquePlspIDs, NEW r \in Reports, DeleteReported(r)
    PROVE  UniquePlspIDs' /\ LSPIDsAdvance
<1> DEFINE old == {i \in WithPlsp(r.plsp) : UpToDate(i, r)}
<1>1. /\ policies \in Seq(Policies) /\ Len(policies) \in Nat
      /\ \A i \in 1 .. Len(policies) : policies[i].lspID \in Nat
  BY LSPIDsAreNumbers DEF TypeOK
<1>2. CASE old # {}
  <2>1. old \in SUBSET Nat /\ old \subseteq 1 .. Len(policies)
    BY DEF WithPlsp
  <2>2. PICK at \in 1 .. Len(policies) : at = Min(old)
    BY <1>2, <2>1, MinIsLeast
  <2>3. policies' = RemovePolicy(at)
    BY <1>2, <2>2 DEF DeleteReported
  <2> HIDE DEF old
  <2>4. /\ Len(policies') = Len(policies) - 1
        /\ \A j \in 1 .. (Len(policies) - 1) :
              policies'[j] = IF j = at THEN policies[Len(policies)] ELSE policies[j]
    BY <2>3, RemovePolicyList
  <2>5. UniquePlspIDs'
    BY <1>1, <2>4 DEF UniquePlspIDs
  <2>6. LSPIDsAdvance
    BY <1>1, <2>4 DEF UniquePlspIDs, LSPIDsAdvance
  <2> QED
    BY <2>5, <2>6
<1>3. CASE old = {}
  <2>1. policies' = policies
    BY <1>3 DEF DeleteReported
  <2> QED
    BY <1>1, <2>1 DEF UniquePlspIDs, LSPIDsAdvance
<1> QED
  BY <1>2, <1>3

(* No other step touches the list.                                         *)
LEMMA ListStep ==
    Typed /\ UniquePlspIDs /\ [Next]_vars => UniquePlspIDs' /\ LSPIDsAdvance
<1> SUFFICES ASSUME Typed, UniquePlspIDs, [Next]_vars
             PROVE  UniquePlspIDs' /\ LSPIDsAdvance
  OBVIOUS
<1>1. ASSUME policies' = policies PROVE UniquePlspIDs' /\ LSPIDsAdvance
  <2>1. \A i \in 1 .. Len(policies) : policies[i].lspID \in Nat
    BY LSPIDsAreNumbers DEF Typed
  <2> QED
    BY <1>1, <2>1 DEF UniquePlspIDs, LSPIDsAdvance
<1>2. CASE ReceiveReport
  <2> DEFINE r == Head(toPCE)
  <2>1. r \in Reports /\ TypeOK
    BY <1>2, HeadTyped DEF ReceiveReport, Reading, Typed
  <2>2. CASE DeleteReported(r)
    BY <2>1, <2>2, DeleteKeepsList
  <2>3. CASE RegisterSRPolicy(r)
    BY <2>1, <2>3, RegisterKeepsList
  <2>4. CASE RefuseReport(r)
    BY <1>1, <2>4 DEF RefuseReport
  <2> QED
    BY <1>2, <2>2, <2>3, <2>4 DEF ReceiveReport, RegisterReported
<1>3. CASE ReceiveUnsolicited
  <2>1. /\ Head(toPCE) \in Reports /\ TypeOK
        /\ RegisterSRPolicy(Head(toPCE))
    BY <1>3, HeadTyped DEF ReceiveUnsolicited, Reading, Typed
  <2> QED
    BY <2>1, RegisterKeepsList
<1>4. CASE \/ \E h \in Handlers, key \in Key :
               \/ DeleteSRPolicy(h, key)
               \/ \E setting \in Setting : CreateSRPolicy(h, key, setting)
           \/ \E p \in Senders : SenderStep(p)
  <2>1. policies' = policies
    BY <1>4 DEF policyVars, DeleteSRPolicy, CreateSRPolicy, SenderStep, Allocate,
                AllocateFails, Send, SendFails, Forget
  <2> QED
    BY <1>1, <2>1
<1>5. CASE ReceiveUncomputable \/ ReceiveEndOfSync \/ ReceivePCErr \/ ReceiveClose
           \/ ReceiveFails
  <2>1. policies' = policies
    BY <1>5 DEF policyVars, ReceiveUncomputable, RefuseReport, ReceiveEndOfSync,
                ReceivePCErr, ReceiveClose, ReceiveFails
  <2> QED
    BY <1>1, <2>1
<1>6. CASE \/ Sweep \/ \E id \in SRPID : Elapse(id)
           \/ EstablishedReturns \/ DeleteSession
           \/ \E x \in DOMAIN closer : CloserStep(x)
  <2>1. policies' = policies
    BY <1>6 DEF policyVars, Sweep, Elapse, EstablishedReturns, DeleteSession,
                CloserStep, CloseConn, ClearIntents, Unlist
  <2> QED
    BY <1>1, <2>1
<1>7. CASE PCCStep
  <2>1. policies' = policies
    BY <1>7 DEF policyVars, PCCStep, PCCCreates, PCCUpdates, PCCDeletes, PCCRejects,
                Answer, PCCChanges, PCCRemoves, Unasked, PCCCloses, ConnectionBreaks
  <2> QED
    BY <1>1, <2>1
<1>8. CASE UNCHANGED vars
  BY <1>1, <1>8 DEF vars, policyVars
<1> QED
  BY <1>2, <1>3, <1>4, <1>5, <1>6, <1>7, <1>8 DEF Next, ReceiverStep

------------------------------------------------------------------------------
(* The intents after the session's end *)

(* closeSession clears the intents only after it has closed the socket.    *)
ClosedBeforeClear ==
    \A x \in DOMAIN closer : closer[x] \in {"clear", "unlist", "done"} => conn = "closed"

(* After that an intent belongs to a sender that is yet to fail and to     *)
(* forget it.                                                              *)
LateIntentsAreHeld ==
    Cleared => \A id \in DOMAIN intents :
                  \E p \in Senders : pc[p] \in {"send", "forget"} /\ task[p].srpID = id

(* No step takes that back: the socket stays closed.                       *)
LEMMA ClosedStep == Typed /\ ClosedBeforeClear /\ [Next]_vars => ClosedBeforeClear'
<1> SUFFICES ASSUME Typed, ClosedBeforeClear, [Next]_vars PROVE ClosedBeforeClear'
  OBVIOUS
<1> USE DEF ClosedBeforeClear, sessionVars
<1>1. CASE \/ \E h \in Handlers, key \in Key :
               \/ DeleteSRPolicy(h, key)
               \/ \E setting \in Setting : CreateSRPolicy(h, key, setting)
           \/ \E p \in Senders : SenderStep(p)
  BY <1>1 DEF DeleteSRPolicy, CreateSRPolicy, SenderStep, Allocate,
              AllocateFails, Send, SendFails, Forget
<1>2. CASE ReceiverStep
  BY <1>2 DEF ReceiverStep, ReceiveReport, ReceiveUnsolicited, ReceiveUncomputable,
              ReceiveEndOfSync, ReceivePCErr, ReceiveClose, ReceiveFails
<1>3. CASE Sweep \/ \E id \in SRPID : Elapse(id)
  BY <1>3 DEF Sweep, Elapse
<1>4. CASE EstablishedReturns \/ DeleteSession
  BY <1>4 DEF EstablishedReturns, DeleteSession, Typed, TypeOK
<1>5. CASE \E x \in DOMAIN closer : CloserStep(x)
  BY <1>5 DEF CloserStep, CloseConn, ClearIntents, Unlist, Typed, TypeOK
<1>6. CASE PCCStep
  BY <1>6 DEF PCCStep, PCCCreates, PCCUpdates, PCCDeletes, PCCRejects,
              Answer, PCCChanges, PCCRemoves, Unasked, PCCCloses, ConnectionBreaks
<1>7. CASE UNCHANGED vars
  BY <1>7 DEF vars
<1> QED
  BY <1>1, <1>2, <1>3, <1>4, <1>5, <1>6, <1>7 DEF Next

(* A sender that allocates late keeps its ID until its write has failed.   *)
LEMMA LateIntentsStep ==
    Typed /\ ClosedBeforeClear /\ LateIntentsAreHeld /\ [Next]_vars
        => LateIntentsAreHeld'
<1> SUFFICES ASSUME Typed, ClosedBeforeClear, LateIntentsAreHeld, [Next]_vars
             PROVE  LateIntentsAreHeld'
  OBVIOUS
<1> USE DEF sessionVars, intentVars, senderVars
<1>0. /\ pc \in [Senders -> {"idle", "allocate", "send", "forget", "ended"}]
      /\ task \in [Senders -> Requests \cup {NoTask}]
      /\ DOMAIN closer = {"established", "deleteSession"}
      /\ Handlers \subseteq Senders /\ Receiver \in Senders
  BY DEF Typed, TypeOK, Senders
<1>1. Cleared => conn = "closed"
  BY DEF Cleared, ClosedBeforeClear
<1>2. ASSUME closer' = closer, conn # "closed" PROVE LateIntentsAreHeld'
  BY <1>1, <1>2 DEF LateIntentsAreHeld, Cleared
<1>3. ASSUME closer' = closer, DOMAIN intents' \subseteq DOMAIN intents,
             NEW p \in Senders, pc[p] \notin {"send", "forget"},
             \A q \in Senders \ {p} : pc'[q] = pc[q] /\ task'[q] = task[q]
      PROVE  LateIntentsAreHeld'
  BY <1>3 DEF LateIntentsAreHeld, Cleared
<1>4. ASSUME NEW h \in Handlers, NEW key \in Key,
             \/ DeleteSRPolicy(h, key)
             \/ \E setting \in Setting : CreateSRPolicy(h, key, setting)
      PROVE  LateIntentsAreHeld'
  <2>1. /\ pc[h] = "idle" /\ closer' = closer /\ intents' = intents
        /\ \A q \in Senders \ {h} : pc'[q] = pc[q] /\ task'[q] = task[q]
    BY <1>0, <1>4 DEF DeleteSRPolicy, CreateSRPolicy, StartRequest
  <2> QED
    BY <1>0, <1>3, <2>1
<1>5. ASSUME NEW p \in Senders, Allocate(p) PROVE LateIntentsAreHeld'
  <2> DEFINE id == NextUnusedSRPID
  <2>1. /\ DOMAIN intents' = DOMAIN intents \cup {id}
        /\ task' = [task EXCEPT ![p].srpID = id] /\ pc' = [pc EXCEPT ![p] = "send"]
        /\ pc[p] = "allocate" /\ closer' = closer
    BY <1>5 DEF Allocate
  <2> HIDE DEF id
  <2>2. task[p] \in Requests
    BY <2>1 DEF Typed, TasksTyped
  <2>3. task'[p].srpID = id /\ pc'[p] = "send"
    BY <1>0, <2>1, <2>2 DEF Requests
  <2>4. \A q \in Senders \ {p} : pc'[q] = pc[q] /\ task'[q] = task[q]
    BY <1>0, <2>1
  <2> QED
    BY <2>1, <2>3, <2>4 DEF LateIntentsAreHeld, Cleared
<1>6. ASSUME NEW p \in Senders, AllocateFails(p) PROVE LateIntentsAreHeld'
  <2>1. /\ pc[p] = "allocate" /\ closer' = closer /\ intents' = intents
        /\ \A q \in Senders \ {p} : pc'[q] = pc[q] /\ task'[q] = task[q]
    BY <1>0, <1>6 DEF AllocateFails, FinishRequest
  <2> QED
    BY <1>3, <2>1
<1>7. ASSUME NEW p \in Senders, Send(p) PROVE LateIntentsAreHeld'
  BY <1>2, <1>7 DEF Send
<1>8. ASSUME NEW p \in Senders, SendFails(p) PROVE LateIntentsAreHeld'
  <2>1. /\ pc[p] = "send" /\ pc' = [pc EXCEPT ![p] = "forget"]
        /\ closer' = closer /\ intents' = intents /\ task' = task
    BY <1>8 DEF SendFails
  <2>2. \A q \in Senders : pc[q] \in {"send", "forget"} => pc'[q] \in {"send", "forget"}
    BY <1>0, <2>1
  <2> QED
    BY <2>1, <2>2 DEF LateIntentsAreHeld, Cleared
<1>9. ASSUME NEW p \in Senders, Forget(p) PROVE LateIntentsAreHeld'
  <2>1. /\ intents' = WithoutIntents({task[p].srpID}) /\ closer' = closer
        /\ \A q \in Senders \ {p} : pc'[q] = pc[q] /\ task'[q] = task[q]
    BY <1>0, <1>9 DEF Forget, FinishRequest
  <2>2. DOMAIN intents' = DOMAIN intents \ {task[p].srpID}
    BY <2>1, WithoutIntentsTyped DEF Typed
  <2> QED
    BY <2>1, <2>2 DEF LateIntentsAreHeld, Cleared
<1>10. CASE ReceiveReport \/ ReceiveUnsolicited \/ ReceiveUncomputable
            \/ ReceiveEndOfSync \/ ReceivePCErr \/ ReceiveClose
  <2>1. conn # "closed" /\ closer' = closer
    BY <1>10 DEF ReceiveReport, ReceiveUnsolicited, ReceiveUncomputable,
                 ReceiveEndOfSync, ReceivePCErr, ReceiveClose, Reading
  <2> QED
    BY <1>2, <2>1
<1>11. CASE ReceiveFails
  <2>1. /\ pc[Receiver] = "idle" /\ closer' = closer /\ intents' = intents
        /\ \A q \in Senders \ {Receiver} : pc'[q] = pc[q] /\ task'[q] = task[q]
    BY <1>0, <1>11 DEF ReceiveFails
  <2> QED
    BY <1>0, <1>3, <2>1
<1>12. ASSUME closer' = closer, DOMAIN intents' \subseteq DOMAIN intents,
              UNCHANGED <<pc, task>>
       PROVE  LateIntentsAreHeld'
  BY <1>12 DEF LateIntentsAreHeld, Cleared
<1>13. CASE Sweep \/ \E id \in SRPID : Elapse(id)
  <2>1. closer' = closer /\ UNCHANGED <<pc, task>>
    BY <1>13 DEF Sweep, Elapse
  <2>2. DOMAIN intents' \subseteq DOMAIN intents
    BY <1>13, WithoutIntentsTyped DEF Sweep, Elapse, Typed
  <2> QED
    BY <1>12, <2>1, <2>2
<1>14. CASE EstablishedReturns \/ DeleteSession
  BY <1>0, <1>14 DEF EstablishedReturns, DeleteSession, LateIntentsAreHeld, Cleared
<1>15. ASSUME NEW x \in DOMAIN closer, CloserStep(x) PROVE LateIntentsAreHeld'
  <2>1. CASE CloseConn(x)
    BY <1>0, <2>1 DEF CloseConn, LateIntentsAreHeld, Cleared
  <2>2. CASE ClearIntents(x)
    <3>1. DOMAIN intents' = {}
      BY <2>2 DEF ClearIntents
    <3> QED
      BY <3>1 DEF LateIntentsAreHeld
  <2>3. CASE Unlist(x)
    BY <1>0, <2>3 DEF Unlist, LateIntentsAreHeld, Cleared
  <2> QED
    BY <1>15, <2>1, <2>2, <2>3 DEF CloserStep
<1>16. CASE PCCStep
  <2>1. closer' = closer /\ intents' = intents /\ UNCHANGED <<pc, task>>
    BY <1>16 DEF PCCStep, PCCCreates, PCCUpdates, PCCDeletes, PCCRejects,
                 Answer, PCCChanges, PCCRemoves, Unasked, PCCCloses, ConnectionBreaks
  <2> QED
    BY <1>12, <2>1
<1>17. CASE UNCHANGED vars
  BY <1>12, <1>17 DEF vars
<1> QED
  BY <1>4, <1>5, <1>6, <1>7, <1>8, <1>9, <1>10, <1>11, <1>13, <1>14, <1>15, <1>16,
     <1>17 DEF Next, SenderStep, ReceiverStep

------------------------------------------------------------------------------
(* Requests and answers in flight *)

(* An occurrence of an SRP-ID: with a sender, on the way to the PCC, or in *)
(* an answer on the way back.                                              *)
Holds(p) == pc[p] \in {"send", "forget"}
IsAnswer(m) == m.kind \in {"report", "pcErr"} /\ m.srpID # 0

Kept(m, known, swept) ==
    \/ m.req \in swept
    \/ m.srpID \in DOMAIN known /\ known[m.srpID].req = m.req

(* No two requests and answers in flight have one SRP-ID, wherever they    *)
(* are, so that the end of one takes no other's intent.                    *)
SentApart ==
    \A i, j \in 1 .. Len(toPCC) : toPCC[i].srpID = toPCC[j].srpID => i = j
AnsweredApart ==
    \A i, j \in 1 .. Len(toPCE) :
       IsAnswer(toPCE[i]) /\ IsAnswer(toPCE[j]) /\ toPCE[i].srpID = toPCE[j].srpID => i = j
HeldApart ==
    \A p, q \in Senders : Holds(p) /\ Holds(q) /\ task[p].srpID = task[q].srpID => p = q
PlacesApart ==
    /\ \A i \in 1 .. Len(toPCC), j \in 1 .. Len(toPCE) :
          IsAnswer(toPCE[j]) => toPCC[i].srpID # toPCE[j].srpID
    /\ \A i \in 1 .. Len(toPCC), p \in Senders : Holds(p) => toPCC[i].srpID # task[p].srpID
    /\ \A j \in 1 .. Len(toPCE), p \in Senders :
          IsAnswer(toPCE[j]) /\ Holds(p) => toPCE[j].srpID # task[p].srpID
Apart == SentApart /\ AnsweredApart /\ HeldApart /\ PlacesApart

KeptInFlight ==
    /\ \A i \in 1 .. Len(toPCC) : Kept(toPCC[i], intents, orphans)
    /\ \A j \in 1 .. Len(toPCE) : IsAnswer(toPCE[j]) => Kept(toPCE[j], intents, orphans)
    /\ \A p \in Senders : Holds(p) => Kept(task[p], intents, orphans)

InFlightTracked == tainted \/ Cleared \/ (Apart /\ KeptInFlight)

(* The three places are all there is.                                      *)
LEMMA InFlightPlaces ==
    ASSUME TypeOK, NEW m
    PROVE  m \in InFlight <=>
              \/ \E i \in 1 .. Len(toPCC) : m = toPCC[i]
              \/ \E j \in 1 .. Len(toPCE) : m = toPCE[j] /\ IsAnswer(m)
              \/ \E p \in Senders : m = task[p] /\ Holds(p)
<1>1. DOMAIN toPCC = 1 .. Len(toPCC) /\ DOMAIN toPCE = 1 .. Len(toPCE)
  BY DEF TypeOK
<1> QED
  BY <1>1 DEF InFlight, Range, IsAnswer, Holds

(* Everything in flight that is tracked keeps its intent.                  *)
LEMMA TrackedIsKept ==
    ASSUME TypeOK PROVE InFlightTracked => InFlightKeepsIntent
<1>1. ASSUME KeptInFlight, NEW m \in InFlight PROVE Kept(m, intents, orphans)
  BY <1>1, InFlightPlaces DEF KeptInFlight
<1> QED
  BY <1>1 DEF InFlightTracked, InFlightKeepsIntent, Kept

(* Once the history variable tainted is set it stays.                      *)
LEMMA TaintedLasts ==
    ASSUME Typed, [Next]_vars, ~tainted' PROVE ~tainted
<1> SUFFICES tainted' = tainted \/ \E p \in Senders : Allocate(p)
  <2>1. ASSUME NEW p \in Senders, Allocate(p) PROVE ~tainted
    BY <2>1, Zenon DEF Allocate
  <2> QED
    BY <2>1, Zenon
<1> USE DEF sessionVars, intentVars, senderVars, pccVars
<1>1. CASE \/ \E h \in Handlers, key \in Key :
               \/ DeleteSRPolicy(h, key)
               \/ \E setting \in Setting : CreateSRPolicy(h, key, setting)
           \/ \E p \in Senders : SenderStep(p)
  BY <1>1 DEF DeleteSRPolicy, CreateSRPolicy, SenderStep, AllocateFails, Send,
              SendFails, Forget
<1>2. CASE ReceiverStep
  BY <1>2 DEF ReceiverStep, ReceiveReport, ReceiveUnsolicited, ReceiveUncomputable,
              ReceiveEndOfSync, ReceivePCErr, ReceiveClose, ReceiveFails
<1>3. CASE Sweep \/ \E id \in SRPID : Elapse(id)
  BY <1>3 DEF Sweep, Elapse
<1>4. CASE EstablishedReturns \/ DeleteSession
  BY <1>4 DEF EstablishedReturns, DeleteSession
<1>5. CASE \E x \in DOMAIN closer : CloserStep(x)
  BY <1>5 DEF CloserStep, CloseConn, ClearIntents, Unlist
<1>6. CASE PCCStep
  BY <1>6 DEF PCCStep, PCCCreates, PCCUpdates, PCCDeletes, PCCRejects,
              Answer, PCCChanges, PCCRemoves, Unasked, PCCCloses, ConnectionBreaks
<1>7. CASE UNCHANGED vars
  BY <1>7 DEF vars
<1> QED
  BY <1>1, <1>2, <1>3, <1>4, <1>5, <1>6, <1>7, Zenon DEF Next

(* So does the session's having cleared its intents.                       *)
LEMMA ClearedLasts ==
    ASSUME Typed, [Next]_vars, ~Cleared' PROVE ~Cleared
<1> SUFFICES \/ closer' = closer
             \/ EstablishedReturns \/ DeleteSession
             \/ \E x \in DOMAIN closer : CloserStep(x)
  BY DEF EstablishedReturns, DeleteSession, CloserStep, CloseConn, ClearIntents, Unlist,
         Cleared, Typed, TypeOK
<1> USE DEF sessionVars
<1>1. CASE \/ \E h \in Handlers, key \in Key :
               \/ DeleteSRPolicy(h, key)
               \/ \E setting \in Setting : CreateSRPolicy(h, key, setting)
           \/ \E p \in Senders : SenderStep(p)
  BY <1>1 DEF DeleteSRPolicy, CreateSRPolicy, SenderStep, Allocate, AllocateFails, Send,
              SendFails, Forget
<1>2. CASE ReceiverStep
  BY <1>2 DEF ReceiverStep, ReceiveReport, ReceiveUnsolicited, ReceiveUncomputable,
              ReceiveEndOfSync, ReceivePCErr, ReceiveClose, ReceiveFails
<1>3. CASE Sweep \/ \E id \in SRPID : Elapse(id)
  BY <1>3 DEF Sweep, Elapse
<1>4. CASE PCCStep
  BY <1>4 DEF PCCStep, PCCCreates, PCCUpdates, PCCDeletes, PCCRejects,
              Answer, PCCChanges, PCCRemoves, Unasked, PCCCloses, ConnectionBreaks
<1>5. CASE UNCHANGED vars
  BY <1>5 DEF vars
<1> QED
  BY <1>1, <1>2, <1>3, <1>4, <1>5 DEF Next

(* Dropping an intent or sweeping some leaves other requests what they had.*)
LEMMA KeptByOthers ==
    ASSUME Typed, NEW S, NEW m, Kept(m, intents, orphans), m.srpID \notin S
    PROVE  Kept(m, WithoutIntents(S), orphans)
<1>1. DOMAIN WithoutIntents(S) = DOMAIN intents \ S
  BY WithoutIntentsTyped DEF Typed
<1>2. \A id \in DOMAIN WithoutIntents(S) : WithoutIntents(S)[id] = intents[id]
  BY DEF WithoutIntents, Restrict
<1> QED
  BY <1>1, <1>2 DEF Kept

(* When there is nothing new in flight.                                    *)
LEMMA FewerApart ==
    ASSUME Typed, Apart,
           toPCC' \in {toPCC, <<>>},
           toPCE' \in {toPCE, <<>>} \/ (toPCE # <<>> /\ toPCE' = Tail(toPCE)),
           \A p \in Senders : Holds(p)' => Holds(p) /\ task'[p] = task[p]
    PROVE  Apart'
<1>1. Len(toPCE) \in Nat /\ Len(toPCC) \in Nat
  BY DEF Typed, TypeOK
<1>2. PICK d \in 0 .. 1 :
         /\ Len(toPCE') \in Nat /\ Len(toPCE') + d <= Len(toPCE)
         /\ \A j \in 1 .. Len(toPCE') : toPCE'[j] = toPCE[j + d]
  <2>1. CASE toPCE' \in {toPCE, <<>>}
    BY <1>1, <2>1
  <2>2. CASE toPCE # <<>> /\ toPCE' = Tail(toPCE)
    BY <1>1, <2>2, HeadTailProperties DEF Typed, TypeOK
  <2> QED
    BY <2>1, <2>2
<1>3. /\ Len(toPCC') \in Nat /\ Len(toPCC') <= Len(toPCC)
      /\ \A j \in 1 .. Len(toPCC') : toPCC'[j] = toPCC[j]
  BY <1>1
<1>4. \A j \in 1 .. Len(toPCE') : j + d \in 1 .. Len(toPCE) /\ toPCE'[j] = toPCE[j + d]
  BY <1>1, <1>2
<1>5. \A j \in 1 .. Len(toPCC') : j \in 1 .. Len(toPCC) /\ toPCC'[j] = toPCC[j]
  BY <1>1, <1>3
<1>6. SentApart'
  BY <1>5 DEF Apart, SentApart
<1>7. AnsweredApart'
  <2> SUFFICES ASSUME NEW i \in 1 .. Len(toPCE'), NEW j \in 1 .. Len(toPCE'),
                      IsAnswer(toPCE'[i]), IsAnswer(toPCE'[j]),
                      toPCE'[i].srpID = toPCE'[j].srpID
               PROVE  i = j
    BY DEF AnsweredApart, IsAnswer
  <2>1. i + d = j + d
    BY <1>4 DEF Apart, AnsweredApart
  <2> QED
    BY <1>2, <2>1
<1>8. HeldApart'
  BY DEF Apart, HeldApart
<1>9. PlacesApart'
  <2>1. \A i \in 1 .. Len(toPCC'), j \in 1 .. Len(toPCE') :
           IsAnswer(toPCE'[j]) => toPCC'[i].srpID # toPCE'[j].srpID
    BY <1>4, <1>5, SMTT(30) DEF Apart, PlacesApart
  <2>2. \A i \in 1 .. Len(toPCC'), p \in Senders :
           Holds(p)' => toPCC'[i].srpID # task'[p].srpID
    BY <1>5 DEF Apart, PlacesApart
  <2>3. \A j \in 1 .. Len(toPCE'), p \in Senders :
           IsAnswer(toPCE'[j]) /\ Holds(p)' => toPCE'[j].srpID # task'[p].srpID
    BY <1>4, ZenonT(60) DEF Apart, PlacesApart
  <2> QED
    BY <2>1, <2>2, <2>3 DEF PlacesApart, IsAnswer
<1> QED
  BY <1>6, <1>7, <1>8, <1>9 DEF Apart

(* An answer that is read, or a request that is forgotten, takes the       *)
(* intent of its own SRP-ID along and nobody else's.                       *)
LEMMA KeptWhenQuiet ==
    ASSUME Typed, Apart, KeptInFlight,
           toPCC' \in {toPCC, <<>>},
           toPCE' \in {toPCE, <<>>} \/ (toPCE # <<>> /\ toPCE' = Tail(toPCE)),
           \A p \in Senders : Holds(p)' => Holds(p) /\ task'[p] = task[p],
           \A m : Kept(m, intents, orphans) => Kept(m, intents', orphans')
    PROVE  Apart' /\ KeptInFlight'
<1>1. Apart'
  BY FewerApart
<1>2. Len(toPCE) \in Nat /\ Len(toPCC) \in Nat
  BY DEF Typed, TypeOK
<1>3. \A j \in 1 .. Len(toPCE') : \E k \in 1 .. Len(toPCE) : toPCE'[j] = toPCE[k]
  <2>1. CASE toPCE' \in {toPCE, <<>>}
    BY <1>2, <2>1
  <2>2. CASE toPCE # <<>> /\ toPCE' = Tail(toPCE)
    <3>1. /\ Len(toPCE') = Len(toPCE) - 1
          /\ \A j \in 1 .. Len(toPCE') : toPCE'[j] = toPCE[j + 1]
      BY <2>2, HeadTailProperties DEF Typed, TypeOK
    <3>2. \A j \in 1 .. Len(toPCE') : j + 1 \in 1 .. Len(toPCE)
      BY <1>2, <3>1
    <3> QED
      BY <3>1, <3>2
  <2> QED
    BY <2>1, <2>2
<1>4. \A j \in 1 .. Len(toPCC') : j \in 1 .. Len(toPCC) /\ toPCC'[j] = toPCC[j]
  BY <1>2
<1>5. \A i \in 1 .. Len(toPCC') : Kept(toPCC'[i], intents', orphans')
  BY <1>4 DEF KeptInFlight
<1>6. \A j \in 1 .. Len(toPCE') : IsAnswer(toPCE'[j]) => Kept(toPCE'[j], intents', orphans')
  BY <1>3 DEF KeptInFlight
<1>7. \A p \in Senders : Holds(p)' => Kept(task'[p], intents', orphans')
  BY DEF KeptInFlight
<1> QED
  BY <1>1, <1>5, <1>6, <1>7 DEF KeptInFlight

(* An answer that is read takes no intent but its own request's, which is  *)
(* in nobody else's use.                                                   *)
LEMMA KeptWhenRead ==
    ASSUME Typed, Apart, KeptInFlight, toPCE # <<>>,
           toPCC' = toPCC, toPCE' = Tail(toPCE), orphans' = orphans,
           \/ intents' = intents
           \/ /\ Head(toPCE).kind \in {"report", "pcErr"}
              /\ intents' = WithoutIntents({Head(toPCE).srpID}),
           \A p \in Senders : Holds(p)' => Holds(p) /\ task'[p] = task[p]
    PROVE  Apart' /\ KeptInFlight'
<1>1. CASE intents' = intents
  BY <1>1, KeptWhenQuiet
<1>2. CASE /\ Head(toPCE).kind \in {"report", "pcErr"}
           /\ intents' = WithoutIntents({Head(toPCE).srpID})
  <2> DEFINE m == Head(toPCE)
  <2>1. Apart'
    BY FewerApart
  <2>2. /\ Len(toPCE) \in Nat /\ m = toPCE[1] /\ 1 \in 1 .. Len(toPCE)
        /\ Len(toPCE') = Len(toPCE) - 1
        /\ \A j \in 1 .. Len(toPCE') : toPCE'[j] = toPCE[j + 1]
    BY HeadTailProperties DEF Typed, TypeOK
  <2>3. IsAnswer(m) \/ m.srpID = 0
    BY <1>2 DEF IsAnswer
  <2>4. ASSUME NEW n, Kept(n, intents, orphans), IsAnswer(m) => n.srpID # m.srpID
        PROVE  Kept(n, intents', orphans')
    <3>1. CASE IsAnswer(m)
      BY <1>2, <2>4, <3>1, KeptByOthers
    <3>2. CASE m.srpID = 0
      <4>1. 0 \notin DOMAIN intents
        BY DEF Typed, TypeOK, SRPID
      <4>2. CASE n.srpID = 0
        BY <2>4, <4>1, <4>2 DEF Kept
      <4>3. CASE n.srpID # 0
        BY <1>2, <2>4, <3>2, <4>3, KeptByOthers
      <4> QED
        BY <4>2, <4>3
    <3> QED
      BY <2>3, <3>1, <3>2
  <2> HIDE DEF m
  <2>5. \A i \in 1 .. Len(toPCC') : Kept(toPCC'[i], intents', orphans')
    BY <2>2, <2>4 DEF KeptInFlight, Apart, PlacesApart
  <2>6. ASSUME NEW j \in 1 .. Len(toPCE'), IsAnswer(toPCE'[j])
        PROVE  Kept(toPCE'[j], intents', orphans')
    <3>1. j + 1 \in 1 .. Len(toPCE) /\ toPCE'[j] = toPCE[j + 1] /\ j + 1 # 1
      BY <2>2
    <3> QED
      BY <2>2, <2>4, <2>6, <3>1 DEF KeptInFlight, Apart, AnsweredApart
  <2>7. \A p \in Senders : Holds(p)' => Kept(task'[p], intents', orphans')
    BY <2>2, <2>4 DEF KeptInFlight, Apart, PlacesApart
  <2> QED
    BY <2>1, <2>5, <2>6, <2>7 DEF KeptInFlight
<1> QED
  BY <1>1, <1>2

(* A new SRP-ID is nobody's in flight, unless the ID of an orphan in       *)
(* flight is handed out again.                                             *)
LEMMA AllocateTracked ==
    ASSUME Typed, Apart, KeptInFlight, ~tainted', NEW p \in Senders, Allocate(p)
    PROVE  Apart' /\ KeptInFlight'
<1> DEFINE id == NextUnusedSRPID
<1> USE DEF sessionVars, intentVars, senderVars
<1>1. id \in SRPID \ DOMAIN intents
  BY NextUnusedIsFree DEF Allocate, Typed
<1>2. ~\E m \in InFlight : m.srpID = id /\ m.req \in orphans
  BY Zenon DEF Allocate
<1>3. /\ toPCC' = toPCC /\ toPCE' = toPCE /\ orphans' = orphans
      /\ intents' = [i \in DOMAIN intents \cup {id} |->
                        IF i = id THEN [setting |-> task[p].setting, req |-> task[p].req,
                                        overdue |-> FALSE]
                        ELSE intents[i]]
      /\ task' = [task EXCEPT ![p].srpID = id] /\ pc' = [pc EXCEPT ![p] = "send"]
      /\ pc[p] = "allocate"
  BY DEF Allocate
<1> HIDE DEF id
<1>4. /\ task'[p].srpID = id /\ task'[p].req = task[p].req /\ Holds(p)' /\ ~Holds(p)
      /\ \A q \in Senders \ {p} : task'[q] = task[q] /\ (Holds(q)' <=> Holds(q))
  <2>1. /\ pc \in [Senders -> {"idle", "allocate", "send", "forget", "ended"}]
        /\ task \in [Senders -> Requests \cup {NoTask}] /\ task[p] \in Requests
    BY <1>3 DEF Typed, TypeOK, TasksTyped
  <2> QED
    BY <1>3, <2>1 DEF Requests, Holds
<1>5. ASSUME NEW m, Kept(m, intents, orphans), m \in InFlight
      PROVE  m.srpID # id /\ Kept(m, intents', orphans')
  <2>1. m.srpID # id
    BY <1>1, <1>2, <1>5 DEF Kept
  <2> QED
    BY <1>3, <1>5, <2>1 DEF Kept
<1>6. \A i \in 1 .. Len(toPCC) : toPCC[i].srpID # id /\ Kept(toPCC[i], intents', orphans')
  BY <1>5, InFlightPlaces DEF KeptInFlight, Typed
<1>7. \A j \in 1 .. Len(toPCE) : IsAnswer(toPCE[j]) =>
         toPCE[j].srpID # id /\ Kept(toPCE[j], intents', orphans')
  BY <1>5, InFlightPlaces DEF KeptInFlight, Typed
<1>8. \A q \in Senders : Holds(q) => task[q].srpID # id /\ Kept(task[q], intents', orphans')
  BY <1>5, InFlightPlaces DEF KeptInFlight, Typed
<1>9. Kept(task'[p], intents', orphans')
  BY <1>3, <1>4 DEF Kept
<1>10. KeptInFlight'
  <2>1. \A q \in Senders : Holds(q)' => Kept(task'[q], intents', orphans')
    BY <1>4, <1>8, <1>9
  <2> QED
    BY <1>3, <1>6, <1>7, <2>1 DEF KeptInFlight
<1>11. SentApart' /\ AnsweredApart'
  BY <1>3 DEF Apart, SentApart, AnsweredApart
<1>12. HeldApart'
  BY <1>4, <1>8 DEF Apart, HeldApart
<1>13. PlacesApart'
  <2>1. \A i \in 1 .. Len(toPCC), q \in Senders : Holds(q)' => toPCC[i].srpID # task'[q].srpID
    BY <1>4, <1>6 DEF Apart, PlacesApart
  <2>2. \A j \in 1 .. Len(toPCE), q \in Senders :
           IsAnswer(toPCE[j]) /\ Holds(q)' => toPCE[j].srpID # task'[q].srpID
    BY <1>4, <1>7 DEF Apart, PlacesApart
  <2> QED
    BY <1>3, <2>1, <2>2 DEF Apart, PlacesApart
<1> QED
  BY <1>10, <1>11, <1>12, <1>13 DEF Apart

(* A request that is sent moves from its sender to the connection.         *)
LEMMA SendTracked ==
    ASSUME Typed, Apart, KeptInFlight, NEW p \in Senders, Send(p)
    PROVE  Apart' /\ KeptInFlight'
<1> USE DEF sessionVars, intentVars
<1>1. /\ toPCE' = toPCE /\ orphans' = orphans /\ intents' = intents
      /\ Holds(p) /\ ~Holds(p)'
      /\ \A q \in Senders \ {p} : task'[q] = task[q] /\ (Holds(q)' <=> Holds(q))
  BY DEF Send, FinishRequest, Typed, TypeOK, Holds
<1>2. CASE conn # "up"
  BY <1>1, <1>2, KeptWhenQuiet DEF Send
<1>3. CASE conn = "up"
  <2>1. task[p] \in Requests
    BY DEF Send, Typed, TasksTyped
  <2>2. /\ Len(toPCC) \in Nat /\ Len(toPCC') = Len(toPCC) + 1
        /\ \A i \in 1 .. Len(toPCC) : toPCC'[i] = toPCC[i]
        /\ toPCC'[Len(toPCC) + 1] = task[p]
    BY <1>3, <2>1, AppendProperties DEF Send, Typed, TypeOK
  <2>3. \A i \in 1 .. Len(toPCC') :
           \/ i \in 1 .. Len(toPCC) /\ toPCC'[i] = toPCC[i]
           \/ i = Len(toPCC) + 1 /\ toPCC'[i] = task[p]
    BY <2>2
  <2>4. KeptInFlight'
    <3>1. \A i \in 1 .. Len(toPCC') : Kept(toPCC'[i], intents', orphans')
      BY <1>1, <2>3 DEF KeptInFlight
    <3> QED
      BY <1>1, <3>1 DEF KeptInFlight
  <2>5. SentApart'
    BY <1>1, <2>3 DEF Apart, SentApart, PlacesApart
  <2>6. AnsweredApart' /\ HeldApart'
    BY <1>1 DEF Apart, AnsweredApart, HeldApart
  <2>7. PlacesApart'
    <3>1. \A i \in 1 .. Len(toPCC'), j \in 1 .. Len(toPCE) :
             IsAnswer(toPCE[j]) => toPCC'[i].srpID # toPCE[j].srpID
      BY <1>1, <2>3 DEF Apart, PlacesApart
    <3>2. \A i \in 1 .. Len(toPCC'), q \in Senders :
             Holds(q)' => toPCC'[i].srpID # task'[q].srpID
      BY <1>1, <2>3 DEF Apart, PlacesApart, HeldApart
    <3>3. \A j \in 1 .. Len(toPCE), q \in Senders :
             IsAnswer(toPCE[j]) /\ Holds(q)' => toPCE[j].srpID # task'[q].srpID
      BY <1>1 DEF Apart, PlacesApart
    <3> QED
      BY <1>1, <3>1, <3>2, <3>3 DEF PlacesApart
  <2> QED
    BY <2>4, <2>5, <2>6, <2>7 DEF Apart
<1> QED
  BY <1>2, <1>3

(* The answer to a request takes its place.                                *)
LEMMA AnswerTracked ==
    ASSUME Typed, Apart, KeptInFlight, NEW m \in Reports \cup PCErrs, Answering, Answer(m),
           m.srpID = Head(toPCC).srpID, m.req = Head(toPCC).req
    PROVE  Apart' /\ KeptInFlight'
<1> USE DEF intentVars, senderVars
<1> DEFINE r == Head(toPCC)
<1>1. UNCHANGED <<pc, task, intents, orphans>>
  BY DEF Answer
<1>2. /\ Len(toPCC) \in Nat /\ 1 \in 1 .. Len(toPCC) /\ r = toPCC[1]
      /\ \A i \in 1 .. Len(toPCC') :
            i + 1 \in 1 .. Len(toPCC) /\ toPCC'[i] = toPCC[i + 1] /\ i + 1 # 1
  <2>1. toPCC' = Tail(toPCC) /\ toPCC # <<>> /\ Len(toPCC) \in Nat
    BY DEF Answer, Answering, Typed, TypeOK
  <2>2. /\ Len(toPCC') = Len(toPCC) - 1
        /\ \A i \in 1 .. Len(toPCC') : toPCC'[i] = toPCC[i + 1]
    BY <2>1, HeadTailProperties DEF Typed, TypeOK
  <2> QED
    BY <2>1, <2>2 DEF Typed, TypeOK
<1>3. /\ Len(toPCE) \in Nat /\ Len(toPCE') = Len(toPCE) + 1
      /\ \A j \in 1 .. Len(toPCE) : toPCE'[j] = toPCE[j]
      /\ toPCE'[Len(toPCE) + 1] = m
  BY AppendProperties DEF Answer, Typed, TypeOK
<1>4. \A j \in 1 .. Len(toPCE') :
         \/ j \in 1 .. Len(toPCE) /\ toPCE'[j] = toPCE[j]
         \/ j = Len(toPCE) + 1 /\ toPCE'[j] = m
  BY <1>3
<1> HIDE DEF r
<1>5. Kept(m, intents', orphans')
  BY <1>1, <1>2 DEF KeptInFlight, Kept, r
<1>6. KeptInFlight'
  <2>1. \A i \in 1 .. Len(toPCC') : Kept(toPCC'[i], intents', orphans')
    BY <1>1, <1>2 DEF KeptInFlight
  <2>2. \A j \in 1 .. Len(toPCE') : IsAnswer(toPCE'[j]) => Kept(toPCE'[j], intents', orphans')
    BY <1>1, <1>4, <1>5 DEF KeptInFlight
  <2> QED
    BY <1>1, <2>1, <2>2 DEF KeptInFlight, Holds
<1>7. SentApart'
  <2> SUFFICES ASSUME NEW i \in 1 .. Len(toPCC'), NEW j \in 1 .. Len(toPCC'),
                      toPCC'[i].srpID = toPCC'[j].srpID
               PROVE  i = j
    BY DEF SentApart
  <2>1. i + 1 = j + 1
    BY <1>2 DEF Apart, SentApart
  <2> QED
    BY <2>1
<1>8. AnsweredApart'
  BY <1>2, <1>4 DEF Apart, AnsweredApart, PlacesApart, r
<1>9. HeldApart'
  BY <1>1 DEF Apart, HeldApart, Holds
<1>10. PlacesApart'
  <2>1. \A i \in 1 .. Len(toPCC'), j \in 1 .. Len(toPCE') :
           IsAnswer(toPCE'[j]) => toPCC'[i].srpID # toPCE'[j].srpID
    <3> SUFFICES ASSUME NEW i \in 1 .. Len(toPCC'), NEW j \in 1 .. Len(toPCE'), IsAnswer(toPCE'[j])
                 PROVE  toPCC'[i].srpID # toPCE'[j].srpID
      BY Zenon DEF IsAnswer
    <3>1. i + 1 \in 1 .. Len(toPCC) /\ toPCC'[i] = toPCC[i + 1] /\ i + 1 # 1
      BY <1>2
    <3>2. CASE j \in 1 .. Len(toPCE) /\ toPCE'[j] = toPCE[j]
      BY <3>1, <3>2, Zenon DEF Apart, PlacesApart
    <3>3. CASE toPCE'[j] = m
      <4>1. toPCC[i + 1].srpID # toPCC[1].srpID
        BY <1>2, <3>1, Zenon DEF Apart, SentApart
      <4> QED
        BY <1>2, <3>1, <3>3, <4>1
    <3> QED
      BY <1>4, <3>2, <3>3, Zenon
  <2>2. \A i \in 1 .. Len(toPCC'), p \in Senders :
           Holds(p)' => toPCC'[i].srpID # task'[p].srpID
    BY <1>1, <1>2 DEF Apart, PlacesApart, Holds
  <2>3. \A j \in 1 .. Len(toPCE'), p \in Senders :
           IsAnswer(toPCE'[j]) /\ Holds(p)' => toPCE'[j].srpID # task'[p].srpID
    BY <1>1, <1>2, <1>4 DEF Apart, PlacesApart, Holds, r
  <2> QED
    BY <2>1, <2>2, <2>3 DEF PlacesApart
<1> QED
  BY <1>6, <1>7, <1>8, <1>9, <1>10 DEF Apart

(* What the PCC says of its own accord answers nothing.                    *)
LEMMA UnaskedTracked ==
    ASSUME Typed, Apart, KeptInFlight, Unasked,
           NEW m \in Reports \cup {Close}, ~IsAnswer(m), toPCE' = Append(toPCE, m)
    PROVE  Apart' /\ KeptInFlight'
<1> USE DEF intentVars, senderVars
<1>1. UNCHANGED <<pc, task, intents, orphans, toPCC>>
  BY DEF Unasked
<1>2. /\ Len(toPCE) \in Nat /\ Len(toPCE') = Len(toPCE) + 1
      /\ \A j \in 1 .. Len(toPCE) : toPCE'[j] = toPCE[j]
      /\ toPCE'[Len(toPCE) + 1] = m
  BY AppendProperties DEF Typed, TypeOK
<1>3. \A j \in 1 .. Len(toPCE') : IsAnswer(toPCE'[j]) =>
         j \in 1 .. Len(toPCE) /\ toPCE'[j] = toPCE[j]
  BY <1>2
<1>4. KeptInFlight'
  BY <1>1, <1>3 DEF KeptInFlight, Holds
<1>5. SentApart' /\ HeldApart'
  BY <1>1 DEF Apart, SentApart, HeldApart, Holds
<1>6. AnsweredApart'
  BY <1>3 DEF Apart, AnsweredApart
<1>7. PlacesApart'
  BY <1>1, <1>3 DEF Apart, PlacesApart, Holds
<1> QED
  BY <1>4, <1>5, <1>6, <1>7 DEF Apart

(* What the PCC sends keeps the requests and answers apart.                *)
LEMMA PCCTracked ==
    ASSUME Typed, Apart, KeptInFlight, PCCStep
    PROVE  Apart' /\ KeptInFlight'
<1>1. ASSUME NEW m \in Reports \cup PCErrs, Answering, Answer(m),
             m.srpID = Head(toPCC).srpID, m.req = Head(toPCC).req
      PROVE  Apart' /\ KeptInFlight'
  BY <1>1, AnswerTracked
<1>2. Answering => Head(toPCC) \in Requests
  BY HeadTailProperties DEF Answering, Typed, TypeOK
<1>4. \A lspID \in 0 .. MaxLSPID : NextLSPID(lspID) \in 0 .. MaxLSPID
  BY SessionAssumption DEF NextLSPID
<1>5. \A q \in DOMAIN lsps : q \in Plsp /\ lsps[q] \in LSPs
  BY DEF Typed, TypeOK
<1>6. \A q \in DOMAIN lsps : lsps[q].lspID \in 0 .. MaxLSPID /\ lsps[q].key \in Key
  BY <1>5 DEF LSPs
<1>7. CASE PCCCreates
  <2>1. Answering /\ Head(toPCC) \in Requests
    BY <1>2, <1>7 DEF PCCCreates
  <2>2. PICK plsp \in Plsp \ DOMAIN lsps, lsp \in Reportable(Head(toPCC).key, 0) :
           Answer(Report(Head(toPCC).srpID, plsp, lsp, FALSE, FALSE, Head(toPCC).req))
    BY <1>7 DEF PCCCreates
  <2>3. lsp \in LSPs
    BY <2>1, ReportableTyped, SessionAssumption DEF Requests
  <2>4. Report(Head(toPCC).srpID, plsp, lsp, FALSE, FALSE, Head(toPCC).req) \in Reports
    BY <2>1, <2>3, ReportTyped DEF Requests
  <2> QED
    BY <1>1, <2>1, <2>2, <2>4 DEF Report
<1>8. CASE PCCUpdates
  <2> DEFINE plsp == Head(toPCC).plsp
  <2>1. Answering /\ Head(toPCC) \in Requests /\ plsp \in DOMAIN lsps
    BY <1>2, <1>8 DEF PCCUpdates
  <2>2. PICK lspID \in {lsps[plsp].lspID, NextLSPID(lsps[plsp].lspID)} :
           \E lsp \in Reportable(lsps[plsp].key, lspID) :
              Answer(Report(Head(toPCC).srpID, plsp, lsp, FALSE, FALSE, Head(toPCC).req))
    BY <1>8 DEF PCCUpdates
  <2>3. PICK lsp \in Reportable(lsps[plsp].key, lspID) :
           Answer(Report(Head(toPCC).srpID, plsp, lsp, FALSE, FALSE, Head(toPCC).req))
    BY <2>2
  <2>4. lspID \in 0 .. MaxLSPID /\ lsps[plsp].key \in Key
    BY <1>4, <1>6, <2>1
  <2>5. lsp \in LSPs
    BY <2>4, ReportableTyped
  <2>6. Report(Head(toPCC).srpID, plsp, lsp, FALSE, FALSE, Head(toPCC).req) \in Reports
    BY <1>5, <2>1, <2>5, ReportTyped DEF Requests
  <2> QED
    BY <1>1, <2>1, <2>3, <2>6 DEF Report
<1>9. CASE PCCDeletes
  <2> DEFINE plsp == Head(toPCC).plsp
  <2>1. /\ Answering /\ Head(toPCC) \in Requests /\ plsp \in DOMAIN lsps
        /\ Answer(Report(Head(toPCC).srpID, plsp, lsps[plsp], TRUE, FALSE, Head(toPCC).req))
    BY <1>2, <1>9 DEF PCCDeletes
  <2>2. Report(Head(toPCC).srpID, plsp, lsps[plsp], TRUE, FALSE, Head(toPCC).req) \in Reports
    BY <1>5, <2>1, ReportTyped DEF Requests
  <2> QED
    BY <1>1, <2>1, <2>2 DEF Report
<1>10. CASE PCCRejects
  <2>1. Answering /\ Head(toPCC) \in Requests
    BY <1>2, <1>10 DEF PCCRejects
  <2>2. PCErr(Head(toPCC).srpID, Head(toPCC).req) \in PCErrs
    BY <2>1 DEF PCErr, PCErrs, Requests
  <2>3. Answer(PCErr(Head(toPCC).srpID, Head(toPCC).req))
    BY <1>10 DEF PCCRejects
  <2> QED
    BY <1>1, <2>1, <2>2, <2>3 DEF PCErr
<1>11. ASSUME NEW plsp \in Plsp, PCCChanges(plsp) PROVE Apart' /\ KeptInFlight'
  <2>1. plsp \in DOMAIN lsps /\ Unasked
    BY <1>11 DEF PCCChanges
  <2>2. PICK lspID \in {lsps[plsp].lspID, NextLSPID(lsps[plsp].lspID)} :
           \E lsp \in Reportable(lsps[plsp].key, lspID) :
              toPCE' = Append(toPCE, Report(0, plsp, lsp, FALSE, FALSE, 0))
    BY <1>11 DEF PCCChanges
  <2>3. PICK lsp \in Reportable(lsps[plsp].key, lspID) :
           toPCE' = Append(toPCE, Report(0, plsp, lsp, FALSE, FALSE, 0))
    BY <2>2
  <2>4. lspID \in 0 .. MaxLSPID /\ lsps[plsp].key \in Key
    BY <1>4, <1>6, <2>1
  <2>5. lsp \in LSPs
    BY <2>4, ReportableTyped
  <2>6. Report(0, plsp, lsp, FALSE, FALSE, 0) \in Reports
    BY <2>5, ReportTyped
  <2>7. ~IsAnswer(Report(0, plsp, lsp, FALSE, FALSE, 0))
    BY DEF IsAnswer, Report
  <2> QED
    BY <2>1, <2>3, <2>6, <2>7, UnaskedTracked
<1>12. ASSUME NEW plsp \in Plsp, PCCRemoves(plsp) PROVE Apart' /\ KeptInFlight'
  <2>1. /\ plsp \in DOMAIN lsps /\ Unasked
        /\ toPCE' = Append(toPCE, Report(0, plsp, lsps[plsp], TRUE, FALSE, 0))
    BY <1>12 DEF PCCRemoves
  <2>2. Report(0, plsp, lsps[plsp], TRUE, FALSE, 0) \in Reports
    BY <1>5, <2>1, ReportTyped
  <2>3. ~IsAnswer(Report(0, plsp, lsps[plsp], TRUE, FALSE, 0))
    BY DEF IsAnswer, Report
  <2> QED
    BY <2>1, <2>2, <2>3, UnaskedTracked
<1>13. CASE PCCCloses
  <2>1. Unasked /\ toPCE' = Append(toPCE, Close) /\ ~IsAnswer(Close)
    BY <1>13 DEF PCCCloses, IsAnswer, Close
  <2> QED
    BY <2>1, UnaskedTracked
<1>14. CASE ConnectionBreaks
  <2>1. UNCHANGED <<pc, task, intents, orphans, toPCE>> /\ toPCC' = <<>>
    BY <1>14 DEF ConnectionBreaks, senderVars, intentVars
  <2> QED
    BY <2>1, KeptWhenQuiet DEF Holds
<1> QED
  BY <1>7, <1>8, <1>9, <1>10, <1>11, <1>12, <1>13, <1>14 DEF PCCStep

(* The receiver reads an answer together with the intent of its request.   *)
LEMMA ReceiverTracked ==
    ASSUME Typed, Apart, KeptInFlight, ReceiverStep
    PROVE  Apart' /\ KeptInFlight'
<1> USE DEF sessionVars, intentVars, senderVars
<1>1. Receiver \in Senders /\ pc \in [Senders -> {"idle", "allocate", "send", "forget", "ended"}]
      /\ task \in [Senders -> Requests \cup {NoTask}]
  BY DEF Senders, Typed, TypeOK
<1>2. ASSUME NEW r \in Reports, r = Head(toPCE),
             DeleteReported(r) \/ RegisterReported(r) \/ RegisterSRPolicy(r)
      PROVE  intents' = intents \/ intents' = WithoutIntents({r.srpID})
  BY <1>2 DEF DeleteReported, RegisterReported, RegisterSRPolicy, RefuseReport
<1>3. CASE ReceiveReport
  <2>1. /\ Head(toPCE) \in Reports /\ toPCE # <<>> /\ toPCE' = Tail(toPCE)
        /\ Head(toPCE).kind = "report"
        /\ toPCC' = toPCC /\ UNCHANGED <<pc, task, orphans>>
    BY <1>3, HeadTyped DEF ReceiveReport, Reading, Typed
  <2>2. intents' = intents \/ intents' = WithoutIntents({Head(toPCE).srpID})
    BY <1>2, <1>3, <2>1 DEF ReceiveReport
  <2> QED
    BY <2>1, <2>2, KeptWhenRead DEF Holds
<1>4. CASE ReceiveUnsolicited
  <2>1. /\ Head(toPCE) \in Reports /\ toPCE # <<>> /\ toPCE' = Tail(toPCE)
        /\ Head(toPCE).kind = "report" /\ pc[Receiver] = "idle"
        /\ toPCC' = toPCC /\ orphans' = orphans
    BY <1>4, HeadTyped DEF ReceiveUnsolicited, Reading, Typed
  <2>2. intents' = intents \/ intents' = WithoutIntents({Head(toPCE).srpID})
    BY <1>2, <1>4, <2>1 DEF ReceiveUnsolicited
  <2>3. /\ pc'[Receiver] = "allocate"
        /\ \A p \in Senders \ {Receiver} : pc'[p] = pc[p] /\ task'[p] = task[p]
    BY <1>1, <1>4 DEF ReceiveUnsolicited, StartRequest
  <2>4. \A p \in Senders : Holds(p)' => Holds(p) /\ task'[p] = task[p]
    BY <2>1, <2>3 DEF Holds
  <2> QED
    BY <2>1, <2>2, <2>4, KeptWhenRead
<1>5. CASE ReceiveUncomputable \/ ReceiveEndOfSync
  <2>1. /\ toPCE # <<>> /\ toPCE' = Tail(toPCE) /\ intents' = intents
        /\ toPCC' = toPCC /\ UNCHANGED <<pc, task, orphans>>
    BY <1>5 DEF ReceiveUncomputable, RefuseReport, ReceiveEndOfSync, Reading
  <2> QED
    BY <2>1, KeptWhenQuiet DEF Holds
<1>6. CASE ReceivePCErr
  <2>1. /\ toPCE # <<>> /\ toPCE' = Tail(toPCE) /\ Head(toPCE).kind = "pcErr"
        /\ intents' = WithoutIntents({Head(toPCE).srpID})
        /\ toPCC' = toPCC /\ UNCHANGED <<pc, task, orphans>>
    BY <1>6 DEF ReceivePCErr, Reading
  <2> QED
    BY <2>1, KeptWhenRead DEF Holds
<1>7. CASE ReceiveClose \/ ReceiveFails
  <2>1. /\ toPCE' = toPCE \/ (toPCE # <<>> /\ toPCE' = Tail(toPCE))
        /\ pc[Receiver] = "idle" /\ pc'[Receiver] = "ended"
        /\ \A p \in Senders \ {Receiver} : pc'[p] = pc[p]
        /\ toPCC' = toPCC /\ UNCHANGED <<intents, task, orphans>>
    BY <1>1, <1>7 DEF ReceiveClose, ReceiveFails, Reading
  <2> QED
    BY <2>1, KeptWhenQuiet DEF Holds
<1> QED
  BY <1>3, <1>4, <1>5, <1>6, <1>7 DEF ReceiverStep

(* Every step tracks what is in flight.                                    *)
LEMMA InFlightStep ==
    Typed /\ InFlightTracked /\ [Next]_vars => InFlightTracked'
<1> SUFFICES ASSUME Typed, InFlightTracked, [Next]_vars, ~tainted', ~Cleared'
             PROVE  Apart' /\ KeptInFlight'
  BY Zenon DEF InFlightTracked
<1> USE DEF sessionVars, intentVars, senderVars
<1>1. Apart /\ KeptInFlight
  BY TaintedLasts, ClearedLasts, Zenon DEF InFlightTracked
<1>2. /\ pc \in [Senders -> {"idle", "allocate", "send", "forget", "ended"}]
      /\ task \in [Senders -> Requests \cup {NoTask}]
      /\ Handlers \subseteq Senders
  BY DEF Senders, Typed, TypeOK
<1>3. ASSUME NEW p \in Senders, toPCC' = toPCC, toPCE' = toPCE, orphans' = orphans,
             intents' = intents, ~Holds(p)' \/ (Holds(p) /\ task'[p] = task[p]),
             \A q \in Senders \ {p} : pc'[q] = pc[q] /\ task'[q] = task[q]
      PROVE  Apart' /\ KeptInFlight'
  <2>1. \A q \in Senders : Holds(q)' => Holds(q) /\ task'[q] = task[q]
    BY <1>3 DEF Holds
  <2> QED
    BY <1>1, <1>3, <2>1, KeptWhenQuiet
<1>4. ASSUME NEW h \in Handlers, NEW key \in Key,
             \/ DeleteSRPolicy(h, key)
             \/ \E setting \in Setting : CreateSRPolicy(h, key, setting)
      PROVE  Apart' /\ KeptInFlight'
  <2>1. /\ toPCC' = toPCC /\ toPCE' = toPCE /\ orphans' = orphans /\ intents' = intents
        /\ pc'[h] = "allocate"
        /\ \A q \in Senders \ {h} : pc'[q] = pc[q] /\ task'[q] = task[q]
    BY <1>2, <1>4 DEF DeleteSRPolicy, CreateSRPolicy, StartRequest
  <2> QED
    BY <1>2, <1>3, <2>1 DEF Holds
<1>5. ASSUME NEW p \in Senders, Allocate(p) PROVE Apart' /\ KeptInFlight'
  BY <1>1, <1>5, AllocateTracked
<1>6. ASSUME NEW p \in Senders, AllocateFails(p) PROVE Apart' /\ KeptInFlight'
  <2>1. /\ toPCC' = toPCC /\ toPCE' = toPCE /\ orphans' = orphans /\ intents' = intents
        /\ pc'[p] = "idle"
        /\ \A q \in Senders \ {p} : pc'[q] = pc[q] /\ task'[q] = task[q]
    BY <1>2, <1>6 DEF AllocateFails, FinishRequest
  <2> QED
    BY <1>3, <2>1 DEF Holds
<1>7. ASSUME NEW p \in Senders, Send(p) PROVE Apart' /\ KeptInFlight'
  BY <1>1, <1>7, SendTracked
<1>8. ASSUME NEW p \in Senders, SendFails(p) PROVE Apart' /\ KeptInFlight'
  <2>1. /\ toPCC' = toPCC /\ toPCE' = toPCE /\ orphans' = orphans /\ intents' = intents
        /\ pc[p] = "send" /\ task' = task
        /\ \A q \in Senders \ {p} : pc'[q] = pc[q] /\ task'[q] = task[q]
    BY <1>2, <1>8 DEF SendFails
  <2> QED
    BY <1>3, <2>1 DEF Holds
<1>9. ASSUME NEW p \in Senders, Forget(p) PROVE Apart' /\ KeptInFlight'
  <2>1. /\ toPCC' = toPCC /\ toPCE' = toPCE /\ orphans' = orphans
        /\ intents' = WithoutIntents({task[p].srpID})
        /\ Holds(p) /\ ~Holds(p)'
        /\ \A q \in Senders \ {p} : pc'[q] = pc[q] /\ task'[q] = task[q]
    BY <1>2, <1>9 DEF Forget, FinishRequest, Holds
  <2>2. \A q \in Senders : Holds(q)' => Holds(q) /\ task'[q] = task[q] /\ q # p
    BY <2>1 DEF Holds
  <2>3. Apart'
    BY <1>1, <2>1, <2>2, FewerApart
  <2>4. ASSUME NEW m, Kept(m, intents, orphans), m.srpID # task[p].srpID
        PROVE  Kept(m, intents', orphans')
    BY <2>1, <2>4, KeptByOthers
  <2>5. \A i \in 1 .. Len(toPCC) : Kept(toPCC[i], intents', orphans')
    BY <1>1, <2>1, <2>4 DEF KeptInFlight, Apart, PlacesApart
  <2>6. \A j \in 1 .. Len(toPCE) : IsAnswer(toPCE[j]) => Kept(toPCE[j], intents', orphans')
    BY <1>1, <2>1, <2>4 DEF KeptInFlight, Apart, PlacesApart
  <2>7. \A q \in Senders : Holds(q)' => Kept(task'[q], intents', orphans')
    BY <1>1, <2>1, <2>2, <2>4 DEF KeptInFlight, Apart, HeldApart
  <2> QED
    BY <2>1, <2>3, <2>5, <2>6, <2>7 DEF KeptInFlight
<1>10. CASE ReceiverStep
  BY <1>1, <1>10, ReceiverTracked
<1>11. ASSUME NEW id \in SRPID, Elapse(id) PROVE Apart' /\ KeptInFlight'
  <2>1. /\ UNCHANGED <<pc, task, toPCC, toPCE, orphans>>
        /\ intents' = [intents EXCEPT ![id].overdue = TRUE]
    BY <1>11 DEF Elapse
  <2>2. \A i \in DOMAIN intents : intents[i] \in Intents
    BY DEF Typed, TypeOK
  <2>3. DOMAIN intents' = DOMAIN intents
        /\ \A i \in DOMAIN intents : intents'[i].req = intents[i].req
    BY <2>1, <2>2 DEF Intents
  <2>4. \A m : Kept(m, intents, orphans) => Kept(m, intents', orphans')
    BY <2>1, <2>3 DEF Kept
  <2> QED
    BY <1>1, <2>1, <2>4, KeptWhenQuiet DEF Holds
<1>12. CASE Sweep
  <2>1. /\ UNCHANGED <<pc, task, toPCC, toPCE>>
        /\ intents' = WithoutIntents(Overdue)
        /\ orphans' = orphans \cup {intents[i].req : i \in Overdue}
    BY <1>12 DEF Sweep
  <2>2. /\ DOMAIN intents' = DOMAIN intents \ Overdue
        /\ \A i \in DOMAIN intents' : intents'[i] = intents[i]
    BY <2>1, WithoutIntentsTyped DEF Typed, WithoutIntents, Restrict
  <2>3. \A m : Kept(m, intents, orphans) => Kept(m, intents', orphans')
    BY <2>1, <2>2 DEF Kept
  <2> QED
    BY <1>1, <2>1, <2>3, KeptWhenQuiet DEF Holds
<1>13. CASE EstablishedReturns \/ DeleteSession
  <2>1. UNCHANGED <<pc, task, toPCC, toPCE, orphans, intents>>
    BY <1>13 DEF EstablishedReturns, DeleteSession
  <2> QED
    BY <1>1, <2>1, KeptWhenQuiet DEF Holds
<1>14. ASSUME NEW x \in DOMAIN closer, CloserStep(x) PROVE Apart' /\ KeptInFlight'
  <2>1. CASE CloseConn(x) \/ Unlist(x)
    <3>1. /\ UNCHANGED <<pc, task, orphans, intents>>
          /\ toPCC' \in {toPCC, <<>>} /\ toPCE' \in {toPCE, <<>>}
      BY <2>1 DEF CloseConn, Unlist
    <3> QED
      BY <1>1, <3>1, KeptWhenQuiet DEF Holds
  <2>2. CASE ClearIntents(x)
    <3>1. closer'[x] = "unlist" /\ x \in DOMAIN closer'
      BY <2>2 DEF ClearIntents, Typed, TypeOK
    <3> QED
      BY <3>1 DEF Cleared
  <2> QED
    BY <1>14, <2>1, <2>2 DEF CloserStep
<1>15. CASE PCCStep
  BY <1>1, <1>15, PCCTracked
<1>16. CASE UNCHANGED vars
  <2>1. UNCHANGED <<pc, task, toPCC, toPCE, orphans, intents>>
    BY <1>16 DEF vars
  <2> QED
    BY <1>1, <2>1, KeptWhenQuiet DEF Holds
<1> QED
  BY <1>4, <1>5, <1>6, <1>7, <1>8, <1>9, <1>10, <1>11, <1>12, <1>13, <1>14, <1>15, <1>16
     DEF Next, SenderStep

------------------------------------------------------------------------------
(* What the reports on their way tell *)

IsAbout(m, plsp) == m.kind = "report" /\ m.plsp = plsp
Pending(plsp) == \E j \in 1 .. Len(toPCE) : IsAbout(toPCE[j], plsp)

(* What a report says of its LSP is how the LSP is.                        *)
Tells(r) ==
    IF r.remove THEN ~r.sync /\ r.plsp \notin DOMAIN lsps
    ELSE /\ r.plsp \in DOMAIN lsps
         /\ r.lspID = lsps[r.plsp].lspID /\ r.state = lsps[r.plsp].state

ListedAsIs(plsp) ==
    /\ plsp \in DOMAIN lsps <=> WithPlsp(plsp) # {}
    /\ \A i \in WithPlsp(plsp) :
          policies[i].lspID = lsps[plsp].lspID /\ policies[i].state = lsps[plsp].state

(* The last report on its way about an LSP tells how it is; without one    *)
(* the list does, unless the last that was read changed nothing.           *)
LastReportTells(plsp) ==
    \A j \in 1 .. Len(toPCE) :
       /\ IsAbout(toPCE[j], plsp)
       /\ \A k \in 1 .. Len(toPCE) : IsAbout(toPCE[k], plsp) => k <= j
       => Tells(toPCE[j])
ListTells(plsp) == ~Pending(plsp) /\ plsp \notin missed => ListedAsIs(plsp)
Informed == conn = "up" => \A plsp \in Plsp : LastReportTells(plsp) /\ ListTells(plsp)

(* Nothing more on its way, and the list is the database.                  *)
LEMMA InformedIsAgreement == Informed => QuiescentAgreement
<1> SUFFICES ASSUME Informed, isSynced, conn = "up", toPCE = <<>>,
                    NEW plsp \in Plsp \ missed
             PROVE  ListedAsIs(plsp)
  BY DEF QuiescentAgreement, ListedAsIs
<1>1. ~Pending(plsp)
  BY DEF Pending
<1> QED
  BY <1>1 DEF Informed, ListTells

(* The PCC's database is what it sends first, in whatever order.           *)
LEMMA FirstMessages ==
    ASSUME Init
    PROVE  \E n \in Nat : \E order \in Surjection(1 .. n, DOMAIN lsps) :
              /\ Len(toPCE) = n + 1 /\ toPCE[n + 1] = EndOfSync
              /\ \A i \in 1 .. n :
                    toPCE[i] = Report(0, order[i], lsps[order[i]], FALSE, TRUE, 0)
<1>1. PICK S \in SUBSET Plsp :
         \E f \in [S -> UNION {Reportable(k, 0) : k \in Key}] :
            /\ lsps = f
            /\ \E order \in SetToSeqs(S) :
                  toPCE = Append(SyncReports(f, order), EndOfSync)
  BY DEF Init
<1>2. PICK order \in SetToSeqs(S) : toPCE = Append(SyncReports(lsps, order), EndOfSync)
  BY <1>1
<1>3. DOMAIN lsps = S
  BY <1>1
<1> DEFINE n == Cardinality(S)
<1>4. IsFiniteSet(S) /\ n \in Nat /\ IsFiniteSet(1 .. n) /\ Cardinality(1 .. n) = n
  <2>1. IsFiniteSet(S) /\ n \in Nat
    BY SessionAssumption, FS_Subset, FS_CardinalityType
  <2> HIDE DEF n
  <2> QED
    BY <2>1, FS_Interval
<1>5. order \in [1 .. n -> S] /\ \A i, j \in 1 .. n : i # j => order[i] # order[j]
  BY DEF SetToSeqs
<1> HIDE DEF n
<1>6. order \in Injection(1 .. n, S)
  BY <1>5 DEF Injection, IsInjective
<1>7. order \in Surjection(1 .. n, S)
  BY <1>4, <1>6, FS_Injection DEF n
<1>8. SyncReports(lsps, order) =
         [i \in 1 .. n |-> Report(0, order[i], lsps[order[i]], FALSE, TRUE, 0)]
  BY <1>5 DEF SyncReports
<1>9. Len(toPCE) = n + 1 /\ toPCE[n + 1] = EndOfSync
      /\ \A i \in 1 .. n : toPCE[i] = Report(0, order[i], lsps[order[i]], FALSE, TRUE, 0)
  <2> DEFINE M == Reports \cup {EndOfSync}
             reports == SyncReports(lsps, order)
  <2>1. \A k \in Key : Reportable(k, 0) \subseteq LSPs
    BY SessionAssumption, ReportableTyped
  <2>2. lsps \in [S -> LSPs]
    BY <1>1, <2>1
  <2>3. reports \in Seq(Reports)
    BY <2>2, SyncReportsTyped
  <2>4. reports \in Seq(M) /\ EndOfSync \in M
    BY <2>3, SeqMonotonic
  <2>7. DOMAIN reports = 1 .. n
    BY <1>8
  <2> HIDE DEF M, reports
  <2>5. toPCE = Append(reports, EndOfSync)
    BY <1>2 DEF reports
  <2>8. Len(reports) = n
    BY <1>4, <2>4, <2>7, LenProperties
  <2>6. /\ Len(toPCE) = n + 1 /\ toPCE[n + 1] = EndOfSync
        /\ \A i \in 1 .. n : toPCE[i] = reports[i]
    BY <2>4, <2>5, <2>8, AppendProperties
  <2> QED
    BY <1>8, <2>6 DEF reports
<1> QED
  BY <1>3, <1>4, <1>7, <1>9

(* So every report on its way tells how its LSP is, and the list is empty. *)
LEMMA InformedInit == Init => Informed
<1> SUFFICES ASSUME Init, NEW plsp \in Plsp
             PROVE  LastReportTells(plsp) /\ ListTells(plsp)
  BY DEF Informed
<1>1. PICK n \in Nat : \E order \in Surjection(1 .. n, DOMAIN lsps) :
         /\ Len(toPCE) = n + 1 /\ toPCE[n + 1] = EndOfSync
         /\ \A i \in 1 .. n :
               toPCE[i] = Report(0, order[i], lsps[order[i]], FALSE, TRUE, 0)
  BY FirstMessages
<1>0. PICK order \in Surjection(1 .. n, DOMAIN lsps) :
         /\ Len(toPCE) = n + 1 /\ toPCE[n + 1] = EndOfSync
         /\ \A i \in 1 .. n :
               toPCE[i] = Report(0, order[i], lsps[order[i]], FALSE, TRUE, 0)
  BY <1>1
<1>2. \A i \in 1 .. n : order[i] \in DOMAIN lsps
  BY <1>0 DEF Surjection
<1>3. \A i \in 1 .. n : order[i] \in DOMAIN lsps /\ Tells(toPCE[i])
                         /\ IsAbout(toPCE[i], order[i])
  <2> TAKE i \in 1 .. n
  <2>1. order[i] \in DOMAIN lsps
    BY <1>2
  <2>2. toPCE[i] = Report(0, order[i], lsps[order[i]], FALSE, TRUE, 0)
    BY <1>0
  <2>3. /\ toPCE[i].kind = "report" /\ toPCE[i].plsp = order[i] /\ ~toPCE[i].remove
        /\ toPCE[i].lspID = lsps[order[i]].lspID /\ toPCE[i].state = lsps[order[i]].state
    BY <2>2 DEF Report
  <2> QED
    BY <2>1, <2>3 DEF Tells, IsAbout
<1>4. LastReportTells(plsp)
  BY <1>0, <1>3 DEF LastReportTells, IsAbout, EndOfSync
<1>5. ASSUME ~Pending(plsp) PROVE ListedAsIs(plsp)
  <2>1. ASSUME plsp \in DOMAIN lsps PROVE FALSE
    <3>1. PICK i \in 1 .. n : order[i] = plsp
      BY <2>1 DEF Surjection
    <3> QED
      BY <1>0, <1>3, <1>5, <3>1 DEF Pending
  <2>2. WithPlsp(plsp) = {}
    BY DEF Init, WithPlsp
  <2> QED
    BY <2>1, <2>2 DEF ListedAsIs
<1> QED
  BY <1>4, <1>5 DEF ListTells

(* Reading a message leaves the last report about every other LSP, and     *)
(* what is read last about an LSP tells how it is.                         *)
LEMMA ReadingTells ==
    ASSUME TypeOK, NEW plsp, LastReportTells(plsp), toPCE # <<>>, toPCE' = Tail(toPCE),
           lsps' = lsps
    PROVE  /\ LastReportTells(plsp)'
           /\ ~Pending(plsp)' /\ IsAbout(Head(toPCE), plsp) => Tells(Head(toPCE))
           /\ ~Pending(plsp)' /\ ~IsAbout(Head(toPCE), plsp) => ~Pending(plsp)
<1>1. /\ toPCE \in Seq(Reports \cup PCErrs \cup {EndOfSync, Close})
      /\ Len(toPCE) \in Nat /\ Len(toPCE) >= 1 /\ Head(toPCE) = toPCE[1]
      /\ Len(toPCE') = Len(toPCE) - 1
      /\ \A i \in 1 .. Len(toPCE') : toPCE'[i] = toPCE[i + 1]
  BY HeadTailProperties DEF TypeOK
<1>2. \A m : Tells(m)' <=> Tells(m)
  BY DEF Tells
<1>3. \A j \in 2 .. Len(toPCE) : j - 1 \in 1 .. Len(toPCE') /\ toPCE'[j - 1] = toPCE[j]
  BY <1>1
<1>4. LastReportTells(plsp)'
  <2> SUFFICES ASSUME NEW j \in 1 .. Len(toPCE'), IsAbout(toPCE'[j], plsp),
                      \A k \in 1 .. Len(toPCE') : IsAbout(toPCE'[k], plsp) => k <= j
               PROVE  Tells(toPCE'[j])
    BY <1>2 DEF LastReportTells, Tells
  <2>1. j + 1 \in 1 .. Len(toPCE) /\ toPCE'[j] = toPCE[j + 1]
    BY <1>1
  <2>2. ASSUME NEW k \in 1 .. Len(toPCE), IsAbout(toPCE[k], plsp) PROVE k <= j + 1
    <3>1. CASE k = 1
      BY <2>1, <3>1
    <3>2. CASE k # 1
      <4>1. k - 1 \in 1 .. Len(toPCE') /\ toPCE'[k - 1] = toPCE[k]
        BY <1>1, <1>3, <3>2
      <4>2. k - 1 <= j
        BY <2>2, <4>1
      <4> QED
        BY <4>2
    <3> QED
      BY <3>1, <3>2
  <2> QED
    BY <2>1, <2>2 DEF LastReportTells
<1>5. ASSUME ~Pending(plsp)' PROVE \A k \in 2 .. Len(toPCE) : ~IsAbout(toPCE[k], plsp)
  BY <1>3, <1>5 DEF Pending
<1>6. ASSUME ~Pending(plsp)', IsAbout(Head(toPCE), plsp) PROVE Tells(Head(toPCE))
  <2>1. 1 \in 1 .. Len(toPCE) /\ \A k \in 1 .. Len(toPCE) : IsAbout(toPCE[k], plsp) => k <= 1
    BY <1>1, <1>5, <1>6
  <2> QED
    BY <1>1, <1>6, <2>1 DEF LastReportTells
<1>7. ASSUME ~Pending(plsp)', ~IsAbout(Head(toPCE), plsp) PROVE ~Pending(plsp)
  BY <1>1, <1>5, <1>7 DEF Pending
<1> QED
  BY <1>4, <1>6, <1>7

(* Where the list of one LSP stays as it is, what it tells stays true.     *)
LEMMA SameEntries ==
    ASSUME NEW plsp, lsps' = lsps, ListedAsIs(plsp),
           \A j \in 1 .. Len(policies') : policies'[j].plsp = plsp =>
              \E i \in 1 .. Len(policies) : policies[i] = policies'[j],
           \A i \in 1 .. Len(policies) : policies[i].plsp = plsp =>
              \E j \in 1 .. Len(policies') : policies'[j] = policies[i]
    PROVE  ListedAsIs(plsp)'
<1>1. ASSUME NEW j \in WithPlsp(plsp)'
      PROVE  \E i \in WithPlsp(plsp) : policies[i] = policies'[j]
  BY <1>1 DEF WithPlsp
<1>2. WithPlsp(plsp) # {} => WithPlsp(plsp)' # {}
  <2> SUFFICES ASSUME NEW i \in WithPlsp(plsp) PROVE WithPlsp(plsp)' # {}
    OBVIOUS
  <2>1. i \in 1 .. Len(policies) /\ policies[i].plsp = plsp
    BY DEF WithPlsp
  <2>2. PICK j \in 1 .. Len(policies') : policies'[j] = policies[i]
    BY <2>1, Zenon
  <2>3. j \in WithPlsp(plsp)'
    BY <2>1, <2>2 DEF WithPlsp
  <2> QED
    BY <2>3
<1>3. WithPlsp(plsp)' # {} <=> WithPlsp(plsp) # {}
  BY <1>1, <1>2
<1> QED
  BY <1>1, <1>3 DEF ListedAsIs

(* A report that is applied makes the list tell what the report does; one  *)
(* that is not is a miss; neither touches what the list tells of others.   *)
Applied(r) ==
    /\ \A plsp \in Plsp \ {r.plsp} :
          /\ plsp \in missed' <=> plsp \in missed
          /\ ListedAsIs(plsp) => ListedAsIs(plsp)'
    /\ Tells(r) => r.plsp \in missed' \/ ListedAsIs(r.plsp)'

(* updateOrCreatePolicy appends, replaces one entry, or misses.            *)
LEMMA RegisterApplies ==
    ASSUME TypeOK, UniquePlspIDs, NEW r \in Reports, r.remove => r.sync, RegisterSRPolicy(r),
           lsps' = lsps
    PROVE  Applied(r)
<1> DEFINE settingFor(old) ==
              IF r.srpID \in DOMAIN intents THEN intents[r.srpID].setting ELSE old
           policy(old) ==
              [plsp |-> r.plsp, key |-> r.key, lspID |-> r.lspID, state |-> r.state,
               setting |-> settingFor(old)]
           at == Min(WithPlsp(r.plsp))
<1>1. policies \in Seq(Policies) /\ Len(policies) \in Nat
  BY DEF TypeOK
<1>2. \A old : policy(old).plsp = r.plsp /\ policy(old).lspID = r.lspID
               /\ policy(old).state = r.state
  OBVIOUS
<1>3. CASE WithPlsp(r.plsp) = {}
  <2>1. policies' = Append(policies, policy(NoSetting)) /\ missed' = missed \ {r.plsp}
    BY <1>3 DEF RegisterSRPolicy
  <2> HIDE DEF policy
  <2>2. /\ Len(policies') = Len(policies) + 1
        /\ \A i \in 1 .. Len(policies) : policies'[i] = policies[i]
        /\ policies'[Len(policies) + 1] = policy(NoSetting)
    BY <1>1, <2>1
  <2>3. ASSUME NEW plsp \in Plsp \ {r.plsp}, ListedAsIs(plsp) PROVE ListedAsIs(plsp)'
    BY <1>1, <1>2, <2>2, <2>3, SameEntries
  <2>4. ASSUME Tells(r) PROVE ListedAsIs(r.plsp)'
    BY <1>1, <1>2, <1>3, <2>2, <2>4 DEF Tells, ListedAsIs, WithPlsp
  <2> QED
    BY <2>1, <2>3, <2>4 DEF Applied
<1>4. CASE WithPlsp(r.plsp) # {} /\ UpToDate(at, r)
  <2>1. at \in 1 .. Len(policies) /\ policies[at].plsp = r.plsp
    BY <1>4, FirstWithPlsp
  <2>2. /\ policies' = [policies EXCEPT ![at] = policy(policies[at].setting)]
        /\ missed' = missed \ {r.plsp}
    BY <1>4 DEF RegisterSRPolicy
  <2> HIDE DEF policy, at
  <2>3. /\ Len(policies') = Len(policies)
        /\ \A i \in 1 .. Len(policies) :
              policies'[i] = IF i = at THEN policy(policies[at].setting) ELSE policies[i]
    BY <1>1, <2>1, <2>2
  <2>4. ASSUME NEW plsp \in Plsp \ {r.plsp}, ListedAsIs(plsp) PROVE ListedAsIs(plsp)'
    BY <1>1, <1>2, <2>1, <2>3, <2>4, SameEntries
  <2>5. ASSUME Tells(r) PROVE ListedAsIs(r.plsp)'
    BY <1>1, <1>2, <2>1, <2>3, <2>5 DEF Tells, ListedAsIs, WithPlsp, UniquePlspIDs
  <2> QED
    BY <2>2, <2>4, <2>5 DEF Applied
<1>5. CASE WithPlsp(r.plsp) # {} /\ ~UpToDate(at, r)
  <2>1. policies' = policies /\ missed' = missed \cup {r.plsp}
    BY <1>5 DEF RegisterSRPolicy
  <2>2. ASSUME NEW plsp \in Plsp \ {r.plsp}, ListedAsIs(plsp) PROVE ListedAsIs(plsp)'
    BY <2>1, <2>2, SameEntries
  <2> QED
    BY <2>1, <2>2 DEF Applied
<1> QED
  BY <1>3, <1>4, <1>5

(* A report without a path is a miss.                                      *)
LEMMA RefuseApplies ==
    ASSUME NEW r \in Reports, RefuseReport(r), lsps' = lsps PROVE Applied(r)
<1>1. policies' = policies /\ missed' = missed \cup {r.plsp}
  BY DEF RefuseReport
<1>2. ASSUME NEW plsp, ListedAsIs(plsp) PROVE ListedAsIs(plsp)'
  BY <1>1, <1>2, SameEntries
<1> QED
  BY <1>1, <1>2 DEF Applied

(* A removal takes one entry off, or finds none to take off.               *)
LEMMA DeleteApplies ==
    ASSUME TypeOK, UniquePlspIDs, NEW r \in Reports, r.remove, DeleteReported(r),
           lsps' = lsps
    PROVE  Applied(r)
<1> DEFINE old == {i \in WithPlsp(r.plsp) : UpToDate(i, r)}
<1>1. policies \in Seq(Policies) /\ Len(policies) \in Nat
  BY DEF TypeOK
<1>2. CASE old # {}
  <2>1. old \in SUBSET Nat /\ old \subseteq 1 .. Len(policies)
    BY DEF WithPlsp
  <2>2. PICK at \in 1 .. Len(policies) : at = Min(old) /\ at \in old
    BY <1>2, <2>1, MinIsLeast
  <2>3. policies' = RemovePolicy(at) /\ missed' = missed \ {r.plsp}
        /\ policies[at].plsp = r.plsp
    BY <1>2, <2>2 DEF DeleteReported, WithPlsp
  <2> HIDE DEF old
  <2>4. /\ Len(policies') = Len(policies) - 1
        /\ \A j \in 1 .. (Len(policies) - 1) :
              policies'[j] = IF j = at THEN policies[Len(policies)] ELSE policies[j]
    BY <2>3, RemovePolicyList
  <2>5. ASSUME NEW plsp \in Plsp \ {r.plsp}, ListedAsIs(plsp) PROVE ListedAsIs(plsp)'
    <3>1. ASSUME NEW j \in 1 .. Len(policies')
          PROVE  \E i \in 1 .. Len(policies) : policies[i] = policies'[j]
      BY <1>1, <2>4
    <3>2. ASSUME NEW i \in 1 .. Len(policies), policies[i].plsp = plsp
          PROVE  \E j \in 1 .. Len(policies') : policies'[j] = policies[i]
      <4>1. CASE i = Len(policies)
        <5>1. at # i /\ at \in 1 .. Len(policies')
          BY <1>1, <2>3, <2>4, <2>5, <3>2, <4>1
        <5> QED
          BY <1>1, <2>4, <4>1, <5>1
      <4>2. CASE i # Len(policies)
        BY <1>1, <2>3, <2>4, <2>5, <3>2, <4>2
      <4> QED
        BY <4>1, <4>2
    <3> QED
      BY <2>5, <3>1, <3>2, SameEntries
  <2>6. \A j \in 1 .. Len(policies') : policies'[j].plsp # r.plsp
    BY <1>1, <2>3, <2>4 DEF UniquePlspIDs
  <2>7. ASSUME Tells(r) PROVE ListedAsIs(r.plsp)'
    BY <2>6, <2>7 DEF Tells, ListedAsIs, WithPlsp
  <2> QED
    BY <2>3, <2>5, <2>7 DEF Applied
<1>3. CASE old = {}
  <2>1. /\ policies' = policies
        /\ missed' = IF WithPlsp(r.plsp) = {} THEN missed \ {r.plsp}
                     ELSE missed \cup {r.plsp}
    BY <1>3 DEF DeleteReported
  <2>2. ASSUME NEW plsp, ListedAsIs(plsp) PROVE ListedAsIs(plsp)'
    BY <2>1, <2>2, SameEntries
  <2>3. ASSUME Tells(r), WithPlsp(r.plsp) = {} PROVE ListedAsIs(r.plsp)
    BY <2>3 DEF Tells, ListedAsIs
  <2> QED
    BY <2>1, <2>2, <2>3 DEF Applied
<1> QED
  BY <1>2, <1>3

(* A message the PCC sends tells of the LSP it is about, and every other   *)
(* LSP is as it was.                                                       *)
LEMMA SendingTells ==
    ASSUME TypeOK, NEW plsp \in Plsp, LastReportTells(plsp), ListTells(plsp),
           NEW m \in Reports \cup PCErrs \cup {EndOfSync, Close},
           toPCE' = Append(toPCE, m), policies' = policies, missed' = missed,
           IF IsAbout(m, plsp) THEN Tells(m)'
           ELSE /\ plsp \in DOMAIN lsps <=> plsp \in DOMAIN lsps'
                /\ plsp \in DOMAIN lsps => lsps'[plsp] = lsps[plsp]
    PROVE  LastReportTells(plsp)' /\ ListTells(plsp)'
<1>1. /\ Len(toPCE) \in Nat /\ Len(toPCE') = Len(toPCE) + 1
      /\ \A i \in 1 .. Len(toPCE) : toPCE'[i] = toPCE[i]
      /\ toPCE'[Len(toPCE) + 1] = m
  BY AppendProperties DEF TypeOK
<1>2. CASE IsAbout(m, plsp)
  <2>1. Len(toPCE) + 1 \in 1 .. Len(toPCE') /\ IsAbout(toPCE'[Len(toPCE) + 1], plsp)
    BY <1>1, <1>2
  <2>2. Pending(plsp)'
    BY <2>1 DEF Pending
  <2>3. ASSUME NEW j \in 1 .. Len(toPCE'),
               \A k \in 1 .. Len(toPCE') : IsAbout(toPCE'[k], plsp) => k <= j
        PROVE  toPCE'[j] = m
    <3>1. Len(toPCE) + 1 <= j
      BY <2>1, <2>3
    <3>2. j = Len(toPCE) + 1
      BY <1>1, <3>1
    <3> QED
      BY <1>1, <3>2
  <2>4. LastReportTells(plsp)'
    BY <1>2, <2>3 DEF LastReportTells, Tells
  <2> QED
    BY <2>2, <2>4 DEF ListTells
<1>3. CASE ~IsAbout(m, plsp)
  <2>1. ASSUME NEW r, r.plsp = plsp, Tells(r) PROVE Tells(r)'
    BY <1>3, <2>1 DEF Tells
  <2>2. ASSUME NEW j \in 1 .. Len(toPCE'), IsAbout(toPCE'[j], plsp)
        PROVE  j \in 1 .. Len(toPCE) /\ toPCE[j] = toPCE'[j]
    <3>1. j # Len(toPCE) + 1
      BY <1>1, <1>3, <2>2
    <3> QED
      BY <1>1, <3>1
  <2>3. LastReportTells(plsp)'
    <3> SUFFICES ASSUME NEW j \in 1 .. Len(toPCE'), IsAbout(toPCE'[j], plsp),
                        \A k \in 1 .. Len(toPCE') : IsAbout(toPCE'[k], plsp) => k <= j,
                        NEW r, r = toPCE'[j]
                 PROVE  Tells(r)'
      BY DEF LastReportTells, Tells
    <3>1. j \in 1 .. Len(toPCE) /\ toPCE[j] = r
      BY <2>2
    <3>2. \A k \in 1 .. Len(toPCE) : IsAbout(toPCE[k], plsp) => k <= j
      <4> SUFFICES ASSUME NEW k \in 1 .. Len(toPCE), IsAbout(toPCE[k], plsp) PROVE k <= j
        OBVIOUS
      <4>1. k \in 1 .. Len(toPCE') /\ toPCE'[k] = toPCE[k]
        BY <1>1
      <4> QED
        BY <4>1
    <3>3. Tells(r) /\ r.plsp = plsp
      BY <3>1, <3>2 DEF LastReportTells, IsAbout
    <3> QED
      BY <2>1, <3>3
  <2>4. ASSUME ListTells(plsp) PROVE ListTells(plsp)'
    <3>1. Pending(plsp) => Pending(plsp)'
      BY <1>1 DEF Pending
    <3>2. ListedAsIs(plsp) => ListedAsIs(plsp)'
      BY <1>3 DEF ListedAsIs, WithPlsp
    <3> QED
      BY <2>4, <3>1, <3>2 DEF ListTells
  <2> QED
    BY <2>3, <2>4
<1> QED
  BY <1>2, <1>3

(* Whatever the PCC does to an LSP, it reports it.                         *)
LEMMA PCCInforms ==
    ASSUME Typed, conn = "up", conn' = "up", PCCStep, NEW plsp \in Plsp,
           LastReportTells(plsp), ListTells(plsp)
    PROVE  LastReportTells(plsp)' /\ ListTells(plsp)'
<1> USE DEF policyVars
<1>1. ASSUME NEW m \in Reports, toPCE' = Append(toPCE, m), UNCHANGED <<policies, missed>>,
             Tells(m)', \A q \in Plsp \ {m.plsp} :
                /\ q \in DOMAIN lsps <=> q \in DOMAIN lsps'
                /\ q \in DOMAIN lsps => lsps'[q] = lsps[q]
      PROVE  LastReportTells(plsp)' /\ ListTells(plsp)'
  <2>1. m.kind = "report"
    BY DEF Reports
  <2> QED
    BY <1>1, <2>1, SendingTells DEF IsAbout, Typed
<1>2. ASSUME NEW m \in PCErrs \cup {Close}, toPCE' = Append(toPCE, m),
             UNCHANGED <<policies, missed, lsps>>
      PROVE  LastReportTells(plsp)' /\ ListTells(plsp)'
  <2>1. m.kind # "report"
    BY DEF PCErrs, Close
  <2> QED
    BY <1>2, <2>1, SendingTells DEF IsAbout, Typed
<1>3. Answering => Head(toPCC) \in Requests
  BY HeadTailProperties DEF Answering, Typed, TypeOK
<1>4. \A lspID \in 0 .. MaxLSPID : NextLSPID(lspID) \in 0 .. MaxLSPID
  BY SessionAssumption DEF NextLSPID
<1>5. \A q \in DOMAIN lsps : /\ q \in Plsp /\ lsps[q] \in LSPs
                             /\ lsps[q].lspID \in 0 .. MaxLSPID /\ lsps[q].key \in Key
  BY DEF Typed, TypeOK, LSPs
<1>6. CASE PCCCreates
  <2>1. Answering /\ Head(toPCC) \in Requests
    BY <1>3, <1>6 DEF PCCCreates
  <2>2. PICK p \in Plsp \ DOMAIN lsps, lsp \in Reportable(Head(toPCC).key, 0) :
           /\ lsps' = [q \in DOMAIN lsps \cup {p} |-> IF q = p THEN lsp ELSE lsps[q]]
           /\ Answer(Report(Head(toPCC).srpID, p, lsp, FALSE, FALSE, Head(toPCC).req))
    BY <1>6 DEF PCCCreates
  <2>3. lsp \in LSPs
    BY <2>1, ReportableTyped, SessionAssumption DEF Requests
  <2>4. Report(Head(toPCC).srpID, p, lsp, FALSE, FALSE, Head(toPCC).req) \in Reports
    BY <2>1, <2>3, ReportTyped DEF Requests
  <2>5. PICK m \in Reports :
           m = Report(Head(toPCC).srpID, p, lsp, FALSE, FALSE, Head(toPCC).req)
    BY <2>4
  <2>6. m.plsp = p /\ ~m.remove /\ m.lspID = lsp.lspID /\ m.state = lsp.state
    BY <2>5 DEF Report
  <2>7. toPCE' = Append(toPCE, m) /\ UNCHANGED <<policies, missed>>
    BY <2>2, <2>5 DEF Answer
  <2>8. Tells(m)'
    BY <2>2, <2>6 DEF Tells
  <2> QED
    BY <1>1, <2>2, <2>6, <2>7, <2>8
<1>7. ASSUME NEW p \in DOMAIN lsps, NEW lsp \in LSPs, NEW m \in Reports,
             NEW srpID, NEW req, m = Report(srpID, p, lsp, FALSE, FALSE, req),
             lsps' = [lsps EXCEPT ![p] = lsp], toPCE' = Append(toPCE, m),
             UNCHANGED <<policies, missed>>
      PROVE  LastReportTells(plsp)' /\ ListTells(plsp)'
  <2>1. m.plsp = p /\ ~m.remove /\ m.lspID = lsp.lspID /\ m.state = lsp.state
    BY <1>7 DEF Report
  <2>2. /\ p \in DOMAIN lsps' /\ lsps'[p] = lsp
        /\ \A q \in Plsp \ {p} : /\ q \in DOMAIN lsps <=> q \in DOMAIN lsps'
                                 /\ q \in DOMAIN lsps => lsps'[q] = lsps[q]
    BY <1>7
  <2>3. Tells(m)'
    BY <2>1, <2>2 DEF Tells
  <2> QED
    BY <1>1, <1>7, <2>1, <2>2, <2>3
<1>8. ASSUME NEW p \in DOMAIN lsps, NEW m \in Reports,
             NEW srpID, NEW req, m = Report(srpID, p, lsps[p], TRUE, FALSE, req),
             lsps' = Restrict(lsps, DOMAIN lsps \ {p}), toPCE' = Append(toPCE, m),
             UNCHANGED <<policies, missed>>
      PROVE  LastReportTells(plsp)' /\ ListTells(plsp)'
  <2>1. m.plsp = p /\ m.remove /\ ~m.sync
    BY <1>8 DEF Report
  <2>2. /\ p \notin DOMAIN lsps'
        /\ \A q \in Plsp \ {p} : /\ q \in DOMAIN lsps <=> q \in DOMAIN lsps'
                                 /\ q \in DOMAIN lsps => lsps'[q] = lsps[q]
    BY <1>8 DEF Restrict
  <2>3. Tells(m)'
    BY <2>1, <2>2 DEF Tells
  <2> QED
    BY <1>1, <1>8, <2>1, <2>2, <2>3
<1>9. CASE PCCUpdates
  <2> DEFINE p == Head(toPCC).plsp
  <2>1. Answering /\ Head(toPCC) \in Requests /\ p \in DOMAIN lsps
    BY <1>3, <1>9 DEF PCCUpdates
  <2>2. PICK lspID \in {lsps[p].lspID, NextLSPID(lsps[p].lspID)} :
           \E lsp \in Reportable(lsps[p].key, lspID) :
              /\ lsps' = [lsps EXCEPT ![p] = lsp]
              /\ Answer(Report(Head(toPCC).srpID, p, lsp, FALSE, FALSE, Head(toPCC).req))
    BY <1>9 DEF PCCUpdates
  <2>3. PICK lsp \in Reportable(lsps[p].key, lspID) :
           /\ lsps' = [lsps EXCEPT ![p] = lsp]
           /\ Answer(Report(Head(toPCC).srpID, p, lsp, FALSE, FALSE, Head(toPCC).req))
    BY <2>2
  <2>4. lsp \in LSPs
    <3>1. lspID \in 0 .. MaxLSPID /\ lsps[p].key \in Key
      BY <1>4, <1>5, <2>1
    <3> QED
      BY <3>1, ReportableTyped
  <2> DEFINE m == Report(Head(toPCC).srpID, p, lsp, FALSE, FALSE, Head(toPCC).req)
  <2>5. m \in Reports
    BY <1>5, <2>1, <2>4, ReportTyped DEF Requests
  <2>6. toPCE' = Append(toPCE, m) /\ UNCHANGED <<policies, missed>>
    BY <2>3 DEF Answer
  <2> QED
    BY <1>7, <2>1, <2>3, <2>4, <2>5, <2>6
<1>10. CASE PCCDeletes
  <2> DEFINE p == Head(toPCC).plsp
             m == Report(Head(toPCC).srpID, p, lsps[p], TRUE, FALSE, Head(toPCC).req)
  <2>1. /\ Answering /\ Head(toPCC) \in Requests /\ p \in DOMAIN lsps
        /\ lsps' = Restrict(lsps, DOMAIN lsps \ {p}) /\ Answer(m)
    BY <1>3, <1>10 DEF PCCDeletes
  <2>2. m \in Reports
    BY <1>5, <2>1, ReportTyped DEF Requests
  <2>3. toPCE' = Append(toPCE, m) /\ UNCHANGED <<policies, missed>>
    BY <2>1 DEF Answer
  <2> QED
    BY <1>8, <2>1, <2>2, <2>3
<1>11. CASE PCCRejects
  <2>1. Head(toPCC) \in Requests
    BY <1>3, <1>11 DEF PCCRejects
  <2>2. PCErr(Head(toPCC).srpID, Head(toPCC).req) \in PCErrs
    BY <2>1 DEF PCErr, PCErrs, Requests
  <2>3. /\ toPCE' = Append(toPCE, PCErr(Head(toPCC).srpID, Head(toPCC).req))
        /\ UNCHANGED <<policies, missed, lsps>>
    BY <1>11 DEF PCCRejects, Answer
  <2> QED
    BY <1>2, <2>2, <2>3
<1>12. ASSUME NEW p \in Plsp, PCCChanges(p)
       PROVE  LastReportTells(plsp)' /\ ListTells(plsp)'
  <2>1. p \in DOMAIN lsps /\ UNCHANGED <<policies, missed>>
    BY <1>12 DEF PCCChanges, Unasked
  <2>2. PICK lspID \in {lsps[p].lspID, NextLSPID(lsps[p].lspID)} :
           \E lsp \in Reportable(lsps[p].key, lspID) :
              /\ lsps' = [lsps EXCEPT ![p] = lsp]
              /\ toPCE' = Append(toPCE, Report(0, p, lsp, FALSE, FALSE, 0))
    BY <1>12 DEF PCCChanges
  <2>3. PICK lsp \in Reportable(lsps[p].key, lspID) :
           /\ lsps' = [lsps EXCEPT ![p] = lsp]
           /\ toPCE' = Append(toPCE, Report(0, p, lsp, FALSE, FALSE, 0))
    BY <2>2
  <2>4. lsp \in LSPs
    <3>1. lspID \in 0 .. MaxLSPID /\ lsps[p].key \in Key
      BY <1>4, <1>5, <2>1
    <3> QED
      BY <3>1, ReportableTyped
  <2>5. Report(0, p, lsp, FALSE, FALSE, 0) \in Reports
    BY <2>4, ReportTyped
  <2> QED
    BY <1>7, <2>1, <2>3, <2>4, <2>5
<1>13. ASSUME NEW p \in Plsp, PCCRemoves(p)
       PROVE  LastReportTells(plsp)' /\ ListTells(plsp)'
  <2>1. /\ p \in DOMAIN lsps /\ UNCHANGED <<policies, missed>>
        /\ lsps' = Restrict(lsps, DOMAIN lsps \ {p})
        /\ toPCE' = Append(toPCE, Report(0, p, lsps[p], TRUE, FALSE, 0))
    BY <1>13 DEF PCCRemoves, Unasked
  <2>2. Report(0, p, lsps[p], TRUE, FALSE, 0) \in Reports
    BY <1>5, <2>1, ReportTyped
  <2> QED
    BY <1>8, <2>1, <2>2
<1>14. CASE PCCCloses
  <2>1. toPCE' = Append(toPCE, Close) /\ UNCHANGED <<policies, missed, lsps>>
    BY <1>14 DEF PCCCloses, Unasked
  <2> QED
    BY <1>2, <2>1
<1>15. ~ConnectionBreaks
  BY DEF ConnectionBreaks
<1> QED
  BY <1>6, <1>9, <1>10, <1>11, <1>12, <1>13, <1>14, <1>15 DEF PCCStep

(* What the receiver reads last about an LSP, it puts in the list.         *)
LEMMA ReceiverInforms ==
    ASSUME Typed, UniquePlspIDs, ReceiverStep, NEW plsp \in Plsp,
           LastReportTells(plsp), ListTells(plsp)
    PROVE  LastReportTells(plsp)' /\ ListTells(plsp)'
<1> USE DEF sessionVars, intentVars, senderVars, pccVars, policyVars
<1>1. ASSUME NEW r \in Reports, r = Head(toPCE), Reading("report"), lsps' = lsps, Applied(r)
      PROVE  LastReportTells(plsp)' /\ ListTells(plsp)'
  <2>1. toPCE # <<>> /\ toPCE' = Tail(toPCE) /\ r.kind = "report"
    BY <1>1 DEF Reading
  <2>2. /\ LastReportTells(plsp)'
        /\ ~Pending(plsp)' /\ IsAbout(r, plsp) => Tells(r)
        /\ ~Pending(plsp)' /\ ~IsAbout(r, plsp) => ~Pending(plsp)
    BY <1>1, <2>1, ReadingTells DEF Typed
  <2>3. ASSUME ~Pending(plsp)', plsp \notin missed' PROVE ListedAsIs(plsp)'
    <3>1. CASE r.plsp = plsp
      <4>1. Tells(r)
        BY <2>1, <2>2, <2>3, <3>1 DEF IsAbout
      <4>2. r.plsp \in missed' \/ ListedAsIs(r.plsp)'
        BY <1>1, <4>1 DEF Applied
      <4> QED
        BY <2>3, <3>1, <4>2
    <3>2. CASE r.plsp # plsp
      <4>1. ~Pending(plsp)
        BY <2>2, <2>3, <3>2 DEF IsAbout
      <4>2. plsp \notin missed /\ (ListedAsIs(plsp) => ListedAsIs(plsp)')
        BY <1>1, <2>3, <3>2 DEF Applied
      <4> QED
        BY <4>1, <4>2 DEF ListTells
    <3> QED
      BY <3>1, <3>2
  <2> QED
    BY <2>2, <2>3 DEF ListTells
<1>2. CASE ReceiveReport
  <2>1. PICK r \in Reports : r = Head(toPCE)
    BY <1>2, HeadTyped DEF ReceiveReport, Reading, Typed
  <2>2. Reading("report") /\ lsps' = lsps
        /\ IF r.remove /\ ~r.sync THEN DeleteReported(r) ELSE RegisterReported(r)
    BY <1>2, <2>1 DEF ReceiveReport
  <2>3. CASE r.remove /\ ~r.sync
    BY <1>1, <2>1, <2>2, <2>3, DeleteApplies DEF Typed
  <2>4. CASE ~r.ero /\ ~(r.remove /\ ~r.sync)
    BY <1>1, <2>1, <2>2, <2>4, RefuseApplies DEF RegisterReported
  <2>5. CASE r.ero /\ ~(r.remove /\ ~r.sync)
    BY <1>1, <2>1, <2>2, <2>5, RegisterApplies DEF RegisterReported, Typed
  <2> QED
    BY <2>3, <2>4, <2>5
<1>3. CASE ReceiveUnsolicited
  <2>1. PICK r \in Reports : r = Head(toPCE)
    BY <1>3, HeadTyped DEF ReceiveUnsolicited, Reading, Typed
  <2>2. Reading("report") /\ lsps' = lsps /\ ~r.remove /\ RegisterSRPolicy(r)
    BY <1>3, <2>1 DEF ReceiveUnsolicited
  <2> QED
    BY <1>1, <2>1, <2>2, RegisterApplies DEF Typed
<1>4. CASE ReceiveUncomputable
  <2>1. PICK r \in Reports : r = Head(toPCE)
    BY <1>4, HeadTyped DEF ReceiveUncomputable, Reading, Typed
  <2>2. Reading("report") /\ lsps' = lsps /\ RefuseReport(r)
    BY <1>4, <2>1 DEF ReceiveUncomputable
  <2> QED
    BY <1>1, <2>1, <2>2, RefuseApplies
<1>5. CASE ReceiveEndOfSync \/ ReceivePCErr \/ ReceiveClose
  <2>1. /\ toPCE # <<>> /\ toPCE' = Tail(toPCE) /\ Head(toPCE).kind # "report"
        /\ UNCHANGED <<lsps, policies, missed>>
    BY <1>5 DEF ReceiveEndOfSync, ReceivePCErr, ReceiveClose, Reading
  <2>2. /\ LastReportTells(plsp)'
        /\ ~Pending(plsp)' /\ ~IsAbout(Head(toPCE), plsp) => ~Pending(plsp)
    BY <2>1, ReadingTells DEF Typed
  <2>3. ListedAsIs(plsp) => ListedAsIs(plsp)'
    BY <2>1, SameEntries
  <2> QED
    BY <2>1, <2>2, <2>3 DEF ListTells, IsAbout
<1>6. CASE ReceiveFails
  <2>1. UNCHANGED <<lsps, policies, missed, toPCE>>
    BY <1>6 DEF ReceiveFails
  <2> QED
    BY <2>1 DEF LastReportTells, ListTells, Tells, Pending, ListedAsIs, WithPlsp
<1> QED
  BY <1>2, <1>3, <1>4, <1>5, <1>6 DEF ReceiverStep

(* No other step changes the list, the database or what is on its way.     *)
LEMMA InformedStep ==
    Typed /\ UniquePlspIDs /\ Informed /\ [Next]_vars => Informed'
<1> SUFFICES ASSUME Typed, UniquePlspIDs, Informed, [Next]_vars, conn' = "up",
                    NEW plsp \in Plsp
             PROVE  LastReportTells(plsp)' /\ ListTells(plsp)'
  BY DEF Informed
<1> USE DEF sessionVars, intentVars, senderVars, pccVars, policyVars
<1>1. ASSUME conn = "up", UNCHANGED <<lsps, policies, missed, toPCE>>
      PROVE  LastReportTells(plsp)' /\ ListTells(plsp)'
  BY <1>1 DEF Informed, LastReportTells, ListTells, Tells, Pending, ListedAsIs, WithPlsp
<1>2. CASE \/ \E h \in Handlers, key \in Key :
               \/ DeleteSRPolicy(h, key)
               \/ \E setting \in Setting : CreateSRPolicy(h, key, setting)
           \/ \E p \in Senders : SenderStep(p)
  <2>1. UNCHANGED <<conn, lsps, policies, missed, toPCE>>
    BY <1>2 DEF DeleteSRPolicy, CreateSRPolicy, SenderStep, Allocate, AllocateFails,
                Send, SendFails, Forget
  <2> QED
    BY <1>1, <2>1
<1>3. CASE ReceiverStep
  <2>1. conn = "up"
    BY <1>3 DEF ReceiverStep, ReceiveReport, ReceiveUnsolicited, ReceiveUncomputable,
                ReceiveEndOfSync, ReceivePCErr, ReceiveClose, ReceiveFails
  <2> QED
    BY <1>3, <2>1, ReceiverInforms DEF Informed
<1>4. CASE Sweep \/ \E id \in SRPID : Elapse(id)
  BY <1>1, <1>4 DEF Sweep, Elapse
<1>5. CASE EstablishedReturns \/ DeleteSession
  BY <1>1, <1>5 DEF EstablishedReturns, DeleteSession
<1>6. CASE \E x \in DOMAIN closer : CloserStep(x)
  BY <1>1, <1>6 DEF CloserStep, CloseConn, ClearIntents, Unlist
<1>7. CASE PCCStep
  <2>1. conn = "up"
    BY <1>7 DEF PCCStep, PCCCreates, PCCUpdates, PCCDeletes, PCCRejects, Answering,
                PCCChanges, PCCRemoves, Unasked, PCCCloses, ConnectionBreaks
  <2> QED
    BY <1>7, <2>1, PCCInforms DEF Informed
<1>8. CASE UNCHANGED vars
  BY <1>1, <1>8 DEF vars
<1> QED
  BY <1>2, <1>3, <1>4, <1>5, <1>6, <1>7, <1>8 DEF Next

(* Nothing is in flight at first.                                          *)
LEMMA InFlightInit == Init => InFlightTracked
<1> SUFFICES ASSUME Init PROVE Apart /\ KeptInFlight
  BY DEF InFlightTracked
<1>1. PICK n \in Nat : \E order \in Surjection(1 .. n, DOMAIN lsps) :
         /\ Len(toPCE) = n + 1 /\ toPCE[n + 1] = EndOfSync
         /\ \A i \in 1 .. n :
               toPCE[i] = Report(0, order[i], lsps[order[i]], FALSE, TRUE, 0)
  BY FirstMessages
<1>2. \A j \in 1 .. Len(toPCE) : ~IsAnswer(toPCE[j])
  <2>1. PICK order \in Surjection(1 .. n, DOMAIN lsps) :
           /\ Len(toPCE) = n + 1 /\ toPCE[n + 1] = EndOfSync
           /\ \A i \in 1 .. n :
                 toPCE[i] = Report(0, order[i], lsps[order[i]], FALSE, TRUE, 0)
    BY <1>1
  <2>2. ASSUME NEW i \in 1 .. n PROVE ~IsAnswer(toPCE[i])
    <3>1. toPCE[i] = Report(0, order[i], lsps[order[i]], FALSE, TRUE, 0)
      BY <2>1
    <3> QED
      BY <3>1 DEF IsAnswer, Report
  <2>3. ~IsAnswer(EndOfSync)
    BY DEF IsAnswer, EndOfSync
  <2> QED
    BY <2>1, <2>2, <2>3
<1>3. toPCC = <<>> /\ \A p \in Senders : ~Holds(p)
  BY DEF Init, Holds
<1> QED
  BY <1>2, <1>3 DEF Apart, SentApart, AnsweredApart, HeldApart, PlacesApart, KeptInFlight

------------------------------------------------------------------------------
(* Theorems *)

IInv ==
    /\ Typed /\ UniquePlspIDs
    /\ ClosedBeforeClear /\ LateIntentsAreHeld
    /\ InFlightTracked /\ Informed

(* The inductive invariant of a session.                                   *)
LEMMA Inductive == Spec => []IInv
<1>1. Init => IInv
  <2> SUFFICES ASSUME Init PROVE IInv
    OBVIOUS
  <2>1. Typed
    BY TypedInit
  <2>2. UniquePlspIDs
    BY DEF Init, UniquePlspIDs
  <2>3. ClosedBeforeClear /\ LateIntentsAreHeld
    BY DEF Init, ClosedBeforeClear, LateIntentsAreHeld
  <2> QED
    BY <2>1, <2>2, <2>3, InFlightInit, InformedInit DEF IInv
<1>2. IInv /\ [Next]_vars => IInv'
  BY TypedStep, ListStep, ClosedStep, LateIntentsStep, InFlightStep, InformedStep
     DEF IInv
<1> QED
  BY <1>1, <1>2, PTL DEF Spec

(* All variables of a session keep their types, whoever runs.              *)
THEOREM TypeCorrect == Spec => []TypeOK
<1>1. IInv => TypeOK
  BY DEF IInv, Typed
<1> QED
  BY Inductive, <1>1, PTL

(* Session.srPolicies never holds two policies of one PLSP-ID.             *)
THEOREM PlspIDsAreUnique == Spec => []UniquePlspIDs
<1>1. IInv => UniquePlspIDs
  BY DEF IInv
<1> QED
  BY Inductive, <1>1, PTL

(* No report, however late it is applied, takes a listed policy back to an *)
(* older LSP-ID.                                                           *)
THEOREM LSPIDsNeverGoBack == Spec => LSPIDNeverGoesBack
<1>1. IInv /\ [Next]_vars => LSPIDsAdvance
  BY ListStep DEF IInv
<1> QED
  BY Inductive, <1>1, PTL DEF Spec, LSPIDNeverGoesBack

(* When the last sender is done, a session that has been closed holds no   *)
(* intent.                                                                 *)
THEOREM NoIntentIsLeftBehind == Spec => []NoIntentOutlivesSession
<1>1. IInv => NoIntentOutlivesSession
  BY DEF IInv, LateIntentsAreHeld, NoIntentOutlivesSession
<1> QED
  BY Inductive, <1>1, PTL

(* The intent under the SRP-ID of a request or of the answer to it is that *)
(* request's own, from nextUnusedSRPID until the answer is read, as long   *)
(* as the sweeper did not take it and hand out its ID again.               *)
THEOREM AnswersFindTheirIntent == Spec => []InFlightKeepsIntent
<1>1. IInv => InFlightKeepsIntent
  BY TrackedIsKept DEF IInv, Typed
<1> QED
  BY Inductive, <1>1, PTL

(* Once everything the PCC sent is read, Session.srPolicies and the PCC's  *)
(* database agree on every LSP whose latest report was applied.            *)
THEOREM ListsAgreeWhenQuiet == Spec => []QuiescentAgreement
<1>1. IInv => QuiescentAgreement
  BY InformedIsAgreement DEF IInv
<1> QED
  BY Inductive, <1>1, PTL
==============================================================================
