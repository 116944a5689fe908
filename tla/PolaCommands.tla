---------------------------- MODULE PolaCommands -----------------------------
(***************************************************************************)
(* The commands `pola sr-policy add` and `delete` (cmd/pola), the requests *)
(* they become and what the gRPC handlers ask of a request before they do  *)
(* anything (pkg/server/grpc_server.go).  The two sides check a command    *)
(* independently of each other.                                            *)
(*                                                                         *)
(* "" stands for a text or address that is not given, Malformed for bytes  *)
(* that are no address: a YAML file cannot hold them, another client of    *)
(* the gRPC API can send them.                                             *)
(***************************************************************************)
EXTENDS Naturals, Sequences

CONSTANT Segments      \* the segments a list may hold, as newEnrichedSegment reads them

Malformed == "malformed"
Given(address) == address # ""
IsAddress(address) == address \notin {"", Malformed}

------------------------------------------------------------------------------
(* The YAML files: InputFormat *)

Texts == STRING
Addresses == STRING \ {Malformed}

InputFormat ==
    [session : Addresses, srcAddr : Addresses, dstAddr : Addresses,
     srcRouter : Texts, dstRouter : Texts, name : Texts, color : Nat,
     type : Texts, metric : Texts, segments : Seq(Segments), waypoints : Seq(Texts),
     asn : Nat]

------------------------------------------------------------------------------
(* addSRPolicy: one of two forms, never both *)

UsesRouterID(f) == f.srcRouter # "" \/ f.dstRouter # ""
UsesEndpointAddr(f) == Given(f.srcAddr) \/ Given(f.dstAddr)

(* addSRPolicyWithEndpointAddr takes an explicit path as it is given.      *)
AcceptsEndpointAddr(f) ==
    /\ f.type \in {"", "explicit"}
    /\ f.metric = "" /\ f.waypoints = <<>>
    /\ Given(f.session) /\ f.color # 0 /\ Given(f.srcAddr) /\ Given(f.dstAddr)
    /\ f.segments # <<>>

(* validateCommonInput, then buildPolicyByType.                            *)
validateCommonInput(f) ==
    /\ f.asn # 0 /\ Given(f.session) /\ f.color # 0
    /\ f.srcRouter # "" /\ f.dstRouter # ""
parseMetric(metric) == metric \in {"igp", "delay", "te"}
AcceptsRouterID(f) ==
    /\ validateCommonInput(f)
    /\ \/ f.type = "explicit" /\ f.segments # <<>>
       \/ f.type = "dynamic" /\ parseMetric(f.metric)

addSRPolicyAccepts(f) ==
    IF UsesRouterID(f) THEN ~UsesEndpointAddr(f) /\ AcceptsRouterID(f)
    ELSE AcceptsEndpointAddr(f)

(* CreateSRPolicyRequest; protobuf has no value for what is not set.       *)
EndpointAddrRequest(f, noSIDValidate) ==
    [session |-> f.session, srcAddr |-> f.srcAddr, dstAddr |-> f.dstAddr,
     srcRouter |-> "", dstRouter |-> "", name |-> f.name, color |-> f.color,
     type |-> "explicit", metric |-> "", segments |-> f.segments, waypoints |-> <<>>,
     asn |-> f.asn, disablePathCompute |-> TRUE, noSIDValidate |-> noSIDValidate]
RouterIDRequest(f, noSIDValidate) ==
    [session |-> f.session, srcAddr |-> "", dstAddr |-> "",
     srcRouter |-> f.srcRouter, dstRouter |-> f.dstRouter, name |-> f.name,
     color |-> f.color, type |-> f.type,
     metric    |-> IF f.type = "dynamic" THEN f.metric ELSE "",
     segments  |-> IF f.type = "explicit" THEN f.segments ELSE <<>>,
     waypoints |-> IF f.type = "dynamic" THEN f.waypoints ELSE <<>>,
     asn |-> f.asn, disablePathCompute |-> FALSE, noSIDValidate |-> noSIDValidate]
addSRPolicyRequest(f, noSIDValidate) ==
    IF UsesRouterID(f) THEN RouterIDRequest(f, noSIDValidate)
    ELSE EndpointAddrRequest(f, noSIDValidate)

------------------------------------------------------------------------------
(* deleteSRPolicy *)

deleteSRPolicyAccepts(f) ==
    Given(f.session) /\ f.color # 0 /\ Given(f.dstAddr) /\ f.name # ""
deleteSRPolicyRequest(f) ==
    [session |-> f.session, srcAddr |-> "", dstAddr |-> f.dstAddr, name |-> f.name,
     color |-> f.color, segments |-> <<>>, asn |-> f.asn]

------------------------------------------------------------------------------
(* The checks of the handlers: validate with one of its three functions,   *)
(* and the type and metric that getSegmentList and resolveSRPolicyIntent   *)
(* know.                                                                   *)

ValidationAdd(r) ==
    /\ r.asn # 0
    /\ Given(r.session) /\ r.color # 0 /\ r.srcRouter # "" /\ r.dstRouter # ""
ValidationAddDisablePathCompute(r) ==
    /\ Given(r.session) /\ r.color # 0 /\ Given(r.srcAddr) /\ Given(r.dstAddr)
    /\ r.segments # <<>>
ValidationDelete(r) ==
    /\ Given(r.session) /\ r.color # 0 /\ Given(r.dstAddr) /\ r.name # ""

validateCreateSRPolicy(r) ==
    IF r.disablePathCompute THEN ValidationAddDisablePathCompute(r) ELSE ValidationAdd(r)

getMetricType(metric) == metric \in {"igp", "te", "delay", "hopcount"}

(* A list that is given is not empty, a path to compute has a metric.      *)
HasPathRequest(r) ==
    \/ r.type = "explicit" /\ r.segments # <<>>
    \/ r.type = "dynamic" /\ getMetricType(r.metric)

(* resolveSRPolicyIntent: with path computation disabled, a given list is  *)
(* an explicit path whatever type the request names.                       *)
resolveSRPolicyIntent(r) ==
    IF r.disablePathCompute \/ r.type = "explicit" THEN [type |-> "explicit", metric |-> ""]
    ELSE [type |-> "dynamic", metric |-> r.metric]

(* What the handlers refuse whatever the state of the server.              *)
CreateIsWellFormed(r) ==
    /\ validateCreateSRPolicy(r)
    /\ IsAddress(r.session)
    /\ IF r.disablePathCompute THEN IsAddress(r.srcAddr) /\ IsAddress(r.dstAddr)
       ELSE HasPathRequest(r)
DeleteIsWellFormed(r) ==
    /\ ValidationDelete(r)
    /\ r.srcAddr # Malformed
    /\ IsAddress(r.dstAddr) /\ IsAddress(r.session)
=============================================================================
