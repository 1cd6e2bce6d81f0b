------------------------------- MODULE Routing -------------------------------
(***************************************************************************)
(* Where a request may go: the configuration of backends and routing rules *)
(* (internal/config/config.go) and the decision proxy.go/selectBackend     *)
(* takes from the headers and the query of a request that is no coding     *)
(* request (those are in Scheduler).                                       *)
(*                                                                         *)
(* A text is a member of a small set; a User-Agent is the set of the words *)
(* it contains, in lower case; a header is a pair <<name, value>>.         *)
(***************************************************************************)
EXTENDS Integers, Sequences, SequencesExt

CONSTANTS
  Static,        \* backends.list
  Local,         \* the node "local-background", from scheduling.background
  Node,          \* the entry of each in the file: weight, tags, tool_call, model
  ValidURLs,     \* the URLs that begin with http:// or https://
  Rules,         \* routing.rules
  AllowDynamic   \* backends.allow_dynamic

Backends == Static \cup {Local}
NoText   == ""

(* A backend is asked under its own name; these stand for the whole pool and
   for the one backend a request names itself. *)
All    == "*all*"
Direct == "*direct*"

ASSUME NodeAssumption ==
  /\ Local \notin Static
  /\ AllowDynamic \in BOOLEAN
  /\ \A b \in Backends : /\ Node[b].weight \in Int
                         /\ b \in Static => Node[b].weight >= 0
                         /\ Node[b].tool_call \in BOOLEAN
                         /\ {All, Direct} \cap Node[b].tags = {}

(* What Load accepts (validateRouting): a pool and a condition in each rule. *)
ASSUME RulesAssumption ==
  /\ DOMAIN Rules = 1 .. Len(Rules) /\ Len(Rules) \in Nat
  /\ \A i \in DOMAIN Rules : /\ Rules[i].pool \notin {NoText, All, Direct}
                             /\ Rules[i].agent # NoText \/ Rules[i].header # {}

-----------------------------------------------------------------------------
(* setConfigDefaults, and syncLocalBackendNode for the local node. *)
Weight(b) == IF Node[b].weight <= 0 THEN 1 ELSE Node[b].weight

EffectiveTags(b) ==
  (Node[b].tags \ {NoText}) \cup (IF Node[b].tool_call THEN {"tool_call"} ELSE {})

Carriers(route) == IF route = All THEN Backends
                   ELSE {b \in Backends : route \in EffectiveTags(b)}
Pools == {All} \cup UNION {EffectiveTags(b) : b \in Backends}

-----------------------------------------------------------------------------
(* A request asks with its headers and query: agent, headers, xBackendURL,
   backend; asJSON tells whether its body can be parsed. *)

(* ruleMatches: all conditions that are there, any one of the headers.  A
   header that is missing is "" and matches nothing. *)
RuleMatches(ask, rule) ==
  /\ rule.agent # NoText => rule.agent \in ask.agent
  /\ rule.header # {} => \E h \in rule.header \cap ask.headers : h[2] # NoText

BuiltIn == [agent |-> "goclaw", header |-> {}, pool |-> "tool_call"]

EffectiveRules == IF Rules = <<>> THEN <<BuiltIn>> ELSE Rules

Hits(ask) == {i \in DOMAIN EffectiveRules : RuleMatches(ask, EffectiveRules[i])}

(* matchRoutingRule: the first rule that matches, 0 for none. *)
RuleOf(ask) ==
  SelectInSeq(EffectiveRules, LAMBDA rule : RuleMatches(ask, rule))

(* X-Backend-URL goes before ?backend=. *)
Override(ask) == IF ask.xBackendURL # NoText THEN ask.xBackendURL ELSE ask.backend

OverrideFirstBug(ask) ==
  IF AllowDynamic /\ Override(ask) # NoText THEN Direct
  ELSE IF RuleOf(ask) # 0 THEN EffectiveRules[RuleOf(ask)].pool
  ELSE All

(* The order in which selectBackend asks: rules, override, pool. *)
RouteOf(ask) ==
  IF RuleOf(ask) # 0 THEN EffectiveRules[RuleOf(ask)].pool
  ELSE IF AllowDynamic /\ Override(ask) # NoText THEN Direct
  ELSE All

(* The model in the body a backend gets: RewriteModel of the client's body,
   unless the backend names none or the body cannot be parsed. *)
ModelFor(ask, b) ==
  IF b \in Backends /\ Node[b].model # NoText /\ ask.asJSON THEN Node[b].model ELSE ask.model
=============================================================================
