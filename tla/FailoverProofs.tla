---------------------------- MODULE FailoverProofs ----------------------------
(***************************************************************************)
(* Proofs about Failover and Routing: where requests go, what they ask for *)
(* what is reported and when a backend is missed, for any configuration    *)
(* and any number of them.                                                 *)
(***************************************************************************)
EXTENDS Failover, DataFacts

USE DEF All, Direct, NoText

-----------------------------------------------------------------------------
(* Routing. *)

LEMMA RulesAreSequence ==
  /\ Len(EffectiveRules) \in Nat
  /\ DOMAIN EffectiveRules = 1 .. Len(EffectiveRules)
  /\ \A i \in DOMAIN EffectiveRules : EffectiveRules[i].pool \notin {NoText, All, Direct}
<1>1. CASE Rules = <<>>
  <2>1. EffectiveRules = <<BuiltIn>>
    BY <1>1 DEF EffectiveRules
  <2>2. BuiltIn.pool = "tool_call"
    BY DEF BuiltIn
  <2>3. Len(EffectiveRules) = 1 /\ DOMAIN EffectiveRules = 1 .. 1 /\ EffectiveRules[1] = BuiltIn
    BY <2>1
  <2>4. EffectiveRules[1].pool \notin {NoText, All, Direct}
    BY <2>2, <2>3
  <2>5. \A i \in DOMAIN EffectiveRules : i = 1
    BY <2>3
  <2>6. \A i \in DOMAIN EffectiveRules : EffectiveRules[i].pool \notin {NoText, All, Direct}
    BY <2>4, <2>5, Zenon
  <2>7. Len(EffectiveRules) \in Nat /\ DOMAIN EffectiveRules = 1 .. Len(EffectiveRules)
    BY <2>3
  <2> QED
    BY <2>6, <2>7
<1>2. CASE Rules # <<>>
  <2>1. EffectiveRules = Rules
    BY <1>2 DEF EffectiveRules
  <2> QED
    BY <2>1, RulesAssumption
<1> QED
  BY <1>1, <1>2

LEMMA MinIsMember ==
  ASSUME NEW S, S \subseteq Nat, S # {}
  PROVE  Min(S) \in S
BY LeastMember DEF Min

(* matchRoutingRule finds a rule if there is one that matches, and the first. *)
LEMMA RuleOfIsFirst ==
  ASSUME NEW a
  PROVE  /\ Hits(a) # {} => RuleOf(a) = Min(Hits(a)) /\ RuleOf(a) \in Hits(a) /\ RuleOf(a) # 0
         /\ Hits(a) = {} => RuleOf(a) = 0
<1>1. Hits(a) = {i \in 1 .. Len(EffectiveRules) : RuleMatches(a, EffectiveRules[i])}
  BY RulesAreSequence DEF Hits
<1>2. RuleOf(a) = IF Hits(a) # {} THEN Min(Hits(a)) ELSE 0
  BY <1>1 DEF RuleOf, SelectInSeq
<1>3. Hits(a) \subseteq Nat /\ 0 \notin Hits(a)
  <2>1. Len(EffectiveRules) \in Nat
    BY RulesAreSequence
  <2> QED
    BY <1>1, <2>1
<1> QED
  BY <1>2, <1>3, MinIsMember

(* No backend is of the pool of requests that name their own. *)
LEMMA NobodyIsDirect == Carriers(Direct) = {}
BY NodeAssumption DEF Carriers, EffectiveTags

LEMMA RouteIsAllowed ==
  ASSUME NEW a
  PROVE  /\ Carriers(RouteOf(a)) \subseteq Allowed(a)
         /\ RouteOf(a) = Direct => Override(a) \in Allowed(a)
<1>1. CASE Hits(a) # {}
  <2>1. RouteOf(a) = EffectiveRules[Min(Hits(a))].pool
    BY <1>1, RuleOfIsFirst DEF RouteOf
  <2>2. RouteOf(a) # Direct
    BY <1>1, <2>1, RuleOfIsFirst, RulesAreSequence DEF Hits
  <2> QED
    BY <1>1, <2>1, <2>2 DEF Allowed
<1>2. CASE Hits(a) = {}
  <2>1. RuleOf(a) = 0
    BY <1>2, RuleOfIsFirst
  <2>2. CASE AllowDynamic /\ Override(a) # NoText
    BY <1>2, <2>1, <2>2, NobodyIsDirect DEF RouteOf, Allowed
  <2>3. CASE ~ (AllowDynamic /\ Override(a) # NoText)
    BY <1>2, <2>1, <2>3 DEF RouteOf, Allowed, Carriers
  <2> QED
    BY <2>2, <2>3
<1> QED
  BY <1>1, <1>2

LEMMA ModelForIsRight ==
  ASSUME NEW a, NEW b
  PROVE  \/ b \in Backends /\ ModelFor(a, b) = Node[b].model
         \/ /\ ModelFor(a, b) = a.model
            /\ b \notin Backends \/ Node[b].model = NoText \/ ~ a.asJSON
BY DEF ModelFor

-----------------------------------------------------------------------------
(* The inductive invariant: between two tries the report names exactly the
   backends tried, during a try all but the one asked. *)

PcType == pc \in [Requests -> {"select", "forward", "next", "done", "failed", "rejected"}]

RequestType ==
  /\ PcType
  /\ DOMAIN cand = Requests /\ DOMAIN model = Requests
  /\ tried \in [Requests -> SUBSET (Backends \cup ValidURLs)]
  /\ attempts \in [Requests -> Seq(Backends \cup ValidURLs)]

ReportAgrees(r) ==
  /\ IsInjective(attempts[r])
  /\ pc[r] = "select" => tried[r] = {} /\ attempts[r] = <<>>
  /\ pc[r] = "forward" => cand[r] \in tried[r] /\ Range(attempts[r]) = tried[r] \ {cand[r]}
  /\ pc[r] \in {"next", "failed"} => Range(attempts[r]) = tried[r]

ModelAgrees(r) ==
  pc[r] = "forward" =>
    \/ cand[r] \in Backends /\ model[r] = Node[cand[r]].model
    \/ model[r] = ask[r].model /\ (cand[r] \notin Backends \/ Node[cand[r]].model = NoText
                                  \/ ~ ask[r].asJSON)

Agrees(r) == tried[r] \subseteq Allowed(ask[r]) /\ ReportAgrees(r) /\ ModelAgrees(r)

RequestInv == RequestType /\ \A r \in Requests : Agrees(r)

LEMMA AgreesAlone ==
  ASSUME NEW r, pc'[r] = pc[r], cand'[r] = cand[r], model'[r] = model[r], tried'[r] = tried[r],
         attempts'[r] = attempts[r], ask' = ask, Agrees(r)
  PROVE  Agrees(r)'
BY DEF Agrees, ReportAgrees, ModelAgrees

LEMMA RestInit == Init => RequestInv
<1> SUFFICES ASSUME Init PROVE RequestInv
  OBVIOUS
<1>1. RequestType
  <2>1. PcType /\ DOMAIN cand = Requests /\ DOMAIN model = Requests
    BY DEF Init, PcType
  <2>2. tried \in [Requests -> SUBSET (Backends \cup ValidURLs)]
    BY DEF Init
  <2>3. attempts \in [Requests -> Seq(Backends \cup ValidURLs)]
    <3>1. <<>> \in Seq(Backends \cup ValidURLs)
      OBVIOUS
    <3> QED
      BY <3>1 DEF Init
  <2> QED
    BY <2>1, <2>2, <2>3 DEF RequestType
<1>2. ASSUME NEW r \in Requests PROVE Agrees(r)
  <2>1. pc[r] = "select" /\ tried[r] = {} /\ attempts[r] = <<>>
    BY DEF Init
  <2>2. IsInjective(attempts[r])
    BY <2>1 DEF IsInjective
  <2> QED
    BY <2>1, <2>2 DEF Agrees, ReportAgrees, ModelAgrees
<1> QED
  BY <1>1, <1>2 DEF RequestInv

(* ForwardTo with a backend, or a URL, that the request may be sent to and has
   not been sent to; all it has tried is in the report. *)
LEMMA ForwardToAgrees ==
  ASSUME RequestInv, NEW r \in Requests, NEW b \in (Backends \cup ValidURLs),
         ForwardTo(r, b), UNCHANGED <<ask, attempts>>,
         b \in Allowed(ask[r]), b \notin tried[r], Range(attempts[r]) = tried[r]
  PROVE  RequestInv'
<1>1. /\ pc' = [pc EXCEPT ![r] = "forward"]
      /\ cand' = [cand EXCEPT ![r] = b]
      /\ tried' = [tried EXCEPT ![r] = @ \cup {b}]
      /\ model' = [model EXCEPT ![r] = ModelFor(ask[r], b)]
  BY DEF ForwardTo, Goto
<1>2. RequestType'
  BY <1>1 DEF RequestInv, RequestType, PcType
<1>3. ASSUME NEW q \in Requests, q # r PROVE Agrees(q)'
  BY <1>1, <1>3, AgreesAlone DEF RequestInv
<1>4. /\ pc'[r] = "forward" /\ cand'[r] = b /\ tried'[r] = tried[r] \cup {b}
      /\ model'[r] = ModelFor(ask[r], b)
  BY <1>1 DEF RequestInv, RequestType, PcType
<1>5. ReportAgrees(r)'
  BY <1>4 DEF RequestInv, Agrees, ReportAgrees
<1>6. ModelAgrees(r)'
  BY <1>4, ModelForIsRight DEF ModelAgrees
<1>7. Agrees(r)'
  BY <1>4, <1>5, <1>6 DEF RequestInv, Agrees
<1> QED
  BY <1>2, <1>3, <1>7 DEF RequestInv

(* A step to a state in which a request is sent nowhere. *)
LEMMA StopAgrees ==
  ASSUME RequestInv, NEW r \in Requests, NEW step \in {"next", "done", "failed", "rejected"},
         pc' = [pc EXCEPT ![r] = step], UNCHANGED <<ask, cand, model, tried, attempts>>,
         step \in {"next", "failed"} => Range(attempts[r]) = tried[r]
  PROVE  RequestInv'
<1>1. RequestType'
  BY DEF RequestInv, RequestType, PcType
<1>2. ASSUME NEW q \in Requests, q # r PROVE Agrees(q)'
  BY <1>2, AgreesAlone DEF RequestInv, RequestType, PcType
<1>3. pc'[r] = step
  BY DEF RequestInv, RequestType, PcType
<1>4. Agrees(r)'
  BY <1>3 DEF RequestInv, Agrees, ReportAgrees, ModelAgrees
<1> QED
  BY <1>1, <1>2, <1>4 DEF RequestInv

LEMMA SelectFirstStep ==
  ASSUME RequestInv, NEW r \in Requests, SelectFirst(r)
  PROVE  RequestInv'
<1>1. tried[r] = {} /\ Range(attempts[r]) = tried[r]
  BY DEF SelectFirst, RequestInv, Agrees, ReportAgrees, Range
<1>2. CASE Reject(r)
  BY <1>2, StopAgrees DEF Reject, Goto, SelectFirst
<1>3. ASSUME NEW b \in Backends, Draw(Route(r), b), ForwardTo(r, b) PROVE RequestInv'
  <2>1. b \in Allowed(ask[r])
    BY <1>3, RouteIsAllowed DEF Draw, Members, Route
  <2> QED
    BY <1>1, <1>3, <2>1, ForwardToAgrees DEF SelectFirst, reqVars
<1>4. CASE Route(r) = Direct /\ Override(ask[r]) \in ValidURLs /\ ForwardTo(r, Override(ask[r]))
  <2>1. Override(ask[r]) \in Allowed(ask[r])
    BY <1>4, RouteIsAllowed DEF Route
  <2> QED
    BY <1>1, <1>4, <2>1, ForwardToAgrees DEF SelectFirst, reqVars
<1> QED
  BY <1>2, <1>3, <1>4 DEF SelectFirst

LEMMA NotAnsweredStep ==
  ASSUME RequestInv, NEW r \in Requests, NotAnswered(r)
  PROVE  RequestInv'
<1>1. /\ pc[r] = "forward" /\ cand[r] \in tried[r]
      /\ Range(attempts[r]) = tried[r] \ {cand[r]} /\ IsInjective(attempts[r])
      /\ attempts[r] \in Seq(Backends \cup ValidURLs)
      /\ cand[r] \in Backends \cup ValidURLs
  BY DEF NotAnswered, RequestInv, RequestType, Agrees, ReportAgrees
<1>2. PICK step \in {"failed", "next"} : pc' = [pc EXCEPT ![r] = step]
  BY DEF NotAnswered, Goto
<1>3. /\ attempts' = [attempts EXCEPT ![r] = Append(@, cand[r])]
      /\ UNCHANGED <<ask, cand, model, tried>>
  BY DEF NotAnswered
<1>4. RequestType'
  BY <1>1, <1>2, <1>3 DEF RequestInv, RequestType, PcType
<1>5. ASSUME NEW q \in Requests, q # r PROVE Agrees(q)'
  BY <1>2, <1>3, <1>5, AgreesAlone DEF RequestInv, RequestType, PcType
<1>6. pc'[r] = step /\ attempts'[r] = Append(attempts[r], cand[r])
  BY <1>2, <1>3 DEF RequestInv, RequestType, PcType
<1>7. Range(attempts'[r]) = tried'[r] /\ IsInjective(attempts'[r])
  <2> DEFINE s == attempts[r]
             t == Append(s, cand[r])
  <2>1. /\ Len(s) \in Nat /\ DOMAIN s = 1 .. Len(s) /\ DOMAIN t = 1 .. Len(s) + 1
        /\ \A i \in DOMAIN s : t[i] = s[i]
        /\ t[Len(s) + 1] = cand[r]
    BY <1>1
  <2>2. cand[r] \notin Range(s)
    BY <1>1
  <2> HIDE DEF s, t
  <2>3. Range(t) = Range(s) \cup {cand[r]}
    BY <2>1 DEF Range
  <2>4. IsInjective(s)
    BY <1>1 DEF s
  <2>5. IsInjective(t)
    BY <2>1, <2>2, <2>4 DEF IsInjective, Range
  <2> QED
    BY <1>1, <1>3, <1>6, <2>3, <2>5 DEF s, t
<1>8. Agrees(r)'
  BY <1>3, <1>6, <1>7 DEF RequestInv, Agrees, ReportAgrees, ModelAgrees
<1> QED
  BY <1>4, <1>5, <1>8 DEF RequestInv

LEMMA DrawNextStep ==
  ASSUME RequestInv, NEW r \in Requests, DrawNext(r)
  PROVE  RequestInv'
<1>1. Range(attempts[r]) = tried[r]
  BY DEF DrawNext, RequestInv, Agrees, ReportAgrees
<1>2. ASSUME NEW b \in Backends, Draw(Route(r), b), b \notin tried[r], ForwardTo(r, b)
      PROVE  RequestInv'
  <2>1. b \in Allowed(ask[r])
    BY <1>2, RouteIsAllowed DEF Draw, Members, Route
  <2> QED
    BY <1>1, <1>2, <2>1, ForwardToAgrees DEF DrawNext, reqVars
<1>3. CASE UNCHANGED <<pc, cand, model, tried>>
  BY <1>3, AgreesAlone DEF DrawNext, RequestInv, RequestType, PcType
<1> QED
  BY <1>2, <1>3 DEF DrawNext

LEMMA RequestStep == RequestInv /\ [Next]_vars => RequestInv'
<1> SUFFICES ASSUME RequestInv, [Next]_vars PROVE RequestInv'
  OBVIOUS
<1>1. CASE UNCHANGED reqVars
  BY <1>1, AgreesAlone DEF reqVars, RequestInv, RequestType, PcType
<1>2. ASSUME NEW r \in Requests, Request(r) PROVE RequestInv'
  <2>1. CASE SelectFirst(r)
    BY <2>1, SelectFirstStep
  <2>2. CASE Answered(r)
    BY <2>2, StopAgrees DEF Answered, Goto
  <2>3. CASE NotAnswered(r)
    BY <2>3, NotAnsweredStep
  <2>4. CASE DrawNext(r)
    BY <2>4, DrawNextStep
  <2>5. CASE Miss(r)
    <3>1. Range(attempts[r]) = tried[r]
      BY <2>5 DEF Miss, RequestInv, Agrees, ReportAgrees
    <3> QED
      BY <2>5, <3>1, StopAgrees DEF Miss, Goto
  <2> QED
    BY <1>2, <2>1, <2>2, <2>3, <2>4, <2>5 DEF Request
<1>3. CASE Sync \/ ReadyChanges \/ UNCHANGED vars
  BY <1>1, <1>3 DEF Sync, SyncRead, SyncUpdate, ReadyChanges, vars
<1> QED
  BY <1>2, <1>3 DEF Next

-----------------------------------------------------------------------------
(* The report, the route and the model of every request agree with each other in
   every state of selectBackend and the loop of handleProxy. *)
THEOREM Invariance == Spec => []RequestInv
BY RestInit, RequestStep, PTL DEF Spec

(* A request is sent to no backend outside the pool its rule names, nor past the
   URL it names itself, for any configuration that Load accepts, any headers and
   any number of failovers. *)
THEOREM RequestsStayWhereRouted == Spec => []StaysWhereRouted
<1>1. RequestInv => StaysWhereRouted
  BY DEF RequestInv, Agrees, StaysWhereRouted
<1> QED
  BY <1>1, Invariance, PTL

(* The report of a failed request names every backend it was sent to and none of
   them twice (tryExclude in handleProxy), whatever the strategy draws. *)
THEOREM ReportsAreComplete == Spec => []ReportIsComplete
<1>1. RequestInv => ReportIsComplete
  BY DEF RequestInv, Agrees, ReportAgrees, ReportIsComplete
<1> QED
  BY <1>1, Invariance, PTL

(* No backend is asked for the model of the backend tried before it (handleProxy
   starts each try from the client's body). *)
THEOREM ModelsAreTheBackends == Spec => []ModelIsBackends
<1>1. RequestInv => ModelIsBackends
  BY DEF RequestInv, Agrees, ModelAgrees, ModelIsBackends
<1> QED
  BY <1>1, Invariance, PTL

-----------------------------------------------------------------------------
(* The pool and the draws. *)

LEMMA BackendsFinite == IsFiniteSet(Backends) /\ Len(Order) \in Nat /\ DOMAIN Order = 1 .. Len(Order)
<1>1. /\ Len(Order) \in Nat /\ DOMAIN Order = 1 .. Len(Order)
      /\ Order \in [1 .. Len(Order) -> Backends]
      /\ \A b \in Backends : \E i \in 1 .. Len(Order) : Order[i] = b
  BY OrderAssumption DEF Range
<1>2. Order \in Surjection(1 .. Len(Order), Backends)
  BY <1>1 DEF Surjection
<1>3. IsFiniteSet(1 .. Len(Order))
  BY <1>1, FS_Interval
<1> QED
  BY <1>1, <1>2, <1>3, FS_Surjection

LEMMA WeightType ==
  ASSUME NEW b \in Backends
  PROVE  Weight(b) \in Nat \ {0}
BY NodeAssumption DEF Weight

Weights == [b \in Backends |-> Weight(b)]

LEMMA MaxTriesType ==
  ASSUME pool \subseteq Backends
  PROVE  MaxTries \in Nat
<1>1. IsFiniteSet(pool)
  BY BackendsFinite, FS_Subset
<1>2. \A b \in pool : Weights[b] \in Nat
  BY WeightType DEF Weights
<1>3. MaxTries = SumFunctionOnSet(Weights, pool)
  BY DEF MaxTries, Weights
<1> QED
  BY <1>1, <1>2, <1>3, SumNat

LEMMA DrawType ==
  ASSUME TypeOK, NEW route, NEW b, Draw(route, b)
  PROVE  cursor' \in [Pools -> 0 .. Len(Order)] /\ b \in Backends
<1>1. cursor \in [Pools -> 0 .. Len(Order)] /\ pool \subseteq Backends
  BY DEF TypeOK, Backends
<1>2. CASE Strategy = "cycle"
  BY <1>1, <1>2, BackendsFinite DEF Draw, Members
<1>3. CASE Strategy # "cycle"
  BY <1>1, <1>3 DEF Draw, Members
<1> QED
  BY <1>2, <1>3

-----------------------------------------------------------------------------
(* Type correctness. *)

LEMMA TypeInit == Init => TypeOK
<1> SUFFICES ASSUME Init PROVE TypeOK
  OBVIOUS
<1>1. /\ cursor \in [Pools -> 0 .. Len(Order)]
      /\ left \in [Requests -> Nat]
  <2>1. cursor = [route \in Pools |-> 0] /\ left = [r \in Requests |-> 0]
    BY Zenon DEF Init
  <2> QED
    BY <2>1, BackendsFinite
<1>2. attempts \in [Requests -> Seq(Backends \cup ValidURLs)]
  BY RestInit DEF RequestInv, RequestType
<1>3. DOMAIN ask = Requests /\ \A r \in Requests : ask[r] \in Asks[r]
  BY DEF Init
<1> QED
  BY <1>1, <1>2, <1>3 DEF Init, TypeOK

(* What a request does to the variables of its own that are not in RequestType. *)
LEMMA TypeRequest ==
  ASSUME TypeOK, RequestType, RequestType', NEW r \in Requests, Request(r)
  PROVE  TypeOK'
<1> USE DEF syncVars, poolVars
<1>1. UNCHANGED <<pool, ready, inPool, syncing, ask>>
  BY DEF Request, SelectFirst, Answered, NotAnswered, DrawNext, Miss
<1>2. cursor' \in [Pools -> 0 .. Len(Order)]
  <2>1. cursor' = cursor \/ \E b \in Backends : Draw(Route(r), b)
    BY DEF Request, SelectFirst, Answered, NotAnswered, DrawNext, Miss
  <2> QED
    BY <2>1, DrawType DEF TypeOK
<1>3. left' \in [Requests -> Nat]
  <2>1. pool \subseteq Backends
    BY DEF TypeOK, Backends
  <2>2. left' = left \/ \E n \in Nat : left' = [left EXCEPT ![r] = n]
    <3>1. CASE NotAnswered(r)
      BY <2>1, <3>1, MaxTriesType DEF NotAnswered
    <3>2. CASE DrawNext(r)
      <4>1. left[r] - 1 \in Nat
        BY <3>2 DEF DrawNext, TypeOK
      <4> QED
        BY <3>2, <4>1 DEF DrawNext
    <3> QED
      BY <3>1, <3>2 DEF Request, SelectFirst, Answered, Miss
  <2> QED
    BY <2>2 DEF TypeOK
<1>4. \A q \in Requests : cand'[q] \in tried'[q] \/ pc'[q] \in {"select", "rejected"}
  <2>1. ASSUME NEW b, ForwardTo(r, b)
        PROVE  \A q \in Requests : cand'[q] \in tried'[q] \/ pc'[q] \in {"select", "rejected"}
    BY <2>1 DEF ForwardTo, Goto, TypeOK
  <2>2. CASE Reject(r)
    BY <2>2 DEF Reject, Goto, TypeOK
  <2>3. ASSUME NEW step, Goto(r, step), pc[r] \in {"forward", "next"}, UNCHANGED <<cand, tried>>
        PROVE  \A q \in Requests : cand'[q] \in tried'[q] \/ pc'[q] \in {"select", "rejected"}
    BY <2>3 DEF Goto, TypeOK
  <2>4. CASE UNCHANGED <<pc, cand, tried>>
    BY <2>4 DEF TypeOK
  <2> QED
    BY <2>1, <2>2, <2>3, <2>4 DEF Request, SelectFirst, Answered, NotAnswered, DrawNext, Miss
<1> QED
  BY <1>1, <1>2, <1>3, <1>4 DEF TypeOK, RequestType, PcType

LEMMA TypeNext == TypeOK /\ RequestInv /\ RequestInv' /\ [Next]_vars => TypeOK'
<1> SUFFICES ASSUME TypeOK, RequestInv, RequestInv', [Next]_vars PROVE TypeOK'
  OBVIOUS
<1>1. ASSUME NEW r \in Requests, Request(r) PROVE TypeOK'
  BY <1>1, TypeRequest DEF RequestInv
<1>2. CASE SyncUpdate
  <2>1. cursor' \in [Pools -> 0 .. Len(Order)]
    BY <1>2, BackendsFinite DEF SyncUpdate
  <2>2. UNCHANGED <<ready, inPool, ask, pc, cand, model, tried, left, attempts>>
    BY <1>2 DEF SyncUpdate, reqVars
  <2>3. pool' \in {Static, Backends} /\ syncing' \in BOOLEAN
    BY <1>2 DEF SyncUpdate
  <2> QED
    BY <2>1, <2>2, <2>3 DEF TypeOK
<1>3. CASE SyncRead \/ ReadyChanges \/ UNCHANGED vars
  BY <1>3 DEF SyncRead, ReadyChanges, vars, poolVars, syncVars, reqVars, TypeOK
<1> QED
  BY <1>1, <1>2, <1>3 DEF Next, Sync

(* Every variable of the pool and its requests keeps its type. *)
THEOREM TypeCorrect == Spec => []TypeOK
BY TypeInit, TypeNext, Invariance, PTL DEF Spec

-----------------------------------------------------------------------------
(* No backend is missed, if nobody else draws meanwhile. *)

(* A backend has no more places in the cycle than its weight: as many in wrr and
   swrr, whose cycle is shorter by the common divisor of the weights, one in rr. *)
OrderFitsWeights ==
  \A b \in Backends : Cardinality({i \in DOMAIN Order : Order[i] = b}) <= Weight(b)

(* The places of the balancer a request draws from, and those among them that
   its cursor passes on the way to the place u. *)
Places(r)    == {i \in DOMAIN Order : Order[i] \in Members(Route(r))}
Ahead(c, u)  == Between(c, u) \cup {u}
Before(r, u) == Places(r) \cap Ahead(cursor[Route(r)], u)

(* The draws a request has left get it to every backend it has not tried. *)
EnoughFor(r) ==
  pc[r] = "next" =>
    \A u \in Places(r) : Order[u] \notin tried[r] => Cardinality(Before(r, u)) <= left[r]

EnoughLeft == \A r \in Requests : EnoughFor(r)

(* Between two draws of a request nobody draws from the same balancer. *)
Undisturbed ==
  [][\A r \in Requests : pc[r] = "next" /\ pc'[r] = "next" /\ left'[r] = left[r] /\ Route(r) \in Pools
       => cursor'[Route(r)] = cursor[Route(r)]]_vars

(* A draw of place i brings the cursor one place nearer to every other place. *)
LEMMA AheadShrinks ==
  ASSUME NEW n \in Nat, Len(Order) = n, NEW c \in 0 .. n, NEW i \in 1 .. n, NEW u \in 1 .. n,
         u # i, u \notin Between(c, i)
  PROVE  i \in Ahead(c, u) /\ i \notin Ahead(i, u) /\ Ahead(i, u) \subseteq Ahead(c, u)
BY DEF Ahead, Between

LEMMA PlacesFit ==
  ASSUME TypeOK, OrderFitsWeights, NEW r
  PROVE  /\ Places(r) \subseteq 1 .. Len(Order) /\ IsFiniteSet(Places(r))
         /\ \A Q \in SUBSET Places(r) :
              IsFiniteSet(Q) /\ Cardinality(Q) \in Nat /\ Cardinality(Q) <= MaxTries
<1> DEFINE P == DOMAIN Order
           n == [b \in Backends |-> Cardinality(OfKind(P, Order, b))]
           R == {i \in P : Order[i] \in pool}
<1>1. IsFiniteSet(P) /\ P = 1 .. Len(Order)
  BY BackendsFinite, FS_Interval
<1>2. IsFiniteSet(pool) /\ pool \subseteq Backends
  <2>1. pool \subseteq Backends
    BY DEF TypeOK, Backends
  <2> QED
    BY <2>1, BackendsFinite, FS_Subset
<1>3. ASSUME NEW b \in Backends
      PROVE  n[b] \in Nat /\ Weights[b] \in Nat /\ n[b] <= Weights[b]
  <2>1. OfKind(P, Order, b) \in SUBSET P
    BY DEF OfKind
  <2>2. n[b] \in Nat
    BY <1>1, <2>1, FS_Subset, FS_CardinalityType
  <2>3. n[b] <= Weight(b)
    BY DEF OrderFitsWeights, OfKind
  <2> QED
    BY <2>2, <2>3, WeightType DEF Weights
<1>4. \A b \in pool : n[b] = Cardinality(OfKind(P, Order, b))
  BY <1>2
<1> HIDE DEF n
<1>5. SumFunctionOnSet(n, pool) = Cardinality(R)
  <2> HIDE DEF P
  <2> QED
    BY <1>1, <1>2, <1>4, SumOfKinds
<1>6. SumFunctionOnSet(n, pool) <= SumFunctionOnSet(Weights, pool)
  BY <1>2, <1>3, SumBound DEF Summable
<1>7. MaxTries = SumFunctionOnSet(Weights, pool)
  BY DEF MaxTries, Weights
<1>8. IsFiniteSet(R) /\ Cardinality(R) \in Nat /\ Cardinality(R) <= MaxTries /\ MaxTries \in Nat
  <2>1. R \in SUBSET P
    OBVIOUS
  <2>2. IsFiniteSet(R) /\ Cardinality(R) \in Nat
    BY <1>1, <2>1, FS_Subset, FS_CardinalityType
  <2> QED
    BY <1>2, <1>5, <1>6, <1>7, <2>2, MaxTriesType
<1>9. Places(r) \subseteq R
  BY DEF Places, Members
<1> HIDE DEF R
<1>10. ASSUME NEW Q \in SUBSET Places(r)
       PROVE  IsFiniteSet(Q) /\ Cardinality(Q) \in Nat /\ Cardinality(Q) <= MaxTries
  <2>1. Q \in SUBSET R
    BY <1>9
  <2>2. IsFiniteSet(Q) /\ Cardinality(Q) <= Cardinality(R)
    BY <1>8, <2>1, FS_Subset
  <2>3. Cardinality(Q) \in Nat
    BY <2>2, FS_CardinalityType
  <2> QED
    BY <1>8, <2>2, <2>3
<1> QED
  BY <1>1, <1>10 DEF Places

(* selectExcluding is entered with draws for every place. *)
LEMMA EnoughAtFirst ==
  ASSUME TypeOK, OrderFitsWeights, NEW r \in Requests, NotAnswered(r)
  PROVE  EnoughFor(r)'
<1> SUFFICES ASSUME pc'[r] = "next", NEW u \in Places(r)'
             PROVE  Cardinality(Before(r, u)') <= left'[r]
  BY DEF EnoughFor
<1>1. left'[r] = MaxTries /\ Places(r)' = Places(r)
  BY DEF NotAnswered, Goto, poolVars, TypeOK, Places, Members, Route
<1>2. Before(r, u)' \in SUBSET Places(r)
  BY <1>1 DEF Before
<1> QED
  BY <1>1, <1>2, PlacesFit

(* A draw in vain takes one of the places on the way to each that is left. *)
LEMMA EnoughAfterDraw ==
  ASSUME TypeOK, OrderFitsWeights, Strategy = "cycle", NEW r \in Requests, EnoughFor(r),
         DrawNext(r), pc'[r] = "next"
  PROVE  EnoughFor(r)'
<1>1. /\ pc[r] = "next" /\ left[r] \in Nat
      /\ UNCHANGED <<pool, ask>>
  BY DEF DrawNext, TypeOK
<1>2. PICK b \in Backends : /\ Draw(Route(r), b)
                            /\ IF b \in tried[r]
                                 THEN left' = [left EXCEPT ![r] = @ - 1] /\ UNCHANGED tried
                                 ELSE pc' = [pc EXCEPT ![r] = "forward"]
  BY DEF DrawNext, ForwardTo, Goto
<1>3. b \in tried[r] /\ left'[r] = left[r] - 1 /\ tried'[r] = tried[r]
  BY <1>2 DEF TypeOK
<1>4. PICK i \in DOMAIN Order :
        /\ Order[i] = b
        /\ \A j \in Between(cursor[Route(r)], i) : Order[j] \notin Members(Route(r))
        /\ cursor' = [cursor EXCEPT ![Route(r)] = i]
  BY <1>2 DEF Draw
<1>5. b \in Members(Route(r)) /\ Route(r) \in Pools
  BY <1>2 DEF Draw, Members, Carriers, Pools
<1>6. cursor'[Route(r)] = i /\ cursor[Route(r)] \in 0 .. Len(Order)
  BY <1>4, <1>5 DEF TypeOK
<1>7. Places(r)' = Places(r) /\ Route(r)' = Route(r)
  BY <1>1 DEF Places, Members, Route
<1>8. i \in Places(r)
  BY <1>4, <1>5 DEF Places
<1> SUFFICES ASSUME NEW u \in Places(r), Order[u] \notin tried[r]
             PROVE  Cardinality(Places(r) \cap Ahead(i, u)) <= left[r] - 1
  BY <1>3, <1>6, <1>7 DEF EnoughFor, Before
<1> DEFINE A == Before(r, u)
           B == Places(r) \cap Ahead(i, u)
<1>9. i \in Ahead(cursor[Route(r)], u) /\ i \notin Ahead(i, u)
      /\ Ahead(i, u) \subseteq Ahead(cursor[Route(r)], u)
  <2>1. u # i /\ u \notin Between(cursor[Route(r)], i)
    BY <1>3, <1>4 DEF Places
  <2>2. i \in 1 .. Len(Order) /\ u \in 1 .. Len(Order) /\ Len(Order) \in Nat
    BY BackendsFinite DEF Places
  <2> QED
    BY <1>6, <2>1, <2>2, AheadShrinks
<1>10. B \in SUBSET (A \ {i}) /\ i \in A /\ A \in SUBSET Places(r)
  BY <1>8, <1>9 DEF Before
<1>11. IsFiniteSet(A) /\ Cardinality(A) \in Nat /\ Cardinality(A) <= left[r]
  BY <1>1, <1>10, PlacesFit DEF EnoughFor
<1> HIDE DEF A, B
<1>12. IsFiniteSet(A \ {i}) /\ Cardinality(A \ {i}) = Cardinality(A) - 1
  BY <1>10, <1>11, FS_RemoveElement
<1>13. IsFiniteSet(B) /\ Cardinality(B) <= Cardinality(A \ {i})
  BY <1>10, <1>12, FS_Subset
<1>14. Cardinality(B) \in Nat
  BY <1>13, FS_CardinalityType
<1> QED
  BY <1>1, <1>11, <1>12, <1>13, <1>14 DEF B

LEMMA EnoughAlone ==
  ASSUME NEW r \in Requests, EnoughFor(r), UNCHANGED <<pool, ask>>,
         pc'[r] = pc[r], left'[r] = left[r], tried'[r] = tried[r],
         TypeOK, pc[r] = "next" /\ Route(r) \in Pools => cursor'[Route(r)] = cursor[Route(r)]
  PROVE  EnoughFor(r)'
<1>1. Places(r)' = Places(r) /\ Route(r)' = Route(r)
  BY DEF Places, Members, Route
<1>2. CASE Route(r) \in Pools
  BY <1>1, <1>2 DEF EnoughFor, Before
<1>3. CASE Route(r) \notin Pools
  <2>1. Members(Route(r)) = {}
    BY <1>3 DEF Members, Carriers, Pools
  <2>2. Places(r) = {}
    BY <2>1 DEF Places
  <2> QED
    BY <1>1, <2>2 DEF EnoughFor
<1> QED
  BY <1>2, <1>3

(* What a request and the others do to each other. *)
LEMMA OnlyItsOwn ==
  ASSUME TypeOK, NEW r \in Requests, Request(r), NEW q \in Requests, q # r
  PROVE  /\ UNCHANGED <<pool, ask>>
         /\ pc'[q] = pc[q] /\ left'[q] = left[q] /\ tried'[q] = tried[q]
<1>1. UNCHANGED <<pool, ask>>
  BY DEF Request, SelectFirst, Answered, NotAnswered, DrawNext, Miss, poolVars
<1>2. pc'[q] = pc[q]
  BY DEF Request, SelectFirst, Answered, NotAnswered, DrawNext, Miss, Goto, ForwardTo, Reject, TypeOK
<1>3. left'[q] = left[q]
  BY DEF Request, SelectFirst, Answered, NotAnswered, DrawNext, Miss, TypeOK
<1>4. tried'[q] = tried[q]
  BY DEF Request, SelectFirst, Answered, NotAnswered, DrawNext, Miss, ForwardTo, Reject, TypeOK
<1> QED
  BY <1>1, <1>2, <1>3, <1>4

UndisturbedStep ==
  \A r \in Requests : pc[r] = "next" /\ pc'[r] = "next" /\ left'[r] = left[r] /\ Route(r) \in Pools
    => cursor'[Route(r)] = cursor[Route(r)]

LEMMA EnoughNext ==
  ASSUME TypeOK, OrderFitsWeights, Strategy = "cycle", EnoughLeft, [Next]_vars,
         UndisturbedStep
  PROVE  EnoughLeft'
<1>1. ASSUME NEW r \in Requests, Request(r), NEW q \in Requests PROVE EnoughFor(q)'
  <2>1. CASE q # r
    BY <1>1, <2>1, OnlyItsOwn, EnoughAlone DEF EnoughLeft, UndisturbedStep
  <2>2. CASE q = r /\ NotAnswered(r)
    BY <2>2, EnoughAtFirst
  <2>3. CASE q = r /\ DrawNext(r) /\ pc'[r] = "next"
    BY <2>3, EnoughAfterDraw DEF EnoughLeft
  <2>4. CASE q = r /\ ~ NotAnswered(r) /\ ~ (DrawNext(r) /\ pc'[r] = "next")
    <3>1. pc'[r] # "next"
      BY <1>1, <2>4 DEF Request, SelectFirst, Answered, DrawNext, Miss, Goto, ForwardTo, Reject, TypeOK
    <3> QED
      BY <2>4, <3>1 DEF EnoughFor
  <2> QED
    BY <2>1, <2>2, <2>3, <2>4
<1>2. CASE SyncUpdate
  <2>1. \A r \in Requests : pc'[r] # "next"
    BY <1>2 DEF SyncUpdate, reqVars
  <2> QED
    BY <2>1 DEF EnoughLeft, EnoughFor
<1>3. CASE SyncRead \/ ReadyChanges \/ UNCHANGED vars
  <2>1. UNCHANGED <<pool, cursor, ask, pc, left, tried>>
    BY <1>3 DEF SyncRead, ReadyChanges, vars, poolVars, syncVars, reqVars
  <2>2. ASSUME NEW r \in Requests PROVE EnoughFor(r)'
    BY <2>1, EnoughAlone DEF EnoughLeft, Route
  <2> QED
    BY <2>2 DEF EnoughLeft
<1> QED
  BY <1>1, <1>2, <1>3 DEF Next, Sync, EnoughLeft

(* Without draws left, nothing is left to draw. *)
LEMMA EnoughIsAll ==
  ASSUME TypeOK, OrderFitsWeights, EnoughLeft,
         NEW r \in Requests, pc[r] = "next", left[r] = 0
  PROVE  Members(Route(r)) \subseteq tried[r]
<1> SUFFICES ASSUME NEW b \in Members(Route(r)), b \notin tried[r] PROVE FALSE
  OBVIOUS
<1>1. b \in Backends
  BY DEF Members, TypeOK, Backends
<1>2. PICK u \in DOMAIN Order : Order[u] = b
  BY <1>1, OrderAssumption DEF Range
<1>3. u \in Places(r) /\ u \in Before(r, u)
  BY <1>2 DEF Places, Before, Ahead
<1>4. Cardinality(Before(r, u)) <= 0
  BY <1>2, <1>3 DEF EnoughLeft, EnoughFor
<1>5. Before(r, u) \in SUBSET Places(r)
  BY DEF Before
<1>6. IsFiniteSet(Before(r, u)) /\ Cardinality(Before(r, u)) \in Nat
  BY <1>5, PlacesFit
<1>7. Before(r, u) = {}
  BY <1>4, <1>6, FS_EmptySet
<1> QED
  BY <1>3, <1>7

MissStep ==
  \A r \in Requests : pc[r] = "next" /\ pc'[r] = "failed" => Members(Route(r)) \subseteq tried[r]

LEMMA MissIsRight ==
  ASSUME TypeOK, OrderFitsWeights, EnoughLeft, [Next]_vars
  PROVE  MissStep
<1> SUFFICES ASSUME NEW r \in Requests, pc[r] = "next", pc'[r] = "failed"
             PROVE  Members(Route(r)) \subseteq tried[r]
  BY DEF MissStep
<1>1. PICK q \in Requests : Request(q)
  BY DEF Next, Sync, SyncRead, SyncUpdate, ReadyChanges, vars, reqVars
<1>2. q = r
  BY <1>1, OnlyItsOwn
<1>3. left[r] = 0
  BY <1>1, <1>2 DEF Request, SelectFirst, Answered, NotAnswered, DrawNext, Miss, Goto, ForwardTo, TypeOK
<1> QED
  BY <1>3, EnoughIsAll

(* "All backends failed" is true, in spite of draws that repeat and a pool that
   changes between two tries, as long as nobody else draws from the balancer
   during the choice (selectExcluding holds the pool's lock for reading only,
   so that others may): a draw per unit of weight passes every place. *)
THEOREM NobodyIsMissed ==
  ASSUME Strategy = "cycle", OrderFitsWeights
  PROVE  Spec /\ Undisturbed => MissMeansTried
<1>1. Init => EnoughLeft
  BY DEF Init, EnoughLeft, EnoughFor
<1>2. TypeOK /\ EnoughLeft /\ [Next]_vars /\ [UndisturbedStep]_vars => EnoughLeft'
  <2>1. UNCHANGED vars => UndisturbedStep
    BY DEF vars, poolVars, reqVars, UndisturbedStep
  <2> QED
    BY <2>1, EnoughNext
<1>3. TypeOK /\ EnoughLeft /\ [Next]_vars => [MissStep]_vars
  BY MissIsRight
<1>4. Undisturbed <=> [][UndisturbedStep]_vars
  BY PTL DEF Undisturbed, UndisturbedStep
<1>5. MissMeansTried <=> [][MissStep]_vars
  BY PTL DEF MissMeansTried, MissStep
<1> QED
  BY <1>1, <1>2, <1>3, <1>4, <1>5, TypeCorrect, PTL DEF Spec
=============================================================================
