------------------------------ MODULE Failover ------------------------------
(***************************************************************************)
(* Requests over the backend pool: the choice of a backend and the         *)
(* failover loop (proxy.go, internal/balancer/balancer.go), while the      *)
(* local background model joins and leaves the pool (pool.go).             *)
(*                                                                         *)
(* The strategies of the balancer library are modelled by what the code    *)
(* relies on.  "cycle" (wrr, swrr, rr): a cursor, shared by all requests,  *)
(* runs through a cycle that holds every backend.  "random" (wr, random):  *)
(* any backend.  A draw is atomic (the library locks); selectExcluding     *)
(* makes several of them under the read lock of the pool, which other      *)
(* requests may hold at the same time and Update may not.                  *)
(***************************************************************************)
EXTENDS Routing

CONSTANTS
  Requests,
  Asks,       \* what each request may ask for
  Order,      \* the cycle of a pool of all backends
  Strategy    \* "cycle" or "random"

Nobody == "*nobody*"

ASSUME OrderAssumption == /\ Order \in Seq(Backends)
                          /\ Backends \subseteq Range(Order)
                          /\ Strategy \in {"cycle", "random"}
ASSUME NobodyAssumption == Nobody \notin Backends

VARIABLES
  pool,     \* bb.backends
  cursor,   \* the place in Order of the last draw from bb.bal, bb.pools[tag]
  ready,    \* what BackgroundReady answers
  inPool,   \* s.localNodeInPool
  syncing,  \* syncLocalBackendNode has set it and has yet to call Update
  ask,      \* what each request asks for
  pc,       \* where it is
  cand,     \* the backend, or the URL, it is forwarded to
  model,    \* reqModel, the model in the body that is sent
  tried,    \* its exclusion set
  left,     \* the draws it has left in selectExcluding
  attempts  \* the report: whom it was sent to, in vain

poolVars == <<pool, cursor>>
syncVars == <<inPool, syncing>>
reqVars  == <<ask, pc, cand, model, tried, left, attempts>>
vars     == <<poolVars, ready, syncVars, reqVars>>

Route(r) == RouteOf(ask[r])

(* updateBalancer: the members of the balancer a route draws from. *)
Members(route) == pool \cap Carriers(route)

CountBug == Cardinality(pool)

(* The weights of all backends, whatever the route. *)
MaxTries == SumFunctionOnSet([b \in Backends |-> Weight(b)], pool)

(* The places between the cursor and the place i, going round. *)
Between(c, i) == IF c < i THEN c + 1 .. i - 1 ELSE (c + 1 .. Len(Order)) \cup 1 .. i - 1

(* One Select of the library: b is what it may return. *)
Draw(route, b) ==
  /\ b \in Members(route)
  /\ IF Strategy = "cycle"
       THEN \E i \in DOMAIN Order :
              /\ Order[i] = b
              /\ \A j \in Between(cursor[route], i) : Order[j] \notin Members(route)
              /\ cursor' = [cursor EXCEPT ![route] = i]
       ELSE UNCHANGED cursor

Init ==
  /\ pool = Static
  /\ cursor = [route \in Pools |-> 0]
  /\ ready = FALSE
  /\ inPool = FALSE
  /\ syncing = FALSE
  /\ ask \in {f \in [Requests -> UNION {Asks[r] : r \in Requests}] :
                \A r \in Requests : f[r] \in Asks[r]}
  /\ pc = [r \in Requests |-> "select"]
  /\ cand = [r \in Requests |-> Nobody]
  /\ model = [r \in Requests |-> NoText]
  /\ tried = [r \in Requests |-> {}]
  /\ left = [r \in Requests |-> 0]
  /\ attempts = [r \in Requests |-> <<>>]

-----------------------------------------------------------------------------
(* A request, from its selectBackend on. *)

Goto(r, step) == pc' = [pc EXCEPT ![r] = step]

StaleBodyBug(r, b) ==
  /\ Goto(r, "forward")
  /\ cand' = [cand EXCEPT ![r] = b]
  /\ tried' = [tried EXCEPT ![r] = @ \cup {b}]
  /\ model' = [model EXCEPT ![r] = ModelFor([ask[r] EXCEPT !.model =
                                               IF model[r] = NoText THEN @ ELSE model[r]], b)]

NotMarkedBug(r, b) ==
  /\ Goto(r, "forward")
  /\ cand' = [cand EXCEPT ![r] = b]
  /\ tried' = [tried EXCEPT ![r] = IF @ = {} THEN {b} ELSE @]
  /\ model' = [model EXCEPT ![r] = ModelFor(ask[r], b)]

(* Each try starts from the body the client sent. *)
ForwardTo(r, b) ==
  /\ Goto(r, "forward")
  /\ cand' = [cand EXCEPT ![r] = b]
  /\ tried' = [tried EXCEPT ![r] = @ \cup {b}]
  /\ model' = [model EXCEPT ![r] = ModelFor(ask[r], b)]

(* A 400, for a pool without backends or a URL that is none; the second only
   after the draw, so that the pool's other backends are not asked. *)
Reject(r) ==
  /\ Goto(r, "rejected")
  /\ UNCHANGED <<cand, model, tried>>

(* selectBackend: Select, SelectFromTag, or the request's own URL. *)
SelectFirst(r) ==
  /\ pc[r] = "select"
  /\ \/ /\ Members(Route(r)) = {} /\ Route(r) # Direct
        /\ Reject(r)
        /\ UNCHANGED cursor
     \/ \E b \in Backends :
          /\ Draw(Route(r), b)
          /\ IF b \in ValidURLs THEN ForwardTo(r, b) ELSE Reject(r)
     \/ /\ Route(r) = Direct
        /\ IF Override(ask[r]) \in ValidURLs THEN ForwardTo(r, Override(ask[r])) ELSE Reject(r)
        /\ UNCHANGED cursor
  /\ UNCHANGED <<pool, ready, syncVars, ask, left, attempts>>

Answered(r) ==
  /\ pc[r] = "forward"
  /\ Goto(r, "done")
  /\ UNCHANGED <<poolVars, ready, syncVars, ask, cand, model, tried, left, attempts>>

(* The backend cannot be reached or answers other than 200, which is reported;
   selectExcluding is entered and the read lock taken, if there is a next. *)
NotAnswered(r) ==
  /\ pc[r] = "forward"
  /\ attempts' = [attempts EXCEPT ![r] = Append(@, cand[r])]
  /\ IF Members(Route(r)) = {}
       THEN Goto(r, "failed") /\ UNCHANGED left
       ELSE Goto(r, "next") /\ left' = [left EXCEPT ![r] = MaxTries]
  /\ UNCHANGED <<poolVars, ready, syncVars, ask, cand, model, tried>>

NoLimitBug(r) ==
  /\ pc[r] = "next"
  /\ left[r] > 0
  /\ \E b \in Backends :
       /\ Draw(Route(r), b)
       /\ IF b \in tried[r]
            THEN UNCHANGED <<pc, cand, model, tried, left>>
            ELSE /\ ForwardTo(r, b)
                 /\ left' = [left EXCEPT ![r] = 0]
  /\ UNCHANGED <<pool, ready, syncVars, ask, attempts>>

(* One turn of its loop: a backend that has been tried is passed over. *)
DrawNext(r) ==
  /\ pc[r] = "next"
  /\ left[r] > 0
  /\ \E b \in Backends :
       /\ Draw(Route(r), b)
       /\ IF b \in tried[r]
            THEN /\ left' = [left EXCEPT ![r] = @ - 1]
                 /\ UNCHANGED <<pc, cand, model, tried>>
            ELSE /\ ForwardTo(r, b)
                 /\ left' = [left EXCEPT ![r] = 0]
  /\ UNCHANGED <<pool, ready, syncVars, ask, attempts>>

(* The draws are used up: no candidate, and the attempts are reported. *)
Miss(r) ==
  /\ pc[r] = "next"
  /\ left[r] = 0
  /\ Goto(r, "failed")
  /\ UNCHANGED <<poolVars, ready, syncVars, ask, cand, model, tried, left, attempts>>

Request(r) ==
  \/ SelectFirst(r)
  \/ Answered(r) \/ NotAnswered(r)
  \/ DrawNext(r) \/ Miss(r)

-----------------------------------------------------------------------------
(* syncLocalBackendNode, once a second. *)

(* BackgroundReady is read under the scheduler's lock and compared. *)
SyncRead ==
  /\ ~ syncing
  /\ ready # inPool
  /\ inPool' = ready
  /\ syncing' = TRUE
  /\ UNCHANGED <<poolVars, ready, reqVars>>

ReadAgainBug ==
  /\ syncing
  /\ \A r \in Requests : pc[r] # "next"
  /\ pool' = IF ready THEN Backends ELSE Static
  /\ cursor' = [route \in Pools |-> 0]
  /\ syncing' = FALSE
  /\ UNCHANGED <<ready, inPool, reqVars>>

(* Update: new balancers from the static backends and the local node.  The
   write lock waits for every selectExcluding under way. *)
SyncUpdate ==
  /\ syncing
  /\ \A r \in Requests : pc[r] # "next"
  /\ pool' = IF inPool THEN Backends ELSE Static
  /\ cursor' = [route \in Pools |-> 0]
  /\ syncing' = FALSE
  /\ UNCHANGED <<ready, inPool, reqVars>>

Sync == SyncRead \/ SyncUpdate

(* The scheduler: background gets ready, or is not any more. *)
ReadyChanges ==
  /\ ready' = ~ ready
  /\ UNCHANGED <<poolVars, syncVars, reqVars>>

Next == (\E r \in Requests : Request(r)) \/ Sync \/ ReadyChanges

Spec == Init /\ [][Next]_vars

(* Every goroutine that can run does; every second the node is synchronised,
   and the pool's lock is fair to a writer that waits. *)
FairSpec ==
  /\ Spec
  /\ \A r \in Requests : WF_vars(Request(r))
  /\ WF_vars(Sync)

-----------------------------------------------------------------------------
TypeOK ==
  /\ pool \in {Static, Backends}
  /\ cursor \in [Pools -> 0 .. Len(Order)]
  /\ ready \in BOOLEAN
  /\ inPool \in BOOLEAN
  /\ syncing \in BOOLEAN
  /\ pc \in [Requests -> {"select", "forward", "next", "done", "failed", "rejected"}]
  /\ DOMAIN ask = Requests /\ DOMAIN cand = Requests /\ DOMAIN model = Requests
  /\ \A r \in Requests : ask[r] \in Asks[r]
  /\ \A r \in Requests : cand[r] \in tried[r] \/ pc[r] \in {"select", "rejected"}
  /\ tried \in [Requests -> SUBSET (Backends \cup ValidURLs)]
  /\ left \in [Requests -> Nat]
  /\ attempts \in [Requests -> Seq(Backends \cup ValidURLs)]

(* "All backends failed" is said only when all have been tried, although the
   draws skip tried ones and the pool may have changed between two tries.
   balancer.go:248 says so of every strategy. *)
MissMeansTried ==
  [][\A r \in Requests : pc[r] = "next" /\ pc'[r] = "failed"
       => Members(Route(r)) \subseteq tried[r]]_vars

(* A request that the first of the matching rules sends to a pool is sent to no
   backend without the pool's tag, however often it fails over while the pool
   changes, nor to a URL of its own; without a rule, a URL of its own is asked
   once and nobody else (the comment at proxy.go:365). *)
Allowed(a) ==
  IF Hits(a) # {} THEN Carriers(EffectiveRules[Min(Hits(a))].pool)
  ELSE IF AllowDynamic /\ Override(a) # NoText THEN {Override(a)}
  ELSE Backends

StaysWhereRouted == \A r \in Requests : tried[r] \subseteq Allowed(ask[r])

(* The report of a request that has failed names every backend it was sent to,
   each exactly once: none is asked twice, although draws repeat and the pool is
   built anew in between, and none is left out. *)
ReportIsComplete ==
  \A r \in Requests : pc[r] = "failed" =>
    /\ Range(attempts[r]) = tried[r]
    /\ IsInjective(attempts[r])

(* A backend is asked for its own model, and one that names none for the model
   the client asked for, not for that of the backend tried before. *)
ModelIsBackends ==
  \A r \in Requests : pc[r] = "forward" =>
    \/ cand[r] \in Backends /\ model[r] = Node[cand[r]].model
    \/ model[r] = ask[r].model /\ (cand[r] \notin Backends \/ Node[cand[r]].model = NoText
                                  \/ ~ ask[r].asJSON)

(* Every request ends, also when every backend fails and the local node comes
   and goes all the time. *)
RequestsEnd ==
  \A r \in Requests : <>(pc[r] \in {"done", "failed", "rejected"})

(* The local node is in the pool once background stays ready, and out of it once
   it stays away. *)
PoolFollows ==
  /\ <>[]ready => <>[](Local \in pool)
  /\ <>[](~ ready) => <>[](Local \notin pool)
=============================================================================
