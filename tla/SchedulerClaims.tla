--------------------------- MODULE SchedulerClaims ---------------------------
(***************************************************************************)
(* What the comments of scheduler.go and the README say of the scheduler   *)
(* and the code does not keep: TLC refutes each of them.                   *)
(***************************************************************************)
EXTENDS Scheduler

(* scheduler.go:246-247: switchMu serialises the switches so that they do not
   overwrite each other's readyCh, "waiters block forever".  The channel a
   request waits for is the current one, or closed. *)
NoOrphanedWaiter ==
  \A r \in Requests : pc[r] = "wait" => chan[r] \in closed \cup {readyCh}

(* scheduler.go:332-333: closing must not be lost, "waiters block forever".
   Once no switch and no reconcile is at work, ready means the current
   channel is closed. *)
ReadyIsSignalled ==
  readyOK /\ switchMu = Free /\ pc["loop"] # "recClose" => readyCh \in closed

(* scheduler.go:446-447: an unexpected exit clears the ready mark. *)
ExitClearsReady == cmd # Nil /\ readyOK => proc[cmd] # "reaped"

(* scheduler.go:125-126: the channel EnsureCoding returns is closed only if
   the coding process is available. *)
ClosedMeansAvailable ==
  [][\A r \in Requests : pc[r] = "ensure" /\ pc'[r] = "wait" /\ chan'[r] \in closed
       => readyOK]_vars

(* README.md:60: a background process whose probe fails leaves the pool. *)
HungIsEvicted ==
  (mode = "background" /\ readyOK /\ cmd # Nil /\ proc[cmd] = "hung")
    ~> ~(mode = "background" /\ readyOK)

(* scheduler.go:181-182: the key injected is that of the process forwarded to. *)
KeyMatchesBase ==
  \A r \in Requests : pc[r] \in {"count", "inflight"} => key[r] = base[r]

(* README.md:51: coding requests go to the coding process. *)
CodingToCoding == \A r \in Requests : base[r] # "background"

(* README.md:59: the coding process is stopped for background only when the
   last coding request is a lease ago. *)
StoppedOnlyWhenIdle ==
  [][mode = "coding" /\ pc["loop"] = "kill" /\ pc'["loop"] = "killWait"
       => lastCodingAt = "expired"]_vars

(* scheduler.go:167-168: ActiveBaseURL gives an address only while a process
   is ready; readyOK means that one is there to serve it. *)
ReadyHasProcess ==
  readyOK /\ mode \in Managed =>
    \E g \in Switches : Running(g) /\ modeOf[g] = mode

(* README.md:61: the requests in flight are drained before a process is
   stopped (as long as drain_timeout does not pass). *)
DrainedBeforeKill ==
  \A a \in Switchers, r \in Requests :
    pc[a] = "kill" /\ pc[r] = "inflight" => base[r] # modeOf[victim[a]]

(* README.md:61: a process is killed by force only once kill_timeout has
   passed. *)
ForcedOnlyAfterTimeout ==
  [][\A g \in Switches :
       Running(g) /\ "killTimeout" \notin Events => proc'[g] # "killed"]_vars

(* scheduler.go:99, main.go:161-163: shutting down stops the child process. *)
NothingLeftRunning ==
  pc["main"] = "exited" => \A g \in Switches : ~Running(g)
==============================================================================
