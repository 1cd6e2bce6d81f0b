------------------------------ MODULE Scheduler ------------------------------
(***************************************************************************)
(* The model-process scheduler (internal/scheduler/scheduler.go) together  *)
(* with the goroutines that call it: the coding requests of                *)
(* proxy.go/selectBackend, the start and loop goroutines of main.go and    *)
(* main itself, which shuts the proxy down.                                *)
(*                                                                         *)
(* Every action is one critical section of s.mu, or one step the code      *)
(* takes outside it: s.mu is therefore not a variable, while switchMu,     *)
(* which ensureTarget holds across many steps, is.  The n-th switch of     *)
(* mode makes a ready channel and starts a process, both named n; 0 is     *)
(* nil.  A goroutine that returns from ensureTarget releases switchMu in   *)
(* its last step (the deferred Unlock).                                    *)
(***************************************************************************)
EXTENDS Naturals, FiniteSets

CONSTANTS
  Requests,     \* coding requests; each one is a goroutine of the server
  MaxSwitches,  \* bound: ensureTarget installs at most this many channels
  Managed,      \* the modes whose command is configured (command != "")
  SharedPort,   \* both readiness_url name the same host and port
  Events        \* what the environment may do, a subset of EventKinds

Modes == {"coding", "background"}

EventKinds ==
  {"idle",            \* the lease passes since the last coding request
   "lateStart",       \* a request arrives before the start goroutine has run
   "disconnect",      \* a client goes away: its request context is done
   "startFail",       \* cmd.Start returns an error
   "startupTimeout",  \* switch.startup_timeout passes before a probe succeeds
   "drainTimeout",    \* switch.drain_timeout passes with requests in flight
   "killTimeout",     \* switch.kill_timeout passes before the process is gone
   "crash",           \* a model process exits on its own
   "hang",            \* a model process stops answering but does not exit
   "signal",          \* SIGINT or SIGTERM reaches the proxy
   "closeTimeout"}    \* the 60s of server.Shutdown pass with requests running

Nil  == 0
Free == "free"

ASSUME NamesAssumption == {"start", "loop", "main", Free} \cap Requests = {}
ASSUME BoundAssumption == MaxSwitches \in Nat \ {0}
ASSUME ConfigAssumption == /\ Managed \subseteq Modes
                           /\ SharedPort \in BOOLEAN
                           /\ Events \subseteq EventKinds

Switchers  == Requests \cup {"start", "loop"}   \* the callers of ensureTarget
Goroutines == Switchers \cup {"main"}
Switches   == 1 .. MaxSwitches

VARIABLES
  mode,          \* s.mode
  readyOK,       \* s.readyOK
  readyCh,       \* s.readyCh
  readyChClosed, \* s.readyChClosed
  cmd,           \* s.cmd
  lastCodingAt,  \* s.lastCodingAt against the lease: "zero", "fresh", "expired"
  switchMu,      \* the holder of s.switchMu, or Free
  closed,        \* the channels that are closed
  proc,          \* the process of each switch
  modeOf,        \* the mode each live process serves
  pc,            \* where each goroutine is
  chan,          \* the ready channel a goroutine holds in a local variable
  victim,        \* the process a goroutine has taken from s.cmd to kill
  recMode,       \* the local "mode" of reconcileReady
  base,          \* the mode whose URL the request is forwarded to
  key            \* the mode whose API key is injected, "none" if no key is

schedVars == <<mode, readyOK, readyCh, readyChClosed, cmd, lastCodingAt>>
procVars  == <<proc, modeOf>>
localVars == <<chan, victim, recMode>>
reqVars   == <<base, key>>
vars      == <<schedVars, switchMu, closed, procVars, pc, localVars, reqVars>>

-----------------------------------------------------------------------------
(* The steps of a goroutine inside ensureTarget while it holds switchMu, then
   those of each kind of goroutine outside it. *)
SwitchSteps == {"drain", "stop", "kill", "killWait", "install", "exec",
                "failClose", "publish", "await", "setReady", "closeReady",
                "setFailed"}

RequestSteps == {"arrive", "ensure", "lock", "wait", "readBase", "touch",
                 "readKey", "count", "inflight", "done", "failed"}
LoopSteps == {"lock", "idle", "probe", "apply", "recClose", "done"}
MainSteps == {"serving", "closing", "shutdown", "killing", "exited"}
Steps     == SwitchSteps \cup RequestSteps \cup LoopSteps \cup MainSteps

RequestEnds == {"done", "failed"}

(* "killed": SIGKILL was sent, the process has not gone yet and answers no
   more; "dead": it has exited; "reaped": its reap goroutine has seen that. *)
ProcStates == {"none", "loading", "up", "hung", "killed", "dead", "reaped"}

TypeOK ==
  /\ mode \in Modes \cup {"none"}
  /\ readyOK \in BOOLEAN
  /\ readyCh \in 0 .. MaxSwitches
  /\ (mode = "none") <=> (readyCh = Nil)
  /\ readyChClosed \in BOOLEAN
  /\ cmd \in 0 .. MaxSwitches
  /\ lastCodingAt \in {"zero", "fresh", "expired"}
  /\ switchMu \in Switchers \cup {Free}
  /\ closed \subseteq Switches
  /\ proc \in [Switches -> ProcStates]
  /\ modeOf \in [Switches -> Modes \cup {"none"}]
  /\ pc \in [Goroutines -> Steps]
  /\ chan \in [Switchers -> 0 .. MaxSwitches]
  /\ victim \in [Goroutines -> 0 .. MaxSwitches]
  /\ recMode \in Modes \cup {"none"}
  /\ base \in [Requests -> Modes \cup {"none"}]
  /\ key \in [Requests -> Modes \cup {"none"}]

Init ==
  /\ mode = "none"
  /\ readyOK = FALSE
  /\ readyCh = Nil
  /\ readyChClosed = FALSE
  /\ cmd = Nil
  /\ lastCodingAt = "zero"
  /\ switchMu = Free
  /\ closed = {}
  /\ proc = [g \in Switches |-> "none"]
  /\ modeOf = [g \in Switches |-> "none"]
  /\ pc = [a \in Goroutines |-> CASE a \in Requests -> "arrive"
                                  [] a = "start" -> "lock"
                                  [] a = "loop" -> "idle"
                                  [] OTHER -> "serving"]
  /\ chan = [a \in Switchers |-> Nil]
  /\ victim = [a \in Goroutines |-> Nil]
  /\ recMode = "none"
  /\ base = [r \in Requests |-> "none"]
  /\ key = [r \in Requests |-> "none"]

-----------------------------------------------------------------------------
(* Processes and probes. *)
Running(g) == proc[g] \in {"loading", "up", "hung"}
Gone(g)    == proc[g] \in {"dead", "reaped"}

(* Some process that is up serves the address readiness_url of mode m names;
   without a command that address belongs to a server outside the proxy,
   which may or may not answer. *)
Answers(m) ==
  \/ m \notin Managed
  \/ \E g \in Switches : proc[g] = "up" /\ (SharedPort \/ modeOf[g] = m)

Target(a) == IF a \in Requests THEN "coding" ELSE "background"

(* The context ensureTarget waits under may be done: the request's when its
   client goes away, the signal context of main for Start; Loop passes
   context.Background().  It is looked at here and in GiveUp only. *)
CtxDone(a) == \/ a \in Requests /\ "disconnect" \in Events
              \/ a = "start" /\ pc["main"] # "serving"

Step(a, from, to) == pc[a] = from /\ pc' = [pc EXCEPT ![a] = to]

InFlight == {r \in Requests : pc[r] = "inflight"}

(* Variants of definitions named "..Bug" are the seeded faults the properties
   are tried against; nothing below uses them. *)
MarkAnyBug(ch) ==    \* any channel is closed, also one from before a switch
  IF ch # Nil /\ ~readyChClosed
    THEN readyChClosed' = TRUE /\ closed' = closed \cup {ch}
    ELSE UNCHANGED <<readyChClosed, closed>>

(* close(ch), but only of the current channel and only once. *)
MarkReadyClosed(ch) ==
  IF ch # Nil /\ readyCh = ch /\ ~readyChClosed
    THEN readyChClosed' = TRUE /\ closed' = closed \cup {ch}
    ELSE UNCHANGED <<readyChClosed, closed>>

(* Process.Kill: no effect on a process that is killed or gone already. *)
SendKill(g) == proc' = IF Running(g) THEN [proc EXCEPT ![g] = "killed"] ELSE proc

-----------------------------------------------------------------------------
(* ensureTarget(target) run by goroutine a. *)

(* What the caller does once ensureTarget returns: a request waits for the
   channel ch or answers the error, the loop drops the result, and an error
   of Start is Fatalf: the whole proxy exits. *)
AfterSwitch(a, ok) ==
  IF a \in Requests THEN IF ok THEN "wait" ELSE "failed"
  ELSE IF a = "loop" THEN "idle" ELSE "done"

Return(a, from, ch, ok) ==
  /\ pc[a] = from
  /\ pc' = [pc EXCEPT ![a] = AfterSwitch(a, ok),
                      !["main"] = IF a = "start" /\ ~ok THEN "exited" ELSE @]
  /\ chan' = [chan EXCEPT ![a] = IF a \in Requests /\ ok THEN ch ELSE Nil]
  /\ switchMu' = Free

NoLockBug(a) ==      \* switchMu is not taken before the second check
  /\ ~(mode = Target(a) /\ readyOK)
  /\ Step(a, "lock", "drain")
  /\ switchMu' = a
  /\ UNCHANGED <<schedVars, closed, procVars, localVars, reqVars>>

AcquireSwitch(a) ==
  /\ switchMu = Free
  /\ ~(mode = Target(a) /\ readyOK)
  /\ Step(a, "lock", "drain")
  /\ switchMu' = a
  /\ UNCHANGED <<schedVars, closed, procVars, localVars, reqVars>>

(* The second check under switchMu: another switch has done the work. *)
AlreadySwitched(a) ==
  /\ switchMu = Free
  /\ mode = Target(a) /\ readyOK
  /\ Return(a, "lock", readyCh, TRUE)
  /\ UNCHANGED <<schedVars, closed, procVars, victim, recMode, reqVars>>

Drain(a) ==
  /\ InFlight = {} \/ "drainTimeout" \in Events
  /\ Step(a, "drain", "stop")
  /\ UNCHANGED <<schedVars, switchMu, closed, procVars, localVars, reqVars>>

StopReadyOnlyBug(a) ==   \* a process that is not ready is not stopped
  /\ Step(a, "stop", IF cmd = Nil \/ ~readyOK THEN "install" ELSE "kill")
  /\ victim' = [victim EXCEPT ![a] = cmd]
  /\ cmd' = Nil
  /\ UNCHANGED <<mode, readyOK, readyCh, readyChClosed, lastCodingAt, switchMu,
                 closed, procVars, chan, recMode, reqVars>>

(* stopProcess, its critical section. *)
TakeProcess(a) ==
  /\ Step(a, "stop", IF cmd = Nil THEN "install" ELSE "kill")
  /\ victim' = [victim EXCEPT ![a] = cmd]
  /\ cmd' = Nil
  /\ UNCHANGED <<mode, readyOK, readyCh, readyChClosed, lastCodingAt, switchMu,
                 closed, procVars, chan, recMode, reqVars>>

WaitOnlyBug(a) ==    \* Process.Wait without Process.Kill
  /\ Step(a, "kill", "killWait")
  /\ UNCHANGED <<schedVars, switchMu, closed, procVars, localVars, reqVars>>

Kill(a) ==
  /\ Step(a, "kill", "killWait")
  /\ SendKill(victim[a])
  /\ UNCHANGED <<schedVars, switchMu, closed, modeOf, localVars, reqVars>>

(* Process.Wait returns, or kill_timeout passes first. *)
KillDone(a) ==
  /\ Step(a, "killWait", "install")
  /\ Gone(victim[a]) \/ "killTimeout" \in Events
  /\ victim' = [victim EXCEPT ![a] = Nil]
  /\ UNCHANGED <<schedVars, switchMu, closed, procVars, chan, recMode, reqVars>>

InstallKeepsModeBug(a) ==    \* the mode is left for the success path to set
  /\ readyCh < MaxSwitches
  /\ Step(a, "install", IF Target(a) \in Managed THEN "exec" ELSE "await")
  /\ readyOK' = FALSE
  /\ readyCh' = readyCh + 1
  /\ readyChClosed' = FALSE
  /\ chan' = [chan EXCEPT ![a] = readyCh + 1]
  /\ UNCHANGED <<mode, cmd, lastCodingAt, switchMu, closed, procVars, victim,
                 recMode, reqVars>>

(* The new mode and its ready channel. *)
Install(a) ==
  /\ readyCh < MaxSwitches
  /\ Step(a, "install", IF Target(a) \in Managed THEN "exec" ELSE "await")
  /\ mode' = Target(a)
  /\ readyOK' = FALSE
  /\ readyCh' = readyCh + 1
  /\ readyChClosed' = FALSE
  /\ chan' = [chan EXCEPT ![a] = readyCh + 1]
  /\ UNCHANGED <<cmd, lastCodingAt, switchMu, closed, procVars, victim,
                 recMode, reqVars>>

StartCmd(a) ==
  /\ Step(a, "exec", "publish")
  /\ proc' = [proc EXCEPT ![chan[a]] = "loading"]
  /\ modeOf' = [modeOf EXCEPT ![chan[a]] = Target(a)]
  /\ UNCHANGED <<schedVars, switchMu, closed, localVars, reqVars>>

StartCmdFails(a) ==
  /\ "startFail" \in Events
  /\ Step(a, "exec", "failClose")
  /\ UNCHANGED <<schedVars, switchMu, closed, procVars, localVars, reqVars>>

FailClose(a) ==
  /\ MarkReadyClosed(chan[a])
  /\ Return(a, "failClose", chan[a], FALSE)
  /\ UNCHANGED <<mode, readyOK, readyCh, cmd, lastCodingAt, procVars, victim, recMode, reqVars>>

(* s.cmd = cmd; go s.reap(cmd) *)
PublishCmd(a) ==
  /\ Step(a, "publish", "await")
  /\ cmd' = chan[a]
  /\ UNCHANGED <<mode, readyOK, readyCh, readyChClosed, lastCodingAt, switchMu,
                 closed, procVars, localVars, reqVars>>

(* waitReady: a probe of the target's readiness_url succeeds ... *)
AwaitOK(a) ==
  /\ Answers(Target(a))
  /\ Step(a, "await", "setReady")
  /\ UNCHANGED <<schedVars, switchMu, closed, procVars, localVars, reqVars>>

(* ... or its context ends: the caller's is done or startup_timeout is over. *)
AwaitFails(a) ==
  /\ CtxDone(a) \/ "startupTimeout" \in Events
  /\ Step(a, "await", "setFailed")
  /\ UNCHANGED <<schedVars, switchMu, closed, procVars, localVars, reqVars>>

SetReady(a) ==
  /\ Step(a, "setReady", "closeReady")
  /\ readyOK' = TRUE
  /\ lastCodingAt' = IF Target(a) = "coding" THEN "fresh" ELSE lastCodingAt
  /\ UNCHANGED <<mode, readyCh, readyChClosed, cmd, switchMu, closed, procVars,
                 localVars, reqVars>>

ReadySilentBug(a) ==     \* readyOK is set and the channel stays open
  /\ Return(a, "closeReady", chan[a], TRUE)
  /\ UNCHANGED <<schedVars, closed, procVars, victim, recMode, reqVars>>

CloseReady(a) ==
  /\ MarkReadyClosed(chan[a])
  /\ Return(a, "closeReady", chan[a], TRUE)
  /\ UNCHANGED <<mode, readyOK, readyCh, cmd, lastCodingAt, procVars, victim, recMode, reqVars>>

ForgetProcessBug(a) ==   \* a process that is not ready in time is forgotten
  /\ Return(a, "setFailed", chan[a], FALSE)
  /\ readyOK' = FALSE
  /\ cmd' = Nil
  /\ UNCHANGED <<mode, readyCh, readyChClosed, lastCodingAt, closed, procVars,
                 victim, recMode, reqVars>>

(* The channel stays open: reconcileReady is to close it later. *)
SetFailed(a) ==
  /\ Return(a, "setFailed", chan[a], FALSE)
  /\ readyOK' = FALSE
  /\ UNCHANGED <<mode, readyCh, readyChClosed, cmd, lastCodingAt, closed, procVars,
                 victim, recMode, reqVars>>

EnsureTarget(a) ==
  \/ AcquireSwitch(a) \/ AlreadySwitched(a) \/ Drain(a) \/ TakeProcess(a)
  \/ Kill(a) \/ KillDone(a) \/ Install(a) \/ StartCmd(a) \/ StartCmdFails(a)
  \/ FailClose(a) \/ PublishCmd(a) \/ AwaitOK(a) \/ AwaitFails(a)
  \/ SetReady(a) \/ CloseReady(a) \/ SetFailed(a)

-----------------------------------------------------------------------------
(* reconcileReady and the lease check: the loop goroutine. *)

(* Its locals go out of scope. *)
ReconcileReturn ==
  /\ chan' = [chan EXCEPT !["loop"] = Nil]
  /\ recMode' = "none"

(* The snapshot; without a process, or with a ready one, nothing is done. *)
ReconcileStart ==
  /\ pc["loop"] = "idle"
  /\ IF readyOK \/ cmd = Nil
       THEN UNCHANGED <<pc, chan, recMode>>
       ELSE /\ Step("loop", "idle", "probe")
            /\ recMode' = mode
            /\ chan' = [chan EXCEPT !["loop"] = readyCh]
  /\ UNCHANGED <<schedVars, switchMu, closed, procVars, victim, reqVars>>

ReconcileProbeOK ==
  /\ Answers(recMode)
  /\ Step("loop", "probe", "apply")
  /\ UNCHANGED <<schedVars, switchMu, closed, procVars, localVars, reqVars>>

ReconcileProbeFails ==
  /\ Step("loop", "probe", "idle")
  /\ ReconcileReturn
  /\ UNCHANGED <<schedVars, switchMu, closed, procVars, victim, reqVars>>

(* Only readyOK is looked at again; mode, cmd and readyCh are not. *)
ReconcileApply ==
  /\ IF readyOK THEN Step("loop", "apply", "idle") /\ ReconcileReturn
                ELSE Step("loop", "apply", "recClose") /\ UNCHANGED <<chan, recMode>>
  /\ readyOK' = TRUE
  /\ UNCHANGED <<mode, readyCh, readyChClosed, cmd, lastCodingAt, switchMu, closed,
                 procVars, victim, reqVars>>

ReconcileClose ==
  /\ MarkReadyClosed(chan["loop"])
  /\ Step("loop", "recClose", "idle")
  /\ ReconcileReturn
  /\ UNCHANGED <<mode, readyOK, readyCh, cmd, lastCodingAt, switchMu, procVars,
                 victim, reqVars>>

LeaseZeroBug ==      \* lastCodingAt.IsZero() with the wrong sign
  /\ mode = "coding" /\ lastCodingAt = "zero"
  /\ Step("loop", "idle", "lock")
  /\ UNCHANGED <<schedVars, switchMu, closed, procVars, localVars, reqVars>>

(* The lease tick: the decision is taken under s.mu, ensureTarget comes later. *)
LeaseTick ==
  /\ mode = "coding" /\ lastCodingAt = "expired"
  /\ Step("loop", "idle", "lock")
  /\ UNCHANGED <<schedVars, switchMu, closed, procVars, localVars, reqVars>>

LoopDone ==
  /\ pc["main"] # "serving"
  /\ Step("loop", "idle", "done")
  /\ UNCHANGED <<schedVars, switchMu, closed, procVars, localVars, reqVars>>

Loop == \/ ReconcileStart \/ ReconcileProbeOK \/ ReconcileProbeFails
        \/ ReconcileApply \/ ReconcileClose \/ LeaseTick \/ LoopDone

(* reap(cmd): a goroutine per process, spawned when s.cmd is set. *)
Reap(g) ==
  /\ proc[g] = "dead"
  /\ ~\E a \in Switchers : pc[a] = "publish" /\ chan[a] = g
  /\ proc' = [proc EXCEPT ![g] = "reaped"]
  /\ readyOK' = (readyOK /\ cmd # g)
  /\ UNCHANGED <<mode, readyCh, readyChClosed, cmd, lastCodingAt, switchMu, closed,
                 modeOf, pc, localVars, reqVars>>

-----------------------------------------------------------------------------
(* A coding request: selectBackend, then the forwarding in handleProxy. *)

(* TouchCoding; the listener takes no request once main shuts down. *)
Arrive(r) ==
  /\ pc["main"] = "serving"
  /\ pc["start"] # "lock" \/ "lateStart" \in Events
  /\ Step(r, "arrive", "ensure")
  /\ lastCodingAt' = "fresh"
  /\ UNCHANGED <<mode, readyOK, readyCh, readyChClosed, cmd, switchMu, closed,
                 procVars, localVars, reqVars>>

EnsureCoding(r) ==
  /\ IF mode = "coding" /\ (readyOK \/ readyCh # Nil)
       THEN /\ Step(r, "ensure", "wait")
            /\ chan' = [chan EXCEPT ![r] = readyCh]
       ELSE /\ Step(r, "ensure", "lock")
            /\ UNCHANGED chan
  /\ UNCHANGED <<schedVars, switchMu, closed, procVars, victim, recMode, reqVars>>

(* select { case <-ready: case <-ctx.Done(): } *)
Released(r) ==
  /\ chan[r] \in closed
  /\ Step(r, "wait", "readBase")
  /\ chan' = [chan EXCEPT ![r] = Nil]
  /\ UNCHANGED <<schedVars, switchMu, closed, procVars, victim, recMode, reqVars>>

GiveUp(r) ==
  /\ CtxDone(r)
  /\ Step(r, "wait", "failed")
  /\ chan' = [chan EXCEPT ![r] = Nil]
  /\ UNCHANGED <<schedVars, switchMu, closed, procVars, victim, recMode, reqVars>>

(* ActiveBaseURL; the empty string is answered "coding model not ready". *)
ReadBase(r) ==
  /\ Step(r, "readBase", IF readyOK THEN "touch" ELSE "failed")
  /\ base' = [base EXCEPT ![r] = IF readyOK THEN mode ELSE "none"]
  /\ UNCHANGED <<schedVars, switchMu, closed, procVars, localVars, key>>

TouchAgain(r) ==
  /\ Step(r, "touch", "readKey")
  /\ lastCodingAt' = "fresh"
  /\ UNCHANGED <<mode, readyOK, readyCh, readyChClosed, cmd, switchMu, closed,
                 procVars, localVars, reqVars>>

(* schedulerForwardBC, ActiveAPIKey: a second critical section. *)
ReadKey(r) ==
  /\ Step(r, "readKey", "count")
  /\ key' = [key EXCEPT ![r] = IF readyOK THEN mode ELSE "none"]
  /\ UNCHANGED <<schedVars, switchMu, closed, procVars, localVars, base>>

(* s.active.Add(1), the count drain looks at; Finish is its deferred Add(-1). *)
Count(r) ==
  /\ Step(r, "count", "inflight")
  /\ UNCHANGED <<schedVars, switchMu, closed, procVars, localVars, reqVars>>

(* The body is too large or cannot be read: answered without being counted. *)
RejectBody(r) ==
  /\ Step(r, "count", "failed")
  /\ base' = [base EXCEPT ![r] = "none"]
  /\ key' = [key EXCEPT ![r] = "none"]
  /\ UNCHANGED <<schedVars, switchMu, closed, procVars, localVars>>

Finish(r) ==
  /\ Step(r, "inflight", "done")
  /\ base' = [base EXCEPT ![r] = "none"]
  /\ key' = [key EXCEPT ![r] = "none"]
  /\ UNCHANGED <<schedVars, switchMu, closed, procVars, localVars>>

Request(r) == \/ Arrive(r) \/ EnsureCoding(r) \/ Released(r)
              \/ ReadBase(r) \/ TouchAgain(r) \/ ReadKey(r) \/ Count(r)
              \/ RejectBody(r) \/ Finish(r)

-----------------------------------------------------------------------------
(* main: the shutdown sequence. *)
Signal ==
  /\ "signal" \in Events
  /\ Step("main", "serving", "closing")
  /\ UNCHANGED <<schedVars, switchMu, closed, procVars, localVars, reqVars>>

(* server.Shutdown: every handler has returned, or 60s have passed. *)
ServerClosed ==
  /\ \/ \A r \in Requests : pc[r] \in RequestEnds \cup {"arrive"}
     \/ "closeTimeout" \in Events
  /\ Step("main", "closing", "shutdown")
  /\ UNCHANGED <<schedVars, switchMu, closed, procVars, localVars, reqVars>>

(* Scheduler.Shutdown: s.cmd is read under s.mu and killed after it. *)
ShutdownTake ==
  /\ Step("main", "shutdown", IF cmd = Nil THEN "exited" ELSE "killing")
  /\ victim' = [victim EXCEPT !["main"] = cmd]
  /\ UNCHANGED <<schedVars, switchMu, closed, procVars, chan, recMode, reqVars>>

ShutdownKill ==
  /\ Step("main", "killing", "exited")
  /\ SendKill(victim["main"])
  /\ UNCHANGED <<schedVars, switchMu, closed, modeOf, localVars, reqVars>>

Main == ServerClosed \/ ShutdownTake \/ ShutdownKill

-----------------------------------------------------------------------------
(* The environment: the processes, the clients and the clock. *)
ProcStep(g, from, to) ==
  /\ proc[g] \in from
  /\ proc' = [proc EXCEPT ![g] = to]
  /\ UNCHANGED <<schedVars, switchMu, closed, pc, localVars, reqVars>>

ModelLoaded(g) == ProcStep(g, {"loading"}, "up") /\ UNCHANGED modeOf
Hang(g) == "hang" \in Events /\ ProcStep(g, {"up"}, "hung") /\ UNCHANGED modeOf
Exit(g) ==
  /\ \/ ProcStep(g, {"killed"}, "dead")
     \/ "crash" \in Events /\ ProcStep(g, {"loading", "up", "hung"}, "dead")
  /\ modeOf' = [modeOf EXCEPT ![g] = "none"]

LeaseElapses ==
  /\ "idle" \in Events
  /\ lastCodingAt = "fresh"
  /\ lastCodingAt' = "expired"
  /\ UNCHANGED <<mode, readyOK, readyCh, readyChClosed, cmd, switchMu, closed,
                 procVars, pc, localVars, reqVars>>

Environment == \/ \E g \in Switches : ModelLoaded(g) \/ Hang(g) \/ Exit(g)
               \/ \E r \in Requests : GiveUp(r)
               \/ LeaseElapses
               \/ Signal

Next ==
  /\ pc["main"] # "exited"     \* the exit of the proxy ends every goroutine
  /\ \/ \E a \in Switchers : EnsureTarget(a)
     \/ \E r \in Requests : Request(r)
     \/ \E g \in Switches : Reap(g)
     \/ Loop
     \/ Main
     \/ Environment

Spec == Init /\ [][Next]_vars

-----------------------------------------------------------------------------
(* Fairness.  A goroutine that can run does, and a mutex that stays free is
   taken by one of those that want it; the lease ticker is not passed over for
   the other one; a server that is up is not found down by every probe (SF); a
   model that loads gets up, a killed process exits, and the lease elapses.
   Events are never obliged to happen. *)
SwitchProgress(a) ==
  AcquireSwitch(a) \/ AlreadySwitched(a) \/ Drain(a) \/ TakeProcess(a) \/ Kill(a)
  \/ KillDone(a) \/ Install(a) \/ StartCmd(a) \/ FailClose(a) \/ PublishCmd(a)
  \/ AwaitOK(a) \/ SetReady(a) \/ CloseReady(a) \/ SetFailed(a)

LoopProgress == ReconcileStart \/ ReconcileProbeFails \/ ReconcileApply \/ ReconcileClose

RequestProgress(r) == EnsureCoding(r) \/ Released(r) \/ ReadBase(r) \/ TouchAgain(r)
                      \/ ReadKey(r) \/ Count(r) \/ Finish(r)

ProcessProgress(g) == ModelLoaded(g) \/ (proc[g] = "killed" /\ Exit(g)) \/ Reap(g)

Alive == pc["main"] # "exited"
FairStep(A) == Alive /\ A

Fairness ==
  /\ \A r \in Requests : WF_vars(FairStep(RequestProgress(r) \/ SwitchProgress(r)))
  /\ WF_vars(FairStep(SwitchProgress("start")))
  /\ WF_vars(FairStep(LoopProgress \/ SwitchProgress("loop")))
  /\ WF_vars(FairStep(LeaseTick))
  /\ SF_vars(FairStep(ReconcileProbeOK))
  /\ \A g \in Switches : WF_vars(FairStep(ProcessProgress(g)))
  /\ WF_vars(FairStep(LeaseElapses))
  /\ WF_vars(FairStep(Main))

FairSpec == Spec /\ Fairness

-----------------------------------------------------------------------------
(* Safety. *)

Loaded(g) == Running(g) \/ proc[g] = "killed"

(* A process somebody answers for: s.cmd, the one a switch has taken out of
   s.cmd and not killed yet, or the one it has started and not published. *)
Owned(g) == \/ g = cmd
            \/ \E a \in Switchers : \/ pc[a] \in {"kill", "killWait"} /\ victim[a] = g
                                    \/ pc[a] = "publish" /\ chan[a] = g

(* No model process is leaked: stopProcess, Shutdown and the failing branches
   of ensureTarget never drop the last reference to a running child, nor,
   unless kill_timeout passes, to one that is still exiting. *)
ProcessOwned ==
  \A g \in Switches :
    Loaded(g) => Owned(g) \/ ("killTimeout" \in Events /\ proc[g] = "killed")

(* The two models are never in memory together: a switch starts the new
   process only after the old one has exited, or has been killed and
   kill_timeout has passed (stopProcess before cmd.Start). *)
OneModel ==
  \A g, h \in Switches : Loaded(g) /\ Loaded(h) /\ g # h =>
    "killTimeout" \in Events /\ "killed" \in {proc[g], proc[h]}

(* The process that runs serves the mode whose address and key are handed out,
   from its start to the end of a switch away from it, and through a crash
   (s.mode is set after stopProcess and before cmd.Start). *)
RunningIsActive == \A g \in Switches : Running(g) => modeOf[g] = mode

(* readyChClosed says whether the current channel is closed: a stale flag
   would swallow the close of a new channel, or let one be closed twice,
   which panics (markReadyClosed, and the reset in ensureTarget). *)
ChannelFlag == readyChClosed <=> readyCh # Nil /\ readyCh \in closed

(* The mode changes, and with it the URL and the API key requests are sent
   with, only while no model process is running. *)
ModeChangesUnloaded ==
  [][mode' # mode => \A g \in Switches : ~Running(g)]_vars

(* A process a switch has in its hands and not in s.cmd: taken out and not
   killed yet, or started and not stored yet. *)
InHand(g) ==
  \E a \in Switchers : \/ pc[a] = "kill" /\ victim[a] = g
                       \/ pc[a] = "publish" /\ chan[a] = g

(* Whatever ends the proxy, a model process it leaves running is one of
   three: s.cmd, when the failing Start ends it (Fatalf, without a Shutdown);
   one a switch has in its hands at that moment; or one that a switch has
   stored since Shutdown read s.cmd.  In particular Shutdown kills what it
   finds, and leaves nothing when no switch is under way. *)
CleanExit ==
  [][pc["main"] # "exited" /\ pc'["main"] = "exited" =>
       \A g \in Switches : Running(g)' =>
         \/ g = cmd /\ pc["start"] # "done" /\ pc'["start"] = "done"
         \/ InHand(g)
         \/ g = cmd /\ pc["main"] = "killing" /\ g # victim["main"]]_vars

(* What makes the above inductive.  ensureTarget is run by the holder of
   switchMu and by nobody else ... *)
SwitchMutex == \A a \in Switchers : pc[a] \in SwitchSteps <=> switchMu = a

(* ... whose local variables agree with the state it shares ... *)
SwitchLocals ==
  \A a \in Switchers :
    /\ pc[a] \in {"kill", "killWait", "install", "exec", "publish", "failClose"} => cmd = Nil
    /\ pc[a] \in {"kill", "killWait"} => victim[a] # Nil
    /\ pc[a] = "killWait" => ~Running(victim[a])
    /\ pc[a] \in {"exec", "publish", "failClose", "await", "setReady", "closeReady",
                  "setFailed"} => chan[a] = readyCh /\ readyCh # Nil
    /\ pc[a] = "exec" => proc[readyCh] = "none"

(* ... and no channel or process is from a switch yet to come. *)
NothingAhead ==
  /\ \A c \in closed : c <= readyCh
  /\ \A g \in Switches : g > readyCh => proc[g] = "none"

IInv == SwitchMutex /\ SwitchLocals /\ NothingAhead /\ ChannelFlag /\ ProcessOwned

-----------------------------------------------------------------------------
(* Liveness, under FairSpec. *)

(* The lease runs out and the scheduler gets back to background, again and
   again, and to a ready one; unless the switch has left no process to get
   ready (its start failed, or background has no command and startup_timeout
   passed before its server answered: reconcileReady does nothing without
   s.cmd), or a process hangs or is gone. *)
BackgroundReturns ==
  []<>(\/ mode = "background" /\ (readyOK \/ (cmd = Nil /\ switchMu = Free))
       \/ \E g \in Switches : proc[g] = "hung" \/ (cmd = g /\ Gone(g))
       \/ pc["main"] # "serving")

-----------------------------------------------------------------------------
(* What all of this amounts to for the rest of the proxy: ModelHost, with the
   running processes seen as the modes they serve. *)
LoadedModes  == {modeOf[g] : g \in {h \in Switches : Running(h)}}
StartedModel == readyCh # Nil /\ proc[readyCh] # "none"

Host == INSTANCE ModelHost
          WITH Clients <- Requests, active <- mode, ready <- readyOK,
               loaded <- LoadedModes, started <- StartedModel, given <- base

(* The scheduler, its callers, crashes and timeouts included, implements the
   host: a mode is activated only with nothing loaded, each activation starts
   at most one process, of the active mode, and an address is given only while
   the mode it belongs to is announced as ready. *)
ImplementsHost == Host!Spec
=============================================================================
