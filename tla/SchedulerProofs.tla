-------------------------- MODULE SchedulerProofs --------------------------
(***************************************************************************)
(* Proofs about Scheduler, for any set of requests, any configuration, any *)
(* set of events and any number of switches: what it keeps true, how it    *)
(* shuts down, who waits, and that it implements ModelHost.                *)
(***************************************************************************)
EXTENDS SchedulerHistory, TLAPS

USE DEF Nil, Free, Modes, Switches, Switchers, Goroutines

(* Which steps there are, so that no proof below has to expand Steps. *)
LEMMA StepNames ==
  /\ SwitchSteps \subseteq Steps
  /\ {"drain", "stop", "kill", "killWait", "install", "exec", "failClose",
      "publish", "await", "setReady", "closeReady", "setFailed"} \subseteq Steps
  /\ {"arrive", "ensure", "lock", "wait", "readBase", "touch", "readKey",
      "count", "inflight", "done", "failed"} \subseteq Steps
  /\ {"lock", "idle", "probe", "apply", "recClose", "done"} \subseteq Steps
  /\ {"serving", "closing", "shutdown", "killing", "exited"} \subseteq Steps
BY DEF Steps, SwitchSteps, RequestSteps, LoopSteps, MainSteps

(* The moves of a goroutine: what each leaves of pc. *)
LEMMA StepMoves ==
  ASSUME TypeOK, NEW a \in Goroutines, NEW from, NEW to \in Steps, Step(a, from, to)
  PROVE  /\ pc[a] = from
         /\ pc' \in [Goroutines -> Steps]
         /\ pc'[a] = to
         /\ \A b \in Goroutines : b # a => pc'[b] = pc[b]
BY DEF TypeOK, Step

LEMMA ReturnMoves ==
  ASSUME TypeOK, NEW a \in Switchers, NEW from, NEW ch \in 0 .. MaxSwitches,
         NEW ok \in BOOLEAN, Return(a, from, ch, ok)
  PROVE  /\ pc[a] = from
         /\ pc' \in [Goroutines -> Steps]
         /\ pc'[a] \in {"wait", "failed", "idle", "done"}
         /\ \A b \in Switchers : b # a => pc'[b] = pc[b]
         /\ chan' \in [Switchers -> 0 .. MaxSwitches]
         /\ \A b \in Switchers : b # a => chan'[b] = chan[b]
         /\ switchMu' = "free"
<1>1. AfterSwitch(a, ok) \in {"wait", "failed", "idle", "done"}
  BY DEF AfterSwitch
<1>2. /\ pc[a] = from
      /\ a \in Goroutines /\ "main" \in Goroutines /\ a # "main"
      /\ pc \in [Goroutines -> Steps]
      /\ AfterSwitch(a, ok) \in Steps /\ "exited" \in Steps
  BY <1>1, StepNames, NamesAssumption DEF TypeOK, Return
<1>3. \E m \in Steps :
        pc' = [pc EXCEPT ![a] = AfterSwitch(a, ok), !["main"] = m]
  BY <1>2 DEF Return
<1>4. chan \in [Switchers -> 0 .. MaxSwitches] /\ Nil \in 0 .. MaxSwitches
  BY BoundAssumption DEF TypeOK
<1>5. \E c \in 0 .. MaxSwitches : chan' = [chan EXCEPT ![a] = c]
  <2> DEFINE c == IF a \in Requests /\ ok THEN ch ELSE Nil
  <2>1. c \in 0 .. MaxSwitches
    BY <1>4, Zenon
  <2>2. chan' = [chan EXCEPT ![a] = c]
    BY Zenon DEF Return
  <2> HIDE DEF c
  <2>3. QED
    BY <2>1, <2>2
<1>6. /\ pc' \in [Goroutines -> Steps]
      /\ pc'[a] = AfterSwitch(a, ok)
      /\ \A b \in Switchers : b # a => pc'[b] = pc[b]
  BY <1>2, <1>3, NamesAssumption
<1>7. /\ chan' \in [Switchers -> 0 .. MaxSwitches]
      /\ \A b \in Switchers : b # a => chan'[b] = chan[b]
  BY <1>4, <1>5
<1>8. switchMu' = "free"
  BY DEF Return
<1>9. QED
  BY <1>1, <1>2, <1>6, <1>7, <1>8

LEMMA ChanUpdate ==
  ASSUME TypeOK, NEW a \in Switchers, NEW c \in 0 .. MaxSwitches
  PROVE  [chan EXCEPT ![a] = c] \in [Switchers -> 0 .. MaxSwitches]
BY DEF TypeOK

LEMMA NilIsChannel == Nil \in 0 .. MaxSwitches
BY BoundAssumption

LEMMA MarkType ==
  ASSUME TypeOK, NEW ch \in 0 .. MaxSwitches, MarkReadyClosed(ch)
  PROVE  readyChClosed' \in BOOLEAN /\ closed' \subseteq Switches
<1>1. ch # Nil => closed \cup {ch} \subseteq Switches
  BY BoundAssumption DEF TypeOK
<1>2. \/ ch # Nil /\ readyChClosed' = TRUE /\ closed' = closed \cup {ch}
      \/ readyChClosed' = readyChClosed /\ closed' = closed
  BY Zenon DEF MarkReadyClosed
<1>3. readyChClosed \in BOOLEAN /\ closed \subseteq Switches
  BY DEF TypeOK
<1>4. QED
  BY <1>1, <1>2, <1>3

-----------------------------------------------------------------------------
(* Type correctness. *)

LEMMA TypeInit == Init => TypeOK
<1> SUFFICES ASSUME Init PROVE TypeOK
  OBVIOUS
<1>1. pc \in [Goroutines -> Steps]
  BY StepNames DEF Init
<1>2. /\ proc \in [Switches -> ProcStates]
      /\ modeOf \in [Switches -> Modes \cup {"none"}]
  BY DEF Init, ProcStates
<1>3. Nil \in 0 .. MaxSwitches
  BY BoundAssumption
<1>4. /\ chan \in [Switchers -> 0 .. MaxSwitches]
      /\ victim \in [Goroutines -> 0 .. MaxSwitches]
  BY <1>3 DEF Init
<1>5. /\ base \in [Requests -> Modes \cup {"none"}]
      /\ key \in [Requests -> Modes \cup {"none"}]
  BY DEF Init
<1>6. /\ mode \in Modes \cup {"none"}
      /\ readyOK \in BOOLEAN
      /\ readyCh \in 0 .. MaxSwitches /\ mode = "none" /\ readyCh = Nil
      /\ readyChClosed \in BOOLEAN
      /\ cmd \in 0 .. MaxSwitches
      /\ lastCodingAt \in {"zero", "fresh", "expired"}
      /\ switchMu \in Switchers \cup {Free}
      /\ closed \subseteq Switches
      /\ recMode \in Modes \cup {"none"}
  BY <1>3 DEF Init
<1>7. QED
  BY <1>1, <1>2, <1>4, <1>5, <1>6 DEF TypeOK

LEMMA TypeEnsureTarget ==
  ASSUME TypeOK, NEW a \in Switchers, EnsureTarget(a)
  PROVE  TypeOK'
<1> USE DEF TypeOK, schedVars, procVars, localVars, reqVars
<1>1. CASE AcquireSwitch(a)
  <2>1. pc' \in [Goroutines -> Steps]
    BY <1>1, StepMoves, StepNames DEF AcquireSwitch
  <2> QED
    BY <1>1, <2>1 DEF AcquireSwitch
<1>2. CASE AlreadySwitched(a)
  <2>1. pc' \in [Goroutines -> Steps]
    BY <1>2, ReturnMoves, StepNames DEF AlreadySwitched
  <2>2. chan' \in [Switchers -> 0 .. MaxSwitches] /\ switchMu' = Free
    BY <1>2, ReturnMoves DEF AlreadySwitched
  <2> QED
    BY <1>2, <2>1, <2>2 DEF AlreadySwitched
<1>3. CASE Drain(a)
  <2>1. pc' \in [Goroutines -> Steps]
    BY <1>3, StepMoves, StepNames DEF Drain
  <2> QED
    BY <1>3, <2>1 DEF Drain
<1>4. CASE TakeProcess(a)
  <2>1. pc' \in [Goroutines -> Steps]
    BY <1>4, StepMoves, StepNames DEF TakeProcess
  <2>2. victim' \in [Goroutines -> 0 .. MaxSwitches] /\ cmd' \in 0 .. MaxSwitches
    BY <1>4, BoundAssumption DEF TakeProcess
  <2> QED
    BY <1>4, <2>1, <2>2 DEF TakeProcess
<1>5. CASE Kill(a)
  <2>1. pc' \in [Goroutines -> Steps]
    BY <1>5, StepMoves, StepNames DEF Kill
  <2> QED
    BY <1>5, <2>1 DEF Kill, SendKill, ProcStates
<1>6. CASE KillDone(a)
  <2>1. pc' \in [Goroutines -> Steps]
    BY <1>6, StepMoves, StepNames DEF KillDone
  <2>2. victim' \in [Goroutines -> 0 .. MaxSwitches]
    BY <1>6, BoundAssumption DEF KillDone
  <2> QED
    BY <1>6, <2>1, <2>2 DEF KillDone
<1>7. CASE Install(a)
  <2>1. pc' \in [Goroutines -> Steps]
    BY <1>7, StepMoves, StepNames DEF Install
  <2>2. readyCh' \in 0 .. MaxSwitches /\ readyCh + 1 \in 0 .. MaxSwitches
    BY <1>7, BoundAssumption DEF Install
  <2>3. chan' \in [Switchers -> 0 .. MaxSwitches]
    BY <1>7, <2>2 DEF Install
  <2>4. mode' \in Modes \cup {"none"} /\ readyOK' \in BOOLEAN /\ readyChClosed' \in BOOLEAN
    BY <1>7 DEF Install, Target
  <2>5. mode' # "none" /\ readyCh' # Nil
    BY <1>7 DEF Install, Target
  <2> QED
    BY <1>7, <2>1, <2>2, <2>3, <2>4, <2>5 DEF Install
<1>8. CASE StartCmd(a)
  <2>1. pc' \in [Goroutines -> Steps]
    BY <1>8, StepMoves, StepNames DEF StartCmd
  <2> QED
    BY <1>8, <2>1 DEF StartCmd, Target, ProcStates
<1>9. CASE StartCmdFails(a)
  <2>1. pc' \in [Goroutines -> Steps]
    BY <1>9, StepMoves, StepNames DEF StartCmdFails
  <2> QED
    BY <1>9, <2>1 DEF StartCmdFails
<1>10. CASE FailClose(a)
  <2>1. pc' \in [Goroutines -> Steps]
    BY <1>10, ReturnMoves, StepNames DEF FailClose
  <2>2. chan' \in [Switchers -> 0 .. MaxSwitches] /\ switchMu' = Free
    BY <1>10, ReturnMoves DEF FailClose
  <2> QED
    BY <1>10, <2>1, <2>2, MarkType DEF FailClose
<1>11. CASE PublishCmd(a)
  <2>1. pc' \in [Goroutines -> Steps]
    BY <1>11, StepMoves, StepNames DEF PublishCmd
  <2> QED
    BY <1>11, <2>1 DEF PublishCmd
<1>12. CASE AwaitOK(a)
  <2>1. pc' \in [Goroutines -> Steps]
    BY <1>12, StepMoves, StepNames DEF AwaitOK
  <2> QED
    BY <1>12, <2>1 DEF AwaitOK
<1>13. CASE AwaitFails(a)
  <2>1. pc' \in [Goroutines -> Steps]
    BY <1>13, StepMoves, StepNames DEF AwaitFails
  <2> QED
    BY <1>13, <2>1 DEF AwaitFails
<1>14. CASE SetReady(a)
  <2>1. pc' \in [Goroutines -> Steps]
    BY <1>14, StepMoves, StepNames DEF SetReady
  <2> QED
    BY <1>14, <2>1 DEF SetReady
<1>15. CASE CloseReady(a)
  <2>1. pc' \in [Goroutines -> Steps]
    BY <1>15, ReturnMoves, StepNames DEF CloseReady
  <2>2. chan' \in [Switchers -> 0 .. MaxSwitches] /\ switchMu' = Free
    BY <1>15, ReturnMoves DEF CloseReady
  <2> QED
    BY <1>15, <2>1, <2>2, MarkType DEF CloseReady
<1>16. CASE SetFailed(a)
  <2>1. pc' \in [Goroutines -> Steps]
    BY <1>16, ReturnMoves, StepNames DEF SetFailed
  <2>2. chan' \in [Switchers -> 0 .. MaxSwitches] /\ switchMu' = Free
    BY <1>16, ReturnMoves DEF SetFailed
  <2> QED
    BY <1>16, <2>1, <2>2 DEF SetFailed
<1>17. QED
  BY <1>1, <1>2, <1>3, <1>4, <1>5, <1>6, <1>7, <1>8, <1>9, <1>10, <1>11, <1>12, <1>13, <1>14, <1>15, <1>16 DEF EnsureTarget

LEMMA TypeNext == TypeOK /\ [Next]_vars => TypeOK'
<1> SUFFICES ASSUME TypeOK, [Next]_vars PROVE TypeOK'
  OBVIOUS
<1> USE DEF TypeOK, schedVars, procVars, localVars, reqVars
<1>1. ASSUME NEW a \in Switchers, EnsureTarget(a) PROVE TypeOK'
  BY <1>1, TypeEnsureTarget
<1>2. ASSUME NEW r \in Requests, Request(r) PROVE TypeOK'
  <2>1. pc' \in [Goroutines -> Steps]
    BY <1>2, StepMoves, StepNames DEF Request, Arrive, EnsureCoding, Released, ReadBase,
       TouchAgain, ReadKey, Count, RejectBody, Finish
  <2>2. \/ chan' = chan
        \/ chan' = [chan EXCEPT ![r] = readyCh]
        \/ chan' = [chan EXCEPT ![r] = Nil]
    BY <1>2 DEF Request, Arrive, EnsureCoding, Released, ReadBase,
       TouchAgain, ReadKey, Count, RejectBody, Finish
  <2>3. chan' \in [Switchers -> 0 .. MaxSwitches]
    BY <2>2, ChanUpdate, NilIsChannel, ZenonT(40)
  <2>4. \E m \in Modes \cup {"none"} :
          /\ base' = base \/ base' = [base EXCEPT ![r] = m]
          /\ key' = key \/ key' = [key EXCEPT ![r] = m]
    <3>1. CASE ReadBase(r)
      BY <3>1 DEF ReadBase
    <3>2. CASE ReadKey(r)
      BY <3>2 DEF ReadKey
    <3>3. CASE Finish(r) \/ RejectBody(r)
      BY <3>3 DEF Finish, RejectBody
    <3> QED
      BY <1>2, <3>1, <3>2, <3>3 DEF Request, Arrive, EnsureCoding, Released, TouchAgain, Count
  <2>5. /\ base' \in [Requests -> Modes \cup {"none"}]
        /\ key' \in [Requests -> Modes \cup {"none"}]
    BY <2>4
  <2> QED
    BY <1>2, <2>1, <2>3, <2>5, ZenonT(40) DEF Request, Arrive, EnsureCoding, Released, ReadBase,
       TouchAgain, ReadKey, Count, RejectBody, Finish
<1>3. ASSUME NEW g \in Switches, Reap(g) PROVE TypeOK'
  BY <1>3 DEF Reap, ProcStates
<1>4. ASSUME Loop PROVE TypeOK'
  <2>1. pc' \in [Goroutines -> Steps]
    BY <1>4, StepMoves, StepNames DEF Loop, ReconcileStart, ReconcileProbeOK,
       ReconcileProbeFails, ReconcileApply, ReconcileClose, LeaseTick, LoopDone
  <2>2. chan' \in [Switchers -> 0 .. MaxSwitches] /\ recMode' \in Modes \cup {"none"}
    BY <1>4, BoundAssumption DEF Loop, ReconcileStart, ReconcileProbeOK,
       ReconcileProbeFails, ReconcileApply, ReconcileClose, ReconcileReturn, LeaseTick, LoopDone
  <2>3. readyOK' \in BOOLEAN /\ readyChClosed' \in BOOLEAN /\ closed' \subseteq Switches
    BY <1>4, MarkType DEF Loop, ReconcileStart, ReconcileProbeOK,
       ReconcileProbeFails, ReconcileApply, ReconcileClose, LeaseTick, LoopDone
  <2> QED
    BY <1>4, <2>1, <2>2, <2>3 DEF Loop, ReconcileStart, ReconcileProbeOK,
       ReconcileProbeFails, ReconcileApply, ReconcileClose, LeaseTick, LoopDone
<1>5. ASSUME Main PROVE TypeOK'
  <2>1. pc' \in [Goroutines -> Steps]
    BY <1>5, StepMoves, StepNames DEF Main, ServerClosed, ShutdownTake, ShutdownKill
  <2>2. victim' \in [Goroutines -> 0 .. MaxSwitches]
    BY <1>5 DEF Main, ServerClosed, ShutdownTake, ShutdownKill
  <2>3. proc' \in [Switches -> ProcStates]
    BY <1>5 DEF Main, ServerClosed, ShutdownTake, ShutdownKill, SendKill, ProcStates
  <2> QED
    BY <1>5, <2>1, <2>2, <2>3 DEF Main, ServerClosed, ShutdownTake, ShutdownKill
<1>6. ASSUME Environment PROVE TypeOK'
  <2>1. pc' \in [Goroutines -> Steps]
    BY <1>6, StepMoves, StepNames DEF Environment, ModelLoaded, Hang, Exit, ProcStep,
       GiveUp, LeaseElapses, Signal
  <2>2. proc' \in [Switches -> ProcStates] /\ modeOf' \in [Switches -> Modes \cup {"none"}]
    BY <1>6 DEF Environment, ModelLoaded, Hang, Exit, ProcStep, GiveUp, LeaseElapses,
       Signal, ProcStates
  <2>3. chan' \in [Switchers -> 0 .. MaxSwitches]
    <3>1. chan' = chan \/ \E r \in Requests : chan' = [chan EXCEPT ![r] = Nil]
      BY <1>6 DEF Environment, ModelLoaded, Hang, Exit, ProcStep, GiveUp, LeaseElapses, Signal
    <3> QED
      BY <3>1, ChanUpdate, NilIsChannel
  <2> QED
    BY <1>6, <2>1, <2>2, <2>3, ZenonT(40) DEF Environment, ModelLoaded, Hang, Exit, ProcStep, GiveUp,
       LeaseElapses, Signal
<1>7. ASSUME UNCHANGED vars PROVE TypeOK'
  BY <1>7 DEF vars
<1>8. QED
  BY <1>1, <1>2, <1>3, <1>4, <1>5, <1>6, <1>7 DEF Next

(* Every variable of the scheduler and its callers keeps its type. *)
THEOREM TypeCorrect == Spec => []TypeOK
BY TypeInit, TypeNext, PTL DEF Spec

-----------------------------------------------------------------------------
(* The inductive invariant. *)

LEMMA InvInit == Init => IInv
<1> SUFFICES ASSUME Init PROVE IInv
  OBVIOUS
<1>1. \A a \in Switchers : pc[a] \in {"arrive", "lock", "idle"}
  BY NamesAssumption DEF Init
<1>2. \A g \in Switches : proc[g] = "none"
  BY DEF Init
<1>3. SwitchMutex
  BY <1>1, NamesAssumption DEF Init, SwitchMutex, SwitchSteps
<1>4. SwitchLocals
  BY <1>1 DEF SwitchLocals
<1>5. NothingAhead
  BY <1>2 DEF Init, NothingAhead
<1>6. ChannelFlag
  BY DEF Init, ChannelFlag
<1>7. ProcessOwned
  BY <1>2 DEF ProcessOwned, Loaded, Running
<1>8. QED
  BY <1>3, <1>4, <1>5, <1>6, <1>7 DEF IInv

(* The holder of switchMu is alone inside ensureTarget, and stays so while it
   moves on; when it returns nobody is. *)
LEMMA HolderAlone ==
  ASSUME IInv, NEW a \in Switchers, pc[a] \in SwitchSteps
  PROVE  /\ switchMu = a
         /\ \A b \in Switchers : b # a => pc[b] \notin SwitchSteps
BY DEF IInv, SwitchMutex

LEMMA HolderMoves ==
  ASSUME TypeOK, IInv, NEW a \in Switchers, NEW from \in SwitchSteps, NEW to \in SwitchSteps,
         Step(a, from, to), switchMu' = switchMu
  PROVE  /\ SwitchMutex'
         /\ pc[a] = from /\ pc'[a] = to
         /\ \A b \in Switchers : b # a => pc[b] \notin SwitchSteps /\ pc'[b] \notin SwitchSteps
<1>1. /\ pc[a] = from /\ pc'[a] = to
      /\ \A b \in Switchers : b # a => pc'[b] = pc[b]
  BY StepMoves, StepNames
<1>2. switchMu = a /\ \A b \in Switchers : b # a => pc[b] \notin SwitchSteps
  BY <1>1, HolderAlone
<1>3. QED
  BY <1>1, <1>2 DEF SwitchMutex

LEMMA HolderReturns ==
  ASSUME TypeOK, IInv, NEW a \in Switchers, NEW from \in SwitchSteps \cup {"lock"},
         from = "lock" => switchMu = Free,
         pc[a] = from, pc'[a] \in {"wait", "failed", "idle", "done"},
         \A b \in Switchers : b # a => pc'[b] = pc[b],
         switchMu' = Free
  PROVE  /\ SwitchMutex'
         /\ \A b \in Switchers : pc'[b] \notin SwitchSteps
         /\ \A b \in Switchers : b # a => pc[b] \notin SwitchSteps
<1>1. \A b \in Switchers : b # a => pc[b] \notin SwitchSteps
  <2>1. CASE from = "lock"
    BY <2>1, NamesAssumption DEF IInv, SwitchMutex
  <2>2. CASE from \in SwitchSteps
    BY <2>2, HolderAlone
  <2> QED
    BY <2>1, <2>2
<1>2. pc'[a] \notin SwitchSteps
  BY DEF SwitchSteps
<1>3. QED
  BY <1>1, <1>2, NamesAssumption DEF SwitchMutex

(* markReadyClosed keeps the flag true to the channel. *)
LEMMA MarkKeepsFlag ==
  ASSUME TypeOK, IInv, NEW ch \in 0 .. MaxSwitches, MarkReadyClosed(ch), readyCh' = readyCh
  PROVE  ChannelFlag' /\ \A c \in closed' : c <= readyCh'
<1>1. \/ ch # Nil /\ ch = readyCh /\ readyChClosed' = TRUE /\ closed' = closed \cup {ch}
      \/ readyChClosed' = readyChClosed /\ closed' = closed
  BY Zenon DEF MarkReadyClosed
<1>2. /\ readyChClosed <=> readyCh # Nil /\ readyCh \in closed
      /\ \A c \in closed : c <= readyCh
      /\ readyCh \in 0 .. MaxSwitches
  BY DEF IInv, ChannelFlag, NothingAhead, TypeOK
<1>3. CASE ch # Nil /\ ch = readyCh /\ readyChClosed' = TRUE /\ closed' = closed \cup {ch}
  BY <1>2, <1>3, BoundAssumption DEF ChannelFlag
<1>4. CASE readyChClosed' = readyChClosed /\ closed' = closed
  BY <1>2, <1>4 DEF ChannelFlag
<1>5. QED
  BY <1>1, <1>3, <1>4

(* A step of the holder that moves nothing but its own pc and readyOK. *)
LEMMA QuietStep ==
  ASSUME TypeOK, IInv, NEW a \in Switchers, NEW from \in SwitchSteps, NEW to \in SwitchSteps,
         Step(a, from, to),
         UNCHANGED <<readyCh, readyChClosed, cmd, switchMu, closed, proc, victim, chan>>,
         \/ from = "drain" /\ to = "stop"
         \/ from = "exec" /\ to = "failClose"
         \/ from \in {"await", "setReady"} /\ to \in {"setReady", "setFailed", "closeReady"}
  PROVE  IInv'
<1>1. /\ SwitchMutex'
      /\ pc[a] = from /\ pc'[a] = to
      /\ \A b \in Switchers : b # a => pc[b] \notin SwitchSteps /\ pc'[b] \notin SwitchSteps
  BY HolderMoves
<1>2. SwitchLocals'
  BY <1>1 DEF IInv, SwitchLocals, SwitchSteps
<1>3. NothingAhead' /\ ChannelFlag'
  BY DEF IInv, NothingAhead, ChannelFlag
<1>4. \A g \in Switches : Owned(g) => g = cmd
  BY <1>1 DEF Owned, SwitchSteps
<1>5. ProcessOwned'
  BY <1>4 DEF IInv, ProcessOwned, Owned, Loaded, Running
<1>6. QED
  BY <1>1, <1>2, <1>3, <1>5 DEF IInv

(* A step that leaves ensureTarget. *)
LEMMA ReturnStep ==
  ASSUME TypeOK, IInv, NEW a \in Switchers,
         NEW from \in {"lock", "failClose", "closeReady", "setFailed"},
         from = "lock" => switchMu = Free,
         pc[a] = from, pc'[a] \in {"wait", "failed", "idle", "done"},
         \A b \in Switchers : b # a => pc'[b] = pc[b],
         switchMu' = Free,
         UNCHANGED <<readyCh, cmd, proc, victim>>,
         ChannelFlag', \A c \in closed' : c <= readyCh'
  PROVE  IInv'
<1>1. /\ SwitchMutex'
      /\ \A b \in Switchers : pc'[b] \notin SwitchSteps
      /\ \A b \in Switchers : b # a => pc[b] \notin SwitchSteps
  BY HolderReturns DEF SwitchSteps
<1>2. SwitchLocals'
  BY <1>1 DEF SwitchLocals, SwitchSteps
<1>3. NothingAhead'
  BY DEF IInv, NothingAhead
<1>4. \A g \in Switches : Owned(g) => g = cmd
  BY <1>1 DEF Owned, SwitchSteps
<1>5. ProcessOwned'
  BY <1>4 DEF IInv, ProcessOwned, Owned, Loaded, Running
<1>6. QED
  BY <1>1, <1>2, <1>3, <1>5 DEF IInv

LEMMA InvAcquireSwitch ==
  ASSUME TypeOK, IInv, NEW a \in Switchers, AcquireSwitch(a)
  PROVE  IInv'
<1>1. /\ pc[a] = "lock" /\ pc'[a] = "drain"
      /\ \A b \in Switchers : b # a => pc'[b] = pc[b]
      /\ switchMu = Free /\ switchMu' = a
  BY StepMoves, StepNames DEF AcquireSwitch
<1>2. \A b \in Switchers : pc[b] \notin SwitchSteps
  BY <1>1, NamesAssumption DEF IInv, SwitchMutex
<1>3. UNCHANGED <<readyCh, readyChClosed, cmd, closed, proc, victim, chan>>
  BY DEF AcquireSwitch, schedVars, procVars, localVars
<1>4. SwitchMutex'
  BY <1>1, <1>2 DEF SwitchMutex, SwitchSteps
<1>5. SwitchLocals'
  BY <1>1, <1>2 DEF SwitchLocals, SwitchSteps
<1>6. NothingAhead' /\ ChannelFlag'
  BY <1>3 DEF IInv, NothingAhead, ChannelFlag
<1>7. ProcessOwned'
  BY <1>2, <1>3 DEF IInv, ProcessOwned, Owned, Loaded, Running, SwitchSteps
<1>8. QED
  BY <1>4, <1>5, <1>6, <1>7 DEF IInv

LEMMA InvTakeProcess ==
  ASSUME TypeOK, IInv, NEW a \in Switchers, TakeProcess(a)
  PROVE  IInv'
<1> DEFINE to == IF cmd = Nil THEN "install" ELSE "kill"
<1>1. /\ to \in SwitchSteps /\ "stop" \in SwitchSteps
      /\ to = "kill" => cmd # Nil
      /\ to \in {"install", "kill"}
  BY DEF SwitchSteps
<1>2. Step(a, "stop", to) /\ switchMu' = switchMu
  BY DEF TakeProcess
<1> HIDE DEF to
<1>3. /\ SwitchMutex'
      /\ pc[a] = "stop" /\ pc'[a] = to
      /\ \A b \in Switchers : b # a => pc[b] \notin SwitchSteps /\ pc'[b] \notin SwitchSteps
  BY <1>1, <1>2, HolderMoves
<1>4. /\ cmd' = Nil
      /\ victim' = [victim EXCEPT ![a] = cmd]
      /\ UNCHANGED <<readyCh, readyChClosed, closed, proc, chan>>
  BY DEF TakeProcess, procVars
<1>5. victim'[a] = cmd
  BY <1>4 DEF TypeOK
<1>6. SwitchLocals'
  BY <1>1, <1>3, <1>4, <1>5 DEF SwitchLocals, SwitchSteps
<1>7. NothingAhead' /\ ChannelFlag'
  BY <1>4 DEF IInv, NothingAhead, ChannelFlag
<1>8. \A g \in Switches : Owned(g) => g = cmd
  BY <1>3 DEF Owned, SwitchSteps
<1>9. \A g \in Switches : g = cmd => Owned(g)'
  BY <1>1, <1>3, <1>5, BoundAssumption DEF Owned, to
<1>10. ProcessOwned'
  BY <1>4, <1>8, <1>9 DEF IInv, ProcessOwned, Loaded, Running
<1>11. QED
  BY <1>3, <1>6, <1>7, <1>10 DEF IInv

LEMMA InvKill ==
  ASSUME TypeOK, IInv, NEW a \in Switchers, Kill(a)
  PROVE  IInv'
<1>1. "kill" \in SwitchSteps /\ "killWait" \in SwitchSteps
  BY DEF SwitchSteps
<1>2. Step(a, "kill", "killWait") /\ SendKill(victim[a])
  BY DEF Kill
<1>3. UNCHANGED <<readyCh, readyChClosed, cmd, closed, victim, chan, switchMu>>
  BY DEF Kill, schedVars, localVars
<1>4. /\ SwitchMutex'
      /\ pc[a] = "kill" /\ pc'[a] = "killWait"
      /\ \A b \in Switchers : b # a => pc[b] \notin SwitchSteps /\ pc'[b] \notin SwitchSteps
  BY <1>1, <1>2, <1>3, HolderMoves
<1>5. cmd = Nil /\ victim[a] # Nil /\ victim[a] \in Switches
  BY <1>4 DEF IInv, SwitchLocals, TypeOK
<1>6. \/ Running(victim[a]) /\ proc' = [proc EXCEPT ![victim[a]] = "killed"]
      \/ ~Running(victim[a]) /\ proc' = proc
  BY <1>2 DEF SendKill
<1>7. /\ ~Running(victim[a])'
      /\ \A g \in Switches : g # victim[a] => proc'[g] = proc[g]
      /\ \A g \in Switches : proc[g] = "none" => proc'[g] = "none"
  BY <1>3, <1>5, <1>6 DEF TypeOK, Running
<1>8. SwitchLocals'
  BY <1>3, <1>4, <1>5, <1>7 DEF SwitchLocals, SwitchSteps
<1>9. NothingAhead' /\ ChannelFlag'
  BY <1>3, <1>7 DEF IInv, NothingAhead, ChannelFlag
<1>10. \A g \in Switches : Owned(g)' <=> Owned(g)
  BY <1>3, <1>4 DEF Owned, SwitchSteps
<1>11. Owned(victim[a])
  BY <1>4 DEF Owned
<1>12. ProcessOwned'
  BY <1>7, <1>10, <1>11 DEF IInv, ProcessOwned, Loaded, Running
<1>13. QED
  BY <1>4, <1>8, <1>9, <1>12 DEF IInv

LEMMA InvKillDone ==
  ASSUME TypeOK, IInv, NEW a \in Switchers, KillDone(a)
  PROVE  IInv'
<1>1. "killWait" \in SwitchSteps /\ "install" \in SwitchSteps
  BY DEF SwitchSteps
<1>2. /\ Step(a, "killWait", "install")
      /\ Gone(victim[a]) \/ "killTimeout" \in Events
      /\ UNCHANGED <<readyCh, readyChClosed, cmd, closed, proc, chan, switchMu>>
  BY DEF KillDone, schedVars, procVars
<1>3. /\ SwitchMutex'
      /\ pc[a] = "killWait" /\ pc'[a] = "install"
      /\ \A b \in Switchers : b # a => pc[b] \notin SwitchSteps /\ pc'[b] \notin SwitchSteps
  BY <1>1, <1>2, HolderMoves
<1>4. cmd = Nil /\ ~Running(victim[a])
  BY <1>3 DEF IInv, SwitchLocals
<1>5. SwitchLocals'
  BY <1>2, <1>3, <1>4 DEF SwitchLocals, SwitchSteps
<1>6. NothingAhead' /\ ChannelFlag'
  BY <1>2 DEF IInv, NothingAhead, ChannelFlag
<1>7. \A g \in Switches : Owned(g) => g = victim[a]
  BY <1>3, <1>4 DEF Owned, SwitchSteps
<1>8. \A g \in Switches : Loaded(g) => "killTimeout" \in Events /\ proc[g] = "killed"
  BY <1>2, <1>4, <1>7 DEF IInv, ProcessOwned, Loaded, Running, Gone
<1>9. ProcessOwned'
  BY <1>2, <1>8 DEF ProcessOwned, Loaded, Running
<1>10. QED
  BY <1>3, <1>5, <1>6, <1>9 DEF IInv

LEMMA InvInstall ==
  ASSUME TypeOK, IInv, NEW a \in Switchers, Install(a)
  PROVE  IInv'
<1> DEFINE to == IF Target(a) \in Managed THEN "exec" ELSE "await"
<1>1. /\ to \in SwitchSteps /\ "install" \in SwitchSteps
      /\ to \in {"exec", "await"}
  BY DEF SwitchSteps
<1>2. /\ Step(a, "install", to)
      /\ UNCHANGED <<switchMu, cmd, closed, proc, victim>>
      /\ readyCh < MaxSwitches /\ readyCh' = readyCh + 1
      /\ readyChClosed' = FALSE
      /\ chan' = [chan EXCEPT ![a] = readyCh + 1]
  BY DEF Install, procVars
<1> HIDE DEF to
<1>3. /\ SwitchMutex'
      /\ pc[a] = "install" /\ pc'[a] = to
      /\ \A b \in Switchers : b # a => pc[b] \notin SwitchSteps /\ pc'[b] \notin SwitchSteps
  BY <1>1, <1>2, HolderMoves
<1>4. /\ cmd = Nil
      /\ readyCh' \in Switches /\ readyCh' # Nil /\ readyCh' > readyCh
      /\ chan'[a] = readyCh'
  BY <1>2, <1>3, BoundAssumption DEF IInv, SwitchLocals, SwitchSteps, TypeOK
<1>5. /\ proc[readyCh'] = "none" /\ readyCh' \notin closed
      /\ \A c \in closed : c <= readyCh'
      /\ \A g \in Switches : g > readyCh' => proc[g] = "none"
  BY <1>4, BoundAssumption DEF IInv, NothingAhead, TypeOK
<1>6. SwitchLocals'
  BY <1>1, <1>2, <1>3, <1>4, <1>5 DEF SwitchLocals, SwitchSteps
<1>7. NothingAhead' /\ ChannelFlag'
  BY <1>2, <1>5 DEF NothingAhead, ChannelFlag
<1>8. \A g \in Switches : ~Owned(g)
  BY <1>3, <1>4, BoundAssumption DEF Owned, SwitchSteps
<1>9. ProcessOwned'
  BY <1>2, <1>8 DEF IInv, ProcessOwned, Loaded, Running
<1>10. QED
  BY <1>3, <1>6, <1>7, <1>9 DEF IInv

LEMMA InvStartCmd ==
  ASSUME TypeOK, IInv, NEW a \in Switchers, StartCmd(a)
  PROVE  IInv'
<1>1. "exec" \in SwitchSteps /\ "publish" \in SwitchSteps
  BY DEF SwitchSteps
<1>2. /\ Step(a, "exec", "publish")
      /\ UNCHANGED <<readyCh, readyChClosed, cmd, closed, victim, chan, switchMu>>
      /\ proc' = [proc EXCEPT ![chan[a]] = "loading"]
  BY DEF StartCmd, schedVars, localVars
<1>3. /\ SwitchMutex'
      /\ pc[a] = "exec" /\ pc'[a] = "publish"
      /\ \A b \in Switchers : b # a => pc[b] \notin SwitchSteps /\ pc'[b] \notin SwitchSteps
  BY <1>1, <1>2, HolderMoves
<1>4. cmd = Nil /\ chan[a] = readyCh /\ readyCh # Nil
  BY <1>3 DEF IInv, SwitchLocals
<1>5. /\ \A g \in Switches : g # readyCh => proc'[g] = proc[g]
      /\ readyCh \in 0 .. MaxSwitches
  BY <1>2, <1>4 DEF TypeOK
<1>6. SwitchLocals'
  BY <1>2, <1>3, <1>4 DEF SwitchLocals, SwitchSteps
<1>7. NothingAhead' /\ ChannelFlag'
  BY <1>2, <1>5, BoundAssumption DEF IInv, NothingAhead, ChannelFlag, TypeOK
<1>8. \A g \in Switches : ~Owned(g)
  BY <1>3, <1>4, BoundAssumption DEF Owned, SwitchSteps
<1>9. Owned(readyCh)'
  BY <1>2, <1>3, <1>4 DEF Owned
<1>10. ProcessOwned'
  BY <1>2, <1>5, <1>8, <1>9 DEF IInv, ProcessOwned, Loaded, Running
<1>11. QED
  BY <1>3, <1>6, <1>7, <1>10 DEF IInv

LEMMA InvPublishCmd ==
  ASSUME TypeOK, IInv, NEW a \in Switchers, PublishCmd(a)
  PROVE  IInv'
<1>1. "publish" \in SwitchSteps /\ "await" \in SwitchSteps
  BY DEF SwitchSteps
<1>2. /\ Step(a, "publish", "await")
      /\ UNCHANGED <<readyCh, readyChClosed, closed, proc, victim, chan, switchMu>>
      /\ cmd' = chan[a]
  BY DEF PublishCmd, procVars, localVars
<1>3. /\ SwitchMutex'
      /\ pc[a] = "publish" /\ pc'[a] = "await"
      /\ \A b \in Switchers : b # a => pc[b] \notin SwitchSteps /\ pc'[b] \notin SwitchSteps
  BY <1>1, <1>2, HolderMoves
<1>4. cmd = Nil /\ chan[a] = readyCh /\ readyCh # Nil
  BY <1>3 DEF IInv, SwitchLocals
<1>5. SwitchLocals'
  BY <1>2, <1>3, <1>4 DEF SwitchLocals, SwitchSteps
<1>6. NothingAhead' /\ ChannelFlag'
  BY <1>2 DEF IInv, NothingAhead, ChannelFlag
<1>7. \A g \in Switches : Owned(g) => g = chan[a]
  BY <1>3, <1>4, BoundAssumption DEF Owned, SwitchSteps
<1>8. ProcessOwned'
  BY <1>2, <1>7 DEF IInv, ProcessOwned, Owned, Loaded, Running
<1>9. QED
  BY <1>3, <1>5, <1>6, <1>8 DEF IInv

LEMMA InvEnsureTarget ==
  ASSUME TypeOK, IInv, NEW a \in Switchers, EnsureTarget(a)
  PROVE  IInv'
<1> USE DEF schedVars, procVars, localVars
<1>1. CASE AlreadySwitched(a)
  <2>1. /\ pc[a] = "lock" /\ switchMu = Free
        /\ pc'[a] \in {"wait", "failed", "idle", "done"}
        /\ \A b \in Switchers : b # a => pc'[b] = pc[b]
        /\ switchMu' = Free
    BY <1>1, ReturnMoves DEF AlreadySwitched, TypeOK
  <2>2. /\ UNCHANGED <<readyCh, cmd, proc, victim>>
        /\ ChannelFlag' /\ \A c \in closed' : c <= readyCh'
    BY <1>1 DEF AlreadySwitched, IInv, ChannelFlag, NothingAhead
  <2> QED
    BY <2>1, <2>2, ReturnStep
<1>2. CASE FailClose(a)
  <2>1. /\ pc[a] = "failClose"
        /\ pc'[a] \in {"wait", "failed", "idle", "done"}
        /\ \A b \in Switchers : b # a => pc'[b] = pc[b]
        /\ switchMu' = Free
    BY <1>2, ReturnMoves DEF FailClose, TypeOK
  <2>2. UNCHANGED <<readyCh, cmd, proc, victim>>
    BY <1>2 DEF FailClose
  <2>3. ChannelFlag' /\ \A c \in closed' : c <= readyCh'
    BY <1>2, <2>2, MarkKeepsFlag DEF FailClose, TypeOK
  <2> QED
    BY <2>1, <2>2, <2>3, ReturnStep
<1>3. CASE CloseReady(a)
  <2>1. /\ pc[a] = "closeReady"
        /\ pc'[a] \in {"wait", "failed", "idle", "done"}
        /\ \A b \in Switchers : b # a => pc'[b] = pc[b]
        /\ switchMu' = Free
    BY <1>3, ReturnMoves DEF CloseReady, TypeOK
  <2>2. UNCHANGED <<readyCh, cmd, proc, victim>>
    BY <1>3 DEF CloseReady
  <2>3. ChannelFlag' /\ \A c \in closed' : c <= readyCh'
    BY <1>3, <2>2, MarkKeepsFlag DEF CloseReady, TypeOK
  <2> QED
    BY <2>1, <2>2, <2>3, ReturnStep
<1>4. CASE SetFailed(a)
  <2>1. /\ pc[a] = "setFailed"
        /\ pc'[a] \in {"wait", "failed", "idle", "done"}
        /\ \A b \in Switchers : b # a => pc'[b] = pc[b]
        /\ switchMu' = Free
    BY <1>4, ReturnMoves DEF SetFailed, TypeOK
  <2>2. /\ UNCHANGED <<readyCh, cmd, proc, victim>>
        /\ ChannelFlag' /\ \A c \in closed' : c <= readyCh'
    BY <1>4 DEF SetFailed, IInv, ChannelFlag, NothingAhead
  <2> QED
    BY <2>1, <2>2, ReturnStep
<1>5. {"drain", "stop", "exec", "failClose", "await", "setReady", "setFailed", "closeReady"}
        \subseteq SwitchSteps
  BY DEF SwitchSteps
<1>6. CASE Drain(a)
  BY <1>5, <1>6, QuietStep DEF Drain
<1>7. CASE StartCmdFails(a)
  BY <1>5, <1>7, QuietStep DEF StartCmdFails
<1>8. CASE AwaitOK(a)
  BY <1>5, <1>8, QuietStep DEF AwaitOK
<1>9. CASE AwaitFails(a)
  BY <1>5, <1>9, QuietStep DEF AwaitFails
<1>10. CASE SetReady(a)
  BY <1>5, <1>10, QuietStep DEF SetReady
<1>11. QED
  BY <1>1, <1>2, <1>3, <1>4, <1>6, <1>7, <1>8, <1>9, <1>10, InvAcquireSwitch,
     InvTakeProcess, InvKill, InvKillDone, InvInstall, InvStartCmd, InvPublishCmd
     DEF EnsureTarget

-----------------------------------------------------------------------------
(* The steps outside ensureTarget: they leave switchMu, s.cmd, the channel and
   what the holder of switchMu is doing alone, and start no process. *)

LEMMA OutsideStep ==
  ASSUME TypeOK, IInv,
         UNCHANGED <<switchMu, cmd, readyCh>>,
         \A b \in Switchers :
           pc'[b] = pc[b] \/ (pc[b] \notin SwitchSteps /\ pc'[b] \notin SwitchSteps),
         \A b \in Switchers : victim'[b] = victim[b],
         \A b \in Switchers : pc[b] \in SwitchSteps => chan'[b] = chan[b],
         \A g \in Switches :
           proc'[g] = proc[g] \/ (Running(g) /\ Running(g)') \/ (Running(g) /\ proc'[g] = "killed")
             \/ (proc[g] # "none" /\ proc'[g] \in {"dead", "reaped"}),
         ChannelFlag', \A c \in closed' : c <= readyCh'
  PROVE  IInv'
<1>1. \A g \in Switches : /\ Running(g)' => Running(g)
                          /\ Loaded(g)' => Loaded(g)
                          /\ proc[g] = "killed" /\ Loaded(g)' => proc'[g] = "killed"
                          /\ proc[g] = "none" => proc'[g] = "none"
  BY DEF Loaded, Running
<1>2. SwitchMutex'
  BY DEF IInv, SwitchMutex
<1>3. \A b \in Switchers : pc'[b] \in SwitchSteps =>
        pc'[b] = pc[b] /\ victim'[b] = victim[b] /\ chan'[b] = chan[b]
  OBVIOUS
<1>4. \A b \in Switchers : pc'[b] \in {"kill", "killWait", "install", "exec", "publish",
        "failClose", "await", "setReady", "closeReady", "setFailed"} => pc'[b] \in SwitchSteps
  BY DEF SwitchSteps
<1>5. \A b \in Switchers : victim[b] # Nil => victim[b] \in Switches
  BY BoundAssumption DEF TypeOK
<1>6. readyCh # Nil => readyCh \in Switches
  BY BoundAssumption DEF TypeOK
<1>7. SwitchLocals'
  <2> SUFFICES ASSUME NEW b \in Switchers,
                      pc'[b] \in {"kill", "killWait", "install", "exec", "publish",
                        "failClose", "await", "setReady", "closeReady", "setFailed"}
               PROVE  /\ pc'[b] \in {"kill", "killWait", "install", "exec", "publish",
                                     "failClose"} => cmd' = Nil
                      /\ pc'[b] \in {"kill", "killWait"} => victim'[b] # Nil
                      /\ pc'[b] = "killWait" => ~Running(victim[b])'
                      /\ pc'[b] \in {"exec", "publish", "failClose", "await", "setReady",
                                     "closeReady", "setFailed"}
                           => chan'[b] = readyCh' /\ readyCh' # Nil
                      /\ pc'[b] = "exec" => proc'[readyCh'] = "none"
    BY <1>3, <1>4 DEF SwitchLocals, Running
  <2>1. pc'[b] = pc[b] /\ victim'[b] = victim[b] /\ chan'[b] = chan[b]
    BY <1>3, <1>4
  <2>2. /\ pc[b] \in {"kill", "killWait", "install", "exec", "publish", "failClose"}
             => cmd = Nil
        /\ pc[b] \in {"kill", "killWait"} => victim[b] # Nil
        /\ pc[b] = "killWait" => ~Running(victim[b])
        /\ pc[b] \in {"exec", "publish", "failClose", "await", "setReady", "closeReady",
                      "setFailed"} => chan[b] = readyCh /\ readyCh # Nil
        /\ pc[b] = "exec" => proc[readyCh] = "none"
    BY DEF IInv, SwitchLocals
  <2>3. pc'[b] = "killWait" => ~Running(victim[b])'
    BY <1>1, <1>5, <2>1, <2>2 DEF Running
  <2>4. pc'[b] = "exec" => proc'[readyCh'] = "none"
    BY <1>1, <1>6, <2>1, <2>2
  <2>5. QED
    BY <2>1, <2>2, <2>3, <2>4
<1>8. NothingAhead'
  BY <1>1 DEF IInv, NothingAhead
<1>9. \A g \in Switches : Owned(g) => Owned(g)'
  <2> SUFFICES ASSUME NEW g \in Switches, Owned(g) PROVE Owned(g)'
    OBVIOUS
  <2>1. \A b \in Switchers : pc[b] \in SwitchSteps =>
          pc'[b] = pc[b] /\ victim'[b] = victim[b] /\ chan'[b] = chan[b]
    OBVIOUS
  <2>2. {"kill", "killWait", "publish"} \subseteq SwitchSteps
    BY DEF SwitchSteps
  <2>3. QED
    BY <2>1, <2>2 DEF Owned
<1>10. ProcessOwned'
  BY <1>1, <1>9 DEF IInv, ProcessOwned, Loaded, Running
<1>11. QED
  BY <1>2, <1>7, <1>8, <1>10 DEF IInv

(* The same for a step that leaves the channels and the processes alone too. *)
LEMMA LocalStep ==
  ASSUME TypeOK, IInv, NEW b \in Goroutines, NEW from, from \notin SwitchSteps,
         NEW to \in Steps, to \notin SwitchSteps, Step(b, from, to),
         UNCHANGED <<switchMu, cmd, readyCh, readyChClosed, closed, proc>>,
         \A c \in Switchers : victim'[c] = victim[c],
         \A c \in Switchers : c # b => chan'[c] = chan[c]
  PROVE  IInv'
<1>1. /\ pc[b] = from /\ pc'[b] = to
      /\ \A c \in Goroutines : c # b => pc'[c] = pc[c]
  BY StepMoves
<1>2. \A c \in Switchers :
        pc'[c] = pc[c] \/ (pc[c] \notin SwitchSteps /\ pc'[c] \notin SwitchSteps)
  BY <1>1
<1>3. \A c \in Switchers : pc[c] \in SwitchSteps => chan'[c] = chan[c]
  BY <1>1
<1>4. ChannelFlag' /\ \A c \in closed' : c <= readyCh'
  BY DEF IInv, ChannelFlag, NothingAhead
<1>5. QED
  BY <1>2, <1>3, <1>4, OutsideStep

(* A step of one process, everything else left alone. *)
LEMMA ProcessStep ==
  ASSUME TypeOK, IInv,
         UNCHANGED <<switchMu, cmd, readyCh, readyChClosed, closed, pc, chan, victim>>,
         \A g \in Switches :
           proc'[g] = proc[g] \/ (Running(g) /\ Running(g)') \/ (Running(g) /\ proc'[g] = "killed")
             \/ (proc[g] # "none" /\ proc'[g] \in {"dead", "reaped"})
  PROVE  IInv'
<1>1. ChannelFlag' /\ \A c \in closed' : c <= readyCh'
  BY DEF IInv, ChannelFlag, NothingAhead
<1>2. QED
  BY <1>1, OutsideStep

LEMMA OutsideNames ==
  /\ {"arrive", "ensure", "lock", "wait", "readBase", "touch", "readKey", "count",
      "inflight", "done", "failed", "idle", "probe", "apply", "recClose", "serving",
      "closing", "shutdown", "killing", "exited"} \subseteq Steps \ SwitchSteps
BY DEF Steps, SwitchSteps, RequestSteps, LoopSteps, MainSteps

LEMMA InvRequest ==
  ASSUME TypeOK, IInv, NEW r \in Requests, Request(r) \/ GiveUp(r)
  PROVE  IInv'
<1> USE DEF schedVars, procVars, localVars, reqVars
<1>1. r \in Goroutines
  OBVIOUS
<1>2. \E from, to \in Steps \ SwitchSteps : Step(r, from, to)
  <2>1. CASE EnsureCoding(r)
    BY <2>1, OutsideNames DEF EnsureCoding
  <2>2. CASE ReadBase(r)
    BY <2>2, OutsideNames DEF ReadBase
  <2>3. QED
    BY <2>1, <2>2, OutsideNames DEF Request, Arrive, Released, TouchAgain, ReadKey, Count,
       RejectBody, Finish, GiveUp
<1>3. UNCHANGED <<switchMu, cmd, readyCh, readyChClosed, closed, proc, victim>>
  BY DEF Request, Arrive, EnsureCoding, Released, ReadBase, TouchAgain, ReadKey, Count,
     RejectBody, Finish, GiveUp
<1>4. \A c \in Switchers : c # r => chan'[c] = chan[c]
  <2>1. \/ chan' = chan
        \/ chan' = [chan EXCEPT ![r] = readyCh]
        \/ chan' = [chan EXCEPT ![r] = Nil]
    BY DEF Request, Arrive, EnsureCoding, Released, ReadBase, TouchAgain, ReadKey, Count,
       RejectBody, Finish, GiveUp
  <2>2. QED
    BY <2>1 DEF TypeOK
<1>5. PICK from \in Steps \ SwitchSteps, to \in Steps \ SwitchSteps : Step(r, from, to)
  BY <1>2
<1>6. QED
  BY <1>1, <1>3, <1>4, <1>5, LocalStep

LEMMA InvReap ==
  ASSUME TypeOK, IInv, NEW g \in Switches, Reap(g)
  PROVE  IInv'
<1>1. UNCHANGED <<switchMu, cmd, readyCh, readyChClosed, closed, pc, chan, victim>>
  BY DEF Reap, localVars
<1>2. /\ proc[g] # "none" /\ proc'[g] = "reaped"
      /\ \A h \in Switches : h # g => proc'[h] = proc[h]
  BY DEF Reap, TypeOK
<1>3. QED
  BY <1>1, <1>2, ProcessStep

LEMMA InvLoop ==
  ASSUME TypeOK, IInv, Loop
  PROVE  IInv'
<1> USE DEF schedVars, procVars, localVars, reqVars
<1>1. "loop" \in Goroutines /\ "loop" \in Switchers
  OBVIOUS
<1>2. CASE ReconcileStart \/ ReconcileProbeOK \/ ReconcileProbeFails \/ ReconcileApply
           \/ LeaseTick \/ LoopDone
  <2>1. UNCHANGED <<switchMu, cmd, readyCh, readyChClosed, closed, proc, victim>>
    BY <1>2 DEF ReconcileStart, ReconcileProbeOK, ReconcileProbeFails, ReconcileApply,
       LeaseTick, LoopDone
  <2>2. \A c \in Switchers : c # "loop" => chan'[c] = chan[c]
    BY <1>2 DEF ReconcileStart, ReconcileProbeOK, ReconcileProbeFails, ReconcileApply,
       ReconcileReturn, LeaseTick, LoopDone, TypeOK
  <2>3. CASE UNCHANGED <<pc, chan>>
    <3>1. \A g \in Switches : proc'[g] = proc[g]
      BY <2>1
    <3>2. QED
      BY <2>1, <2>3, <3>1, ProcessStep
  <2>4. CASE \E from, to \in Steps \ SwitchSteps : Step("loop", from, to)
    BY <1>1, <2>1, <2>2, <2>4, LocalStep
  <2>5. \/ UNCHANGED <<pc, chan>>
        \/ \E from, to \in Steps \ SwitchSteps : Step("loop", from, to)
    BY <1>2, OutsideNames DEF ReconcileStart, ReconcileProbeOK, ReconcileProbeFails,
       ReconcileApply, LeaseTick, LoopDone
  <2>6. QED
    BY <2>3, <2>4, <2>5
<1>3. CASE ReconcileClose
  <2>1. /\ Step("loop", "recClose", "idle")
        /\ UNCHANGED <<switchMu, cmd, readyCh, proc, victim>>
        /\ chan' = [chan EXCEPT !["loop"] = Nil]
    BY <1>3 DEF ReconcileClose, ReconcileReturn
  <2>2. /\ pc["loop"] = "recClose" /\ pc'["loop"] = "idle"
        /\ \A b \in Switchers : b # "loop" => pc'[b] = pc[b] /\ chan'[b] = chan[b]
    BY <1>1, <2>1, StepMoves, OutsideNames DEF TypeOK
  <2>3. ChannelFlag' /\ \A c \in closed' : c <= readyCh'
    BY <1>1, <1>3, <2>1, MarkKeepsFlag DEF ReconcileClose, TypeOK
  <2>4. {"recClose", "idle"} \cap SwitchSteps = {}
    BY OutsideNames
  <2>5. \A b \in Switchers :
          /\ pc'[b] = pc[b] \/ (pc[b] \notin SwitchSteps /\ pc'[b] \notin SwitchSteps)
          /\ pc[b] \in SwitchSteps => chan'[b] = chan[b]
    BY <2>2, <2>4
  <2>6. QED
    BY <2>1, <2>3, <2>5, OutsideStep
<1>4. QED
  BY <1>2, <1>3 DEF Loop

LEMMA InvMain ==
  ASSUME TypeOK, IInv, Main
  PROVE  IInv'
<1> USE DEF schedVars, procVars, localVars, reqVars
<1>1. "main" \in Goroutines /\ "main" \notin Switchers
  BY NamesAssumption
<1>2. CASE ServerClosed \/ ShutdownTake
  <2>1. /\ UNCHANGED <<switchMu, cmd, readyCh, readyChClosed, closed, proc, chan>>
        /\ victim' = victim \/ victim' = [victim EXCEPT !["main"] = cmd]
    BY <1>2 DEF ServerClosed, ShutdownTake
  <2>2. \A c \in Switchers : victim'[c] = victim[c]
    BY <1>1, <2>1 DEF TypeOK
  <2>3. \E from, to \in Steps \ SwitchSteps : Step("main", from, to)
    BY <1>2, OutsideNames DEF ServerClosed, ShutdownTake
  <2>4. QED
    BY <1>1, <2>1, <2>2, <2>3, LocalStep
<1>3. CASE ShutdownKill
  <2>1. /\ Step("main", "killing", "exited")
        /\ SendKill(victim["main"])
        /\ UNCHANGED <<switchMu, cmd, readyCh, readyChClosed, closed, victim, chan>>
    BY <1>3 DEF ShutdownKill
  <2>2. \A b \in Switchers : pc'[b] = pc[b]
    BY <1>1, <2>1, StepMoves, OutsideNames
  <2>3. \A g \in Switches : proc'[g] = proc[g] \/ (Running(g) /\ proc'[g] = "killed")
    BY <2>1 DEF SendKill, TypeOK
  <2>4. ChannelFlag' /\ \A c \in closed' : c <= readyCh'
    BY <2>1 DEF IInv, ChannelFlag, NothingAhead
  <2>5. QED
    BY <2>1, <2>2, <2>3, <2>4, OutsideStep
<1>4. QED
  BY <1>2, <1>3 DEF Main

LEMMA InvEnvironment ==
  ASSUME TypeOK, IInv, Environment
  PROVE  IInv'
<1> USE DEF schedVars, procVars, localVars, reqVars
<1>1. CASE \E g \in Switches : ModelLoaded(g) \/ Hang(g) \/ Exit(g)
  <2>1. PICK g \in Switches : ModelLoaded(g) \/ Hang(g) \/ Exit(g)
    BY <1>1
  <2>2. UNCHANGED <<switchMu, cmd, readyCh, readyChClosed, closed, pc, chan, victim>>
    BY <2>1 DEF ModelLoaded, Hang, Exit, ProcStep
  <2>3. \A h \in Switches : h # g => proc'[h] = proc[h]
    BY <2>1 DEF ModelLoaded, Hang, Exit, ProcStep, TypeOK
  <2>4. \/ Running(g) /\ Running(g)'
        \/ proc[g] # "none" /\ proc'[g] = "dead"
    BY <2>1 DEF ModelLoaded, Hang, Exit, ProcStep, TypeOK, Running
  <2>5. QED
    BY <2>2, <2>3, <2>4, ProcessStep
<1>2. CASE \E r \in Requests : GiveUp(r)
  BY <1>2, InvRequest
<1>3. CASE LeaseElapses
  <2>1. UNCHANGED <<switchMu, cmd, readyCh, readyChClosed, closed, pc, chan, victim, proc>>
    BY <1>3 DEF LeaseElapses
  <2>2. QED
    BY <2>1, ProcessStep
<1>4. CASE Signal
  <2>1. /\ Step("main", "serving", "closing") /\ "main" \in Goroutines
        /\ UNCHANGED <<switchMu, cmd, readyCh, readyChClosed, closed, chan, victim, proc>>
    BY <1>4 DEF Signal
  <2>2. QED
    BY <2>1, LocalStep, OutsideNames
<1>5. QED
  BY <1>1, <1>2, <1>3, <1>4 DEF Environment

LEMMA InvNext == TypeOK /\ IInv /\ [Next]_vars => IInv'
<1> SUFFICES ASSUME TypeOK, IInv, [Next]_vars PROVE IInv'
  OBVIOUS
<1>1. CASE UNCHANGED vars
  BY <1>1, ProcessStep DEF vars, schedVars, procVars, localVars, reqVars
<1>2. CASE Next
  BY <1>2, InvEnsureTarget, InvRequest, InvReap, InvLoop, InvMain, InvEnvironment DEF Next
<1>3. QED
  BY <1>1, <1>2

(* The inductive invariant holds in every reachable state: the holder of
   switchMu is alone in ensureTarget, its locals agree with s.cmd and s.readyCh,
   readyChClosed tells the truth and no running process is unowned. *)
THEOREM Invariance == Spec => []IInv
<1>1. Init => TypeOK /\ IInv
  BY TypeInit, InvInit
<1>2. TypeOK /\ IInv /\ [Next]_vars => (TypeOK /\ IInv)'
  BY TypeNext, InvNext
<1>3. QED
  BY <1>1, <1>2, PTL DEF Spec

(* No model process is leaked: see ProcessOwned (stopProcess, Shutdown and the
   failing branches of ensureTarget). *)
THEOREM ProcessesAreOwned == Spec => []ProcessOwned
<1>1. IInv => ProcessOwned
  BY DEF IInv
<1>2. QED
  BY <1>1, Invariance, PTL

(* readyChClosed agrees with the channel it speaks of, so that no channel is
   closed twice and no close is swallowed (markReadyClosed). *)
THEOREM FlagIsTrue == Spec => []ChannelFlag
<1>1. IInv => ChannelFlag
  BY DEF IInv
<1>2. QED
  BY <1>1, Invariance, PTL

(* Two owned processes are one: s.cmd is nil while a switch has a process in
   its locals, and only one goroutine is switching. *)
LEMMA OneOwned ==
  ASSUME TypeOK, IInv, NEW g \in Switches, NEW h \in Switches, Owned(g), Owned(h)
  PROVE  g = h
<1>1. g # Nil /\ h # Nil
  BY BoundAssumption
<1>2. {"kill", "killWait", "publish"} \subseteq SwitchSteps
  BY DEF SwitchSteps
<1>3. \A a, b \in Switchers :
        pc[a] \in {"kill", "killWait", "publish"} /\ pc[b] \in {"kill", "killWait", "publish"}
          => a = b
  BY <1>2, HolderAlone
<1>4. \A a \in Switchers : pc[a] \in {"kill", "killWait", "publish"} => cmd = Nil
  BY DEF IInv, SwitchLocals
<1>5. QED
  BY <1>1, <1>3, <1>4 DEF Owned

(* The two models are never in memory together, unless kill_timeout let a
   killed process outlive its switch (stopProcess before cmd.Start). *)
THEOREM OneModelAtATime == Spec => []OneModel
<1>1. TypeOK /\ IInv => OneModel
  <2> SUFFICES ASSUME TypeOK, IInv, NEW g \in Switches, NEW h \in Switches,
                      Loaded(g), Loaded(h), g # h
               PROVE  "killTimeout" \in Events /\ "killed" \in {proc[g], proc[h]}
    BY DEF OneModel
  <2>1. ~(Owned(g) /\ Owned(h))
    BY OneOwned
  <2>2. QED
    BY <2>1 DEF IInv, ProcessOwned
<1>2. QED
  BY <1>1, TypeCorrect, Invariance, PTL

(* s.mode, and with it the address and the key requests are sent with, changes
   only while no model process runs: see ModeChangesUnloaded (ensureTarget sets
   it after stopProcess and before cmd.Start). *)
THEOREM ModeChangesSafely == Spec => ModeChangesUnloaded
<1>1. TypeOK /\ IInv /\ [Next]_vars =>
        [mode' # mode => \A g \in Switches : ~Running(g)]_vars
  <2> SUFFICES ASSUME TypeOK, IInv, [Next]_vars, mode' # mode, NEW g \in Switches
               PROVE  ~Running(g)
    OBVIOUS
  <2> USE DEF schedVars, vars
  <2>1. ASSUME NEW a \in Switchers, EnsureTarget(a) PROVE Install(a)
    BY <2>1 DEF EnsureTarget, AcquireSwitch, AlreadySwitched, Drain, TakeProcess, Kill,
       KillDone, StartCmd, StartCmdFails, FailClose, PublishCmd, AwaitOK, AwaitFails,
       SetReady, CloseReady, SetFailed
  <2>2. ASSUME NEW r \in Requests, Request(r) PROVE FALSE
    BY <2>2 DEF Request, Arrive, EnsureCoding, Released, ReadBase, TouchAgain, ReadKey,
       Count, RejectBody, Finish
  <2>3. ASSUME NEW h \in Switches, Reap(h) PROVE FALSE
    BY <2>3 DEF Reap
  <2>4. ~Loop
    BY DEF Loop, ReconcileStart, ReconcileProbeOK, ReconcileProbeFails, ReconcileApply,
       ReconcileClose, LeaseTick, LoopDone
  <2>5. ~Main /\ ~Environment
    BY DEF Main, ServerClosed, ShutdownTake, ShutdownKill, Environment, ModelLoaded, Hang,
       Exit, ProcStep, GiveUp, LeaseElapses, Signal
  <2>6. PICK a \in Switchers : Install(a)
    BY <2>1, <2>2, <2>3, <2>4, <2>5 DEF Next
  <2>7. pc[a] = "install" /\ "install" \in SwitchSteps
    BY <2>6 DEF Install, Step, SwitchSteps
  <2>8. cmd = Nil /\ \A b \in Switchers : b # a => pc[b] \notin SwitchSteps
    BY <2>7, HolderAlone DEF IInv, SwitchLocals
  <2>9. ~Owned(g)
    BY <2>7, <2>8, BoundAssumption DEF Owned, SwitchSteps
  <2>10. QED
    BY <2>9 DEF IInv, ProcessOwned, Loaded, Running
<1>2. QED
  BY <1>1, TypeCorrect, Invariance, PTL DEF Spec, ModeChangesUnloaded

-----------------------------------------------------------------------------
(* Shutdown. *)

(* The steps that end the proxy: a failing Start, and Shutdown. *)
LEMMA ExitSteps ==
  ASSUME TypeOK, Next, pc'["main"] = "exited"
  PROVE  \/ FailClose("start") \/ SetFailed("start")
         \/ ShutdownKill
         \/ ShutdownTake /\ cmd = Nil
<1>1. "main" \notin Switchers /\ "main" \in Goroutines /\ Switchers \subseteq Goroutines
  BY NamesAssumption
<1>2. pc["main"] # "exited" /\ pc \in [Goroutines -> Steps]
  BY DEF Next, TypeOK
<1>3. ASSUME NEW a \in Goroutines, a # "main", NEW from, NEW to, Step(a, from, to) PROVE FALSE
  BY <1>2, <1>3 DEF Step
<1>4. ASSUME NEW a \in Switchers, EnsureTarget(a)
      PROVE  a = "start" /\ (FailClose(a) \/ SetFailed(a))
  <2>1. ASSUME NEW from, NEW ch, NEW ok \in BOOLEAN, Return(a, from, ch, ok)
        PROVE  a = "start" /\ ~ok
    BY <1>1, <1>2, <2>1 DEF Return
  <2>2. ~(AlreadySwitched(a) \/ CloseReady(a))
    BY <2>1 DEF AlreadySwitched, CloseReady
  <2>3. FailClose(a) \/ SetFailed(a) => a = "start"
    BY <2>1 DEF FailClose, SetFailed
  <2>4. CASE ~ (AlreadySwitched(a) \/ FailClose(a) \/ CloseReady(a) \/ SetFailed(a))
    <3>1. \E from, to : Step(a, from, to)
      BY <1>4, <2>4 DEF EnsureTarget, AcquireSwitch, Drain, TakeProcess, Kill, KillDone,
         Install, StartCmd, StartCmdFails, PublishCmd, AwaitOK, AwaitFails, SetReady
    <3>2. QED
      BY <1>1, <1>3, <3>1
  <2>5. QED
    BY <2>2, <2>3, <2>4
<1>5. ASSUME NEW r \in Requests, Request(r) \/ GiveUp(r) PROVE FALSE
  <2>1. \E from, to : Step(r, from, to)
    BY <1>5 DEF Request, Arrive, EnsureCoding, Released, ReadBase, TouchAgain, ReadKey, Count,
       RejectBody, Finish, GiveUp
  <2>2. QED
    BY <1>1, <1>3, <2>1
<1>6. ~Loop
  <2>1. Loop => UNCHANGED pc \/ \E from, to : Step("loop", from, to)
    BY DEF Loop, ReconcileStart, ReconcileProbeOK, ReconcileProbeFails, ReconcileApply,
       ReconcileClose, LeaseTick, LoopDone
  <2>2. QED
    BY <1>1, <1>2, <1>3, <2>1
<1>7. ~ServerClosed /\ ~Signal /\ (ShutdownTake => cmd = Nil)
  BY <1>1, <1>2 DEF ServerClosed, Signal, ShutdownTake, Step
<1>8. ~((\E g \in Switches : Reap(g) \/ ModelLoaded(g) \/ Hang(g) \/ Exit(g)) \/ LeaseElapses)
  BY <1>2 DEF Reap, ModelLoaded, Hang, Exit, ProcStep, LeaseElapses
<1>9. QED
  BY <1>4, <1>5, <1>6, <1>7, <1>8 DEF Next, Environment, Main

(* However the proxy ends, it leaves no process running but those CleanExit
   names. *)
THEOREM ExitsAreClean == Spec => CleanExit
<1>1. ASSUME TypeOK, IInv, Next, pc'["main"] = "exited", NEW g \in Switches, Running(g)'
      PROVE  \/ g = cmd /\ pc["start"] # "done" /\ pc'["start"] = "done"
             \/ InHand(g)
             \/ g = cmd /\ pc["main"] = "killing" /\ g # victim["main"]
  <2>1. ASSUME Running(g), g # cmd PROVE InHand(g)
    <3>1. PICK a \in Switchers : \/ pc[a] \in {"kill", "killWait"} /\ victim[a] = g
                                 \/ pc[a] = "publish" /\ chan[a] = g
      BY <1>1, <2>1 DEF IInv, ProcessOwned, Owned, Loaded, Running
    <3>2. pc[a] = "killWait" => ~Running(victim[a])
      BY <1>1 DEF IInv, SwitchLocals
    <3>3. ~(pc[a] = "killWait" /\ victim[a] = g)
      BY <2>1, <3>2
    <3>4. QED
      BY <3>1, <3>3 DEF InHand
  <2>2. Running(g) => g = cmd \/ InHand(g)
    BY <2>1
  <2>3. CASE FailClose("start") \/ SetFailed("start")
    <3>1. proc' = proc
      BY <2>3 DEF FailClose, SetFailed, procVars
    <3>2. /\ pc["start"] \in {"failClose", "setFailed"}
          /\ pc' = [pc EXCEPT !["start"] = AfterSwitch("start", FALSE), !["main"] = "exited"]
      BY <2>3 DEF FailClose, SetFailed, Return
    <3>3. AfterSwitch("start", FALSE) = "done"
      BY NamesAssumption DEF AfterSwitch
    <3>4. pc["start"] # "done" /\ pc'["start"] = "done"
      BY <1>1, <3>2, <3>3, NamesAssumption DEF TypeOK
    <3>5. QED
      BY <1>1, <2>2, <3>1, <3>4 DEF Running
  <2>4. CASE ShutdownKill
    <3>1. /\ pc["main"] = "killing"
          /\ proc' = IF Running(victim["main"]) THEN [proc EXCEPT ![victim["main"]] = "killed"]
                                                ELSE proc
      BY <2>4 DEF ShutdownKill, Step, SendKill
    <3>2. Running(g) /\ g # victim["main"]
      BY <1>1, <3>1 DEF Running, TypeOK
    <3>3. QED
      BY <2>2, <3>1, <3>2
  <2>5. CASE ShutdownTake /\ cmd = Nil
    <3>1. proc' = proc /\ g # cmd
      BY <2>5, BoundAssumption DEF ShutdownTake, procVars
    <3>2. QED
      BY <1>1, <2>2, <3>1 DEF Running
  <2>6. QED
    BY <1>1, <2>3, <2>4, <2>5, ExitSteps
<1>2. TypeOK /\ IInv /\ [Next]_vars =>
        (pc["main"] # "exited" /\ pc'["main"] = "exited" =>
           \A g \in Switches : Running(g)' =>
             \/ g = cmd /\ pc["start"] # "done" /\ pc'["start"] = "done"
             \/ InHand(g)
             \/ g = cmd /\ pc["main"] = "killing" /\ g # victim["main"])
  BY <1>1 DEF vars
<1>3. QED
  BY <1>2, TypeCorrect, Invariance, PTL DEF Spec, CleanExit
-----------------------------------------------------------------------------
(* Waiting for a ready channel. *)

(* The steps of a switch that has installed a channel and not closed it. *)
OpenSteps == {"exec", "publish", "failClose", "await", "setReady", "closeReady", "setFailed"}

(* The current channel is closed or given up, or the switch that installed it
   is still at work. *)
WaitersServed ==
  /\ OrphanedOnlyByGivingUp
  /\ \A r \in Requests : pc[r] = "wait" => chan[r] # Nil
  /\ \/ readyCh \in closed \cup gaveUp \cup {Nil}
     \/ \E a \in Switchers : pc[a] \in OpenSteps

(* A step that installs no channel serves the waiters if those it adds hold
   the current channel, and if a switch it ends has closed that or gives up. *)
LEMMA ServedStep ==
  ASSUME WaitersServed, readyCh' = readyCh, closed \subseteq closed', gaveUp \subseteq gaveUp',
         \A r \in Requests : pc'[r] = "wait" =>
           (pc[r] = "wait" /\ chan'[r] = chan[r]) \/ (chan'[r] = readyCh /\ readyCh # Nil),
         \A a \in Switchers : pc[a] \in OpenSteps =>
           pc'[a] \in OpenSteps \/ readyCh \in closed' \cup gaveUp'
  PROVE  WaitersServed'
BY DEF WaitersServed, OrphanedOnlyByGivingUp

(* The same for a step of one goroutine b that is not the end of a switch. *)
LEMMA ServedMove ==
  ASSUME TypeOK, WaitersServed, NEW b \in Goroutines, NEW from, NEW to,
         Step(b, from, to), readyCh' = readyCh, closed \subseteq closed', gaveUp \subseteq gaveUp',
         \A c \in Switchers : c # b => chan'[c] = chan[c],
         to = "wait" => chan'[b] = readyCh /\ readyCh # Nil,
         from \in OpenSteps => to \in OpenSteps
  PROVE  WaitersServed'
<1>1. pc[b] = from /\ pc'[b] = to /\ \A c \in Goroutines : c # b => pc'[c] = pc[c]
  BY DEF Step, TypeOK
<1>2. QED
  BY <1>1, ServedStep

LEMMA ServedInstall ==
  ASSUME TypeOK, IInv, WaitersServed, Remember, NEW a \in Switchers, Install(a)
  PROVE  WaitersServed'
<1>1. /\ pc[a] = "install" /\ pc'[a] \in {"exec", "await"}
      /\ \A b \in Switchers : b # a => pc'[b] = pc[b] /\ chan'[b] = chan[b]
      /\ closed' = closed /\ gaveUp \subseteq gaveUp'
  BY NamesAssumption DEF Install, Step, TypeOK, Remember
<1>2. \A b \in Switchers : b # a => pc[b] \notin SwitchSteps
  BY <1>1, HolderAlone DEF SwitchSteps
<1>3. readyCh \in closed \cup gaveUp \cup {Nil}
  BY <1>1, <1>2 DEF WaitersServed, OpenSteps, SwitchSteps
<1>4. \A r \in Requests : pc'[r] = "wait" => chan'[r] \in closed' \cup gaveUp'
  BY <1>1, <1>3 DEF WaitersServed, OrphanedOnlyByGivingUp
<1>5. \A r \in Requests : pc'[r] = "wait" => chan'[r] # Nil
  BY <1>1 DEF WaitersServed
<1>6. pc'[a] \in OpenSteps
  BY <1>1 DEF OpenSteps
<1>7. QED
  BY <1>4, <1>5, <1>6 DEF WaitersServed, OrphanedOnlyByGivingUp

LEMMA ServedEnsureTarget ==
  ASSUME TypeOK, IInv, WaitersServed, Remember, NEW a \in Switchers, EnsureTarget(a)
  PROVE  WaitersServed'
<1> USE DEF schedVars, localVars, procVars
<1>0. gaveUp \subseteq gaveUp'
  BY DEF Remember
<1>1. a \in Goroutines /\ a # "main" /\ "main" \in Goroutines
  BY NamesAssumption
<1>2. ASSUME NEW from, NEW ch, NEW ok \in BOOLEAN, Return(a, from, ch, ok)
      PROVE  /\ pc[a] = from
             /\ pc'[a] \in {"wait", "failed", "idle", "done"}
             /\ pc'[a] = "wait" => ok /\ chan'[a] = ch
             /\ \A b \in Switchers : b # a => pc'[b] = pc[b] /\ chan'[b] = chan[b]
  <2>1. /\ AfterSwitch(a, ok) \in {"wait", "failed", "idle", "done"}
        /\ AfterSwitch(a, ok) = "wait" => ok /\ a \in Requests
    BY DEF AfterSwitch
  <2>2. /\ pc' = [pc EXCEPT ![a] = AfterSwitch(a, ok),
                            !["main"] = IF a = "start" /\ ~ok THEN "exited" ELSE @]
        /\ chan' = [chan EXCEPT ![a] = IF a \in Requests /\ ok THEN ch ELSE Nil]
        /\ pc[a] = from
    BY <1>2 DEF Return
  <2>3. QED
    BY <1>1, <2>1, <2>2, NamesAssumption DEF TypeOK
<1>3. CASE AlreadySwitched(a)
  <2>1. mode # "none"
    BY <1>3 DEF AlreadySwitched, Target
  <2>2. readyCh # Nil /\ readyCh' = readyCh /\ closed' = closed /\ Return(a, "lock", readyCh, TRUE)
    BY <1>3, <2>1 DEF AlreadySwitched, TypeOK
  <2>3. /\ pc[a] = "lock" /\ pc'[a] \in {"wait", "failed", "idle", "done"}
        /\ pc'[a] = "wait" => chan'[a] = readyCh
        /\ \A b \in Switchers : b # a => pc'[b] = pc[b] /\ chan'[b] = chan[b]
    BY <1>2, <2>2
  <2>4. QED
    BY <1>0, <2>2, <2>3, ServedStep DEF OpenSteps
<1>4. ASSUME NEW from \in {"failClose", "closeReady"}, NEW ok \in BOOLEAN,
             Return(a, from, chan[a], ok), MarkReadyClosed(chan[a]), readyCh' = readyCh
      PROVE  WaitersServed'
  <2>1. pc[a] = from /\ chan[a] = readyCh /\ readyCh # Nil
    BY <1>2, <1>4 DEF IInv, SwitchLocals
  <2>2. readyCh \in closed' /\ closed \subseteq closed'
    BY <1>4, <2>1 DEF MarkReadyClosed, IInv, ChannelFlag
  <2>3. QED
    BY <1>0, <1>2, <1>4, <2>1, <2>2, ServedStep DEF OpenSteps
<1>5. CASE FailClose(a) \/ CloseReady(a)
  BY <1>4, <1>5 DEF FailClose, CloseReady
<1>6. CASE SetFailed(a)
  <2>1. Return(a, "setFailed", chan[a], FALSE) /\ UNCHANGED <<readyCh, closed>>
    BY <1>6 DEF SetFailed
  <2>2. /\ pc[a] = "setFailed" /\ pc'[a] \notin {"wait", "setFailed"}
        /\ \A b \in Switchers : b # a => pc'[b] = pc[b] /\ chan'[b] = chan[b]
    BY <1>2, <2>1
  <2>3. chan[a] = readyCh
    BY <2>2 DEF IInv, SwitchLocals
  <2>4. readyCh \in gaveUp'
    BY <2>2, <2>3 DEF Remember, GivingUp
  <2>5. QED
    BY <1>0, <2>1, <2>2, <2>4, ServedStep
<1>7. CASE Install(a)
  BY <1>7, ServedInstall
<1>8. CASE AcquireSwitch(a) \/ Drain(a) \/ TakeProcess(a) \/ Kill(a) \/ KillDone(a)
  <2>1. /\ UNCHANGED <<readyCh, closed, chan>>
        /\ \E from, to \in {"lock", "drain", "stop", "kill", "killWait", "install"} :
             Step(a, from, to)
    BY <1>8 DEF AcquireSwitch, Drain, TakeProcess, Kill, KillDone
  <2>2. QED
    BY <1>0, <1>1, <2>1, ServedMove DEF OpenSteps
<1>9. CASE StartCmd(a) \/ StartCmdFails(a) \/ PublishCmd(a) \/ AwaitOK(a) \/ AwaitFails(a)
         \/ SetReady(a)
  <2>1. /\ UNCHANGED <<readyCh, closed, chan>>
        /\ \E from, to \in {"exec", "publish", "failClose", "await", "setReady", "closeReady",
                         "setFailed"} :
             Step(a, from, to)
    BY <1>9 DEF StartCmd, StartCmdFails, PublishCmd, AwaitOK, AwaitFails, SetReady
  <2>2. QED
    BY <1>0, <1>1, <2>1, ServedMove DEF OpenSteps
<1>10. QED
  BY <1>3, <1>5, <1>6, <1>7, <1>8, <1>9 DEF EnsureTarget

LEMMA ServedNext ==
  TypeOK /\ IInv /\ WaitersServed /\ [HistoryNext]_<<vars, gaveUp>> => WaitersServed'
<1> SUFFICES ASSUME TypeOK, IInv, WaitersServed, [HistoryNext]_<<vars, gaveUp>>
             PROVE  WaitersServed'
  OBVIOUS
<1> USE DEF schedVars, localVars, procVars
<1>1. CASE UNCHANGED <<vars, gaveUp>>
  BY <1>1 DEF vars, WaitersServed, OrphanedOnlyByGivingUp
<1>2. SUFFICES ASSUME Next, Remember PROVE WaitersServed'
  BY <1>1 DEF HistoryNext
<1>3. /\ gaveUp \subseteq gaveUp'
      /\ "main" \in Goroutines /\ Switchers \subseteq Goroutines
  BY <1>2 DEF Remember
<1>4. ASSUME NEW a \in Switchers, EnsureTarget(a) PROVE WaitersServed'
  BY <1>2, <1>4, ServedEnsureTarget
<1>5. ASSUME NEW r \in Requests, Request(r) \/ GiveUp(r) PROVE WaitersServed'
  <2>1. UNCHANGED <<readyCh, closed>>
    BY <1>5 DEF Request, Arrive, EnsureCoding, Released, ReadBase, TouchAgain, ReadKey, Count,
       RejectBody, Finish, GiveUp
  <2>2. \A c \in Switchers : c # r => chan'[c] = chan[c]
    <3>1. \E x : chan' = chan \/ chan' = [chan EXCEPT ![r] = x]
      BY <1>5 DEF Request, Arrive, EnsureCoding, Released, ReadBase, TouchAgain, ReadKey, Count,
         RejectBody, Finish, GiveUp
    <3>2. QED
      BY <3>1 DEF TypeOK
  <2>3. \E from \in {"arrive", "ensure", "wait", "readBase", "touch", "readKey", "count",
                     "inflight"},
           to \in {"ensure", "lock", "wait", "readBase", "touch", "readKey", "count",
                   "inflight", "done", "failed"} :
          /\ Step(r, from, to)
          /\ to = "wait" => chan'[r] = readyCh /\ readyCh # Nil
    <3>1. CASE EnsureCoding(r)
      BY <3>1 DEF EnsureCoding, TypeOK
    <3>2. CASE ReadBase(r)
      BY <3>2 DEF ReadBase
    <3>3. QED
      BY <1>5, <3>1, <3>2 DEF Request, Arrive, Released, TouchAgain, ReadKey, Count,
         RejectBody, Finish, GiveUp
  <2>4. QED
    BY <1>3, <2>1, <2>2, <2>3, ServedMove DEF OpenSteps
<1>6. CASE Loop
  <2>1. readyCh' = readyCh /\ closed \subseteq closed'
    BY <1>6 DEF Loop, ReconcileStart, ReconcileProbeOK, ReconcileProbeFails, ReconcileApply,
       ReconcileClose, LeaseTick, LoopDone, MarkReadyClosed
  <2>2. \A c \in Switchers : c # "loop" => chan'[c] = chan[c]
    BY <1>6 DEF Loop, ReconcileStart, ReconcileProbeOK, ReconcileProbeFails, ReconcileApply,
       ReconcileClose, ReconcileReturn, LeaseTick, LoopDone, TypeOK
  <2>3. \/ UNCHANGED <<pc, chan>>
        \/ \E from, to \in {"idle", "probe", "apply", "recClose", "lock", "done"} :
             Step("loop", from, to)
    BY <1>6 DEF Loop, ReconcileStart, ReconcileProbeOK, ReconcileProbeFails, ReconcileApply,
       ReconcileClose, LeaseTick, LoopDone
  <2>4. CASE UNCHANGED <<pc, chan>>
    BY <1>3, <2>1, <2>4, ServedStep
  <2>5. QED
    BY <1>3, <2>1, <2>2, <2>3, <2>4, ServedMove DEF OpenSteps
<1>7. CASE Main \/ Signal
  <2>1. /\ UNCHANGED <<readyCh, closed, chan>>
        /\ \E from, to \in {"serving", "closing", "shutdown", "killing", "exited"} :
             Step("main", from, to)
    BY <1>7 DEF Main, ServerClosed, ShutdownTake, ShutdownKill, Signal
  <2>2. QED
    BY <1>3, <2>1, ServedMove DEF OpenSteps
<1>8. CASE (\E g \in Switches : Reap(g) \/ ModelLoaded(g) \/ Hang(g) \/ Exit(g)) \/ LeaseElapses
  <2>1. UNCHANGED <<readyCh, closed, chan, pc>>
    BY <1>8 DEF Reap, ModelLoaded, Hang, Exit, ProcStep, LeaseElapses
  <2>2. QED
    BY <1>3, <2>1, ServedStep
<1>9. QED
  BY <1>2, <1>4, <1>5, <1>6, <1>7, <1>8 DEF Next, Environment

(* Whoever waits for a channel that no longer is the current one, and that is
   not closed, waits for one whose switch gave up its wait: see
   OrphanedOnlyByGivingUp. *)
THEOREM OrphansAreGivenUp == HistorySpec => []OrphanedOnlyByGivingUp
<1>1. HistoryInit => Init /\ WaitersServed
  BY NamesAssumption DEF HistoryInit, Init, WaitersServed, OrphanedOnlyByGivingUp
<1>2. TypeOK /\ IInv /\ WaitersServed /\ [HistoryNext]_<<vars, gaveUp>> => WaitersServed'
  BY ServedNext
<1>3. WaitersServed => OrphanedOnlyByGivingUp
  BY DEF WaitersServed
<1>4. [HistoryNext]_<<vars, gaveUp>> => [Next]_vars
  BY DEF HistoryNext
<1>5. HistorySpec => Spec
  BY <1>1, <1>4, PTL DEF HistorySpec, Spec
<1>6. QED
  BY <1>1, <1>2, <1>3, <1>5, TypeCorrect, Invariance, PTL DEF HistorySpec

-----------------------------------------------------------------------------
(* The scheduler implements the model host, for any requests, commands, events
   and number of switches. *)

(* Beyond IInv the step simulation needs that the mode a process is started
   for is still the active one, that nothing is announced before the first
   switch, and that a request holds an address only on its way through. *)
StartsActive ==
  \A a \in Switchers : pc[a] = "exec" => mode = Target(a) /\ mode \in Managed

HasMode == cmd # Nil \/ pc["loop"] \in {"probe", "apply"} => readyCh # Nil

Holding    == {"touch", "readKey", "count", "inflight"}
HoldsOnWay == \A r \in Requests : base[r] # "none" => pc[r] \in Holding

HostInv == StartsActive /\ HasMode /\ HoldsOnWay

LEMMA HostInvInit == Init => HostInv
<1> SUFFICES ASSUME Init PROVE HostInv
  OBVIOUS
<1>1. \A a \in Switchers : pc[a] \in {"arrive", "lock", "idle"}
  BY NamesAssumption DEF Init
<1>2. cmd = Nil /\ pc["loop"] = "idle" /\ \A r \in Requests : base[r] = "none"
  BY NamesAssumption DEF Init
<1>3. QED
  BY <1>1, <1>2 DEF HostInv, StartsActive, HasMode, HoldsOnWay

-----------------------------------------------------------------------------
(* HostInv is kept. *)

(* A step that sets neither the mode, nor s.cmd, nor an address, and moves one
   goroutine to anywhere but "exec", "probe" and "apply". *)
LEMMA PlainStep ==
  ASSUME TypeOK, HostInv,
         UNCHANGED <<mode, readyCh, base>>, cmd' = cmd \/ cmd' = Nil,
         \A a \in Switchers :
           \/ pc'[a] = pc[a]
           \/ /\ pc'[a] \notin {"exec", "probe", "apply"}
              /\ pc[a] \in Holding => pc'[a] \in Holding
  PROVE  HostInv'
<1>1. StartsActive'
  BY DEF HostInv, StartsActive, Target
<1>2. HasMode'
  BY DEF HostInv, HasMode
<1>3. HoldsOnWay'
  BY DEF HostInv, HoldsOnWay
<1>4. QED
  BY <1>1, <1>2, <1>3 DEF HostInv

LEMMA HostEnsureTarget ==
  ASSUME TypeOK, IInv, HostInv, NEW a \in Switchers, EnsureTarget(a)
  PROVE  HostInv'
<1> USE DEF schedVars, procVars, localVars, reqVars
<1>1. CASE AlreadySwitched(a) \/ FailClose(a) \/ CloseReady(a) \/ SetFailed(a)
  <2>1. /\ pc[a] \in {"lock", "failClose", "closeReady", "setFailed"}
        /\ pc'[a] \in {"wait", "failed", "idle", "done"}
        /\ \A b \in Switchers : b # a => pc'[b] = pc[b]
    <3>1. CASE AlreadySwitched(a)
      BY <3>1, ReturnMoves, ZenonT(40) DEF AlreadySwitched, TypeOK
    <3>2. CASE FailClose(a)
      BY <3>2, ReturnMoves, ZenonT(40) DEF FailClose, TypeOK
    <3>3. CASE CloseReady(a)
      BY <3>3, ReturnMoves, ZenonT(40) DEF CloseReady, TypeOK
    <3>4. CASE SetFailed(a)
      BY <3>4, ReturnMoves, ZenonT(40) DEF SetFailed, TypeOK
    <3>5. QED
      BY <1>1, <3>1, <3>2, <3>3, <3>4
  <2>2. UNCHANGED <<mode, readyCh, base, cmd>>
    BY <1>1 DEF AlreadySwitched, FailClose, CloseReady, SetFailed
  <2>3. QED
    BY <2>1, <2>2, PlainStep DEF Holding
<1>2. CASE \/ AcquireSwitch(a) \/ Drain(a) \/ TakeProcess(a) \/ Kill(a) \/ KillDone(a)
           \/ StartCmd(a) \/ StartCmdFails(a) \/ AwaitOK(a) \/ AwaitFails(a) \/ SetReady(a)
  <2>1. UNCHANGED <<mode, readyCh, base>> /\ (cmd' = cmd \/ cmd' = Nil)
    BY <1>2 DEF AcquireSwitch, Drain, TakeProcess, Kill, KillDone, StartCmd, StartCmdFails,
       AwaitOK, AwaitFails, SetReady
  <2>2. \E from \in {"lock", "drain", "stop", "kill", "killWait", "exec", "await", "setReady"},
           to \in {"drain", "stop", "install", "kill", "killWait", "publish", "failClose",
                   "setReady", "setFailed", "closeReady"} : Step(a, from, to)
    BY <1>2, Zenon DEF AcquireSwitch, Drain, TakeProcess, Kill, KillDone, StartCmd,
       StartCmdFails, AwaitOK, AwaitFails, SetReady
  <2>3. /\ pc'[a] \notin {"exec", "probe", "apply"} /\ pc[a] \notin Holding
        /\ \A b \in Switchers : b # a => pc'[b] = pc[b]
    BY <2>2, StepMoves, StepNames DEF Holding
  <2>4. QED
    BY <2>1, <2>3, PlainStep
<1>3. CASE Install(a)
  <2>1. /\ mode' = Target(a) /\ readyCh' # Nil
        /\ base' = base /\ cmd' = cmd
    BY <1>3 DEF Install, TypeOK
  <2>2. \E to \in {"exec", "await"} :
          Step(a, "install", to) /\ (to = "exec" => Target(a) \in Managed)
    BY <1>3 DEF Install
  <2>3. /\ pc[a] = "install" /\ pc'[a] \in {"exec", "await"}
        /\ pc'[a] = "exec" => Target(a) \in Managed
        /\ \A b \in Switchers : b # a => pc'[b] = pc[b]
    BY <2>2, StepMoves, StepNames
  <2>4. \A b \in Switchers : b # a => pc[b] # "exec"
    BY <2>3, HolderAlone DEF SwitchSteps
  <2>5. StartsActive'
    BY <2>1, <2>3, <2>4 DEF StartsActive, Target
  <2>6. HasMode' /\ HoldsOnWay'
    BY <2>1, <2>3 DEF HostInv, HasMode, HoldsOnWay, Holding
  <2>7. QED
    BY <2>5, <2>6 DEF HostInv
<1>4. CASE PublishCmd(a)
  <2>1. UNCHANGED <<mode, readyCh, base>> /\ Step(a, "publish", "await")
    BY <1>4 DEF PublishCmd
  <2>2. /\ pc[a] = "publish" /\ pc'[a] = "await"
        /\ \A b \in Switchers : b # a => pc'[b] = pc[b]
    BY <2>1, StepMoves, StepNames
  <2>3. HasMode'
    BY <2>1, <2>2 DEF IInv, SwitchLocals, HasMode
  <2>4. StartsActive' /\ HoldsOnWay'
    BY <2>1, <2>2 DEF HostInv, StartsActive, HoldsOnWay, Holding, Target
  <2>5. QED
    BY <2>3, <2>4 DEF HostInv
<1>5. QED
  BY <1>1, <1>2, <1>3, <1>4 DEF EnsureTarget

LEMMA HostRequest ==
  ASSUME TypeOK, HostInv, NEW r \in Requests, Request(r) \/ GiveUp(r)
  PROVE  HostInv'
<1> USE DEF schedVars, procVars, localVars, reqVars
<1>1. UNCHANGED <<mode, readyCh, cmd>>
  BY DEF Request, Arrive, EnsureCoding, Released, ReadBase, TouchAgain, ReadKey, Count,
     RejectBody, Finish, GiveUp
<1>2. \E from, to \in RequestSteps :
        /\ Step(r, from, to)
        /\ \/ base' = base /\ (from \in Holding => to \in Holding)
           \/ base' = [base EXCEPT ![r] = "none"]
           \/ to \in Holding /\ \E m \in Modes : base' = [base EXCEPT ![r] = m]
  <2>1. CASE EnsureCoding(r)
    BY <2>1 DEF EnsureCoding, RequestSteps, Holding
  <2>2. CASE ReadBase(r)
    <3>1. CASE readyOK /\ mode # "none"
      BY <2>2, <3>1 DEF ReadBase, RequestSteps, Holding, TypeOK
    <3>2. CASE ~readyOK
      BY <2>2, <3>2 DEF ReadBase, RequestSteps
    <3>3. CASE readyOK /\ mode = "none"
      BY <2>2, <3>3 DEF ReadBase, RequestSteps, Holding
    <3>4. QED
      BY <3>1, <3>2, <3>3
  <2>3. QED
    BY <2>1, <2>2 DEF Request, Arrive, Released, TouchAgain, ReadKey, Count,
       RejectBody, Finish, GiveUp, RequestSteps, Holding
<1>3. PICK from \in RequestSteps, to \in RequestSteps :
        /\ Step(r, from, to)
        /\ \/ base' = base /\ (from \in Holding => to \in Holding)
           \/ base' = [base EXCEPT ![r] = "none"]
           \/ to \in Holding /\ \E m \in Modes : base' = [base EXCEPT ![r] = m]
  BY <1>2
<1>4. RequestSteps \subseteq Steps /\ RequestSteps \cap {"exec", "probe", "apply"} = {}
  BY DEF Steps, RequestSteps
<1>5. /\ pc[r] = from /\ pc'[r] = to
      /\ \A b \in Switchers : b # r => pc'[b] = pc[b]
  BY <1>3, <1>4, StepMoves
<1>6. StartsActive'
  BY <1>1, <1>4, <1>5 DEF HostInv, StartsActive, Target
<1>7. HasMode'
  BY <1>1, <1>5, NamesAssumption DEF HostInv, HasMode
<1>8. HoldsOnWay'
  BY <1>3, <1>5, ZenonT(40) DEF HostInv, HoldsOnWay, TypeOK
<1>9. QED
  BY <1>6, <1>7, <1>8 DEF HostInv

LEMMA HostLoop ==
  ASSUME TypeOK, HostInv, Loop
  PROVE  HostInv'
<1> USE DEF schedVars, procVars, localVars, reqVars
<1>1. UNCHANGED <<mode, readyCh, cmd, base>>
  BY DEF Loop, ReconcileStart, ReconcileProbeOK, ReconcileProbeFails, ReconcileApply,
     ReconcileClose, LeaseTick, LoopDone
<1>2. \/ pc' = pc
      \/ \E from, to \in LoopSteps :
           /\ Step("loop", from, to)
           /\ to \in {"probe", "apply"} => cmd # Nil \/ from \in {"probe", "apply"}
  BY DEF Loop, ReconcileStart, ReconcileProbeOK, ReconcileProbeFails, ReconcileApply,
     ReconcileClose, LeaseTick, LoopDone, LoopSteps
<1>3. "loop" \in Goroutines /\ LoopSteps \subseteq Steps /\ "exec" \notin LoopSteps
  BY DEF Steps, LoopSteps
<1>4. \A b \in Switchers : b # "loop" => pc'[b] = pc[b]
  BY <1>2, <1>3, StepMoves
<1>5. pc'["loop"] # "exec" \/ pc'["loop"] = pc["loop"]
  BY <1>2, <1>3, StepMoves
<1>6. HasMode'
  BY <1>1, <1>2, <1>3, StepMoves DEF HostInv, HasMode
<1>7. StartsActive' /\ HoldsOnWay'
  BY <1>1, <1>4, <1>5, NamesAssumption DEF HostInv, StartsActive, HoldsOnWay, Target
<1>8. QED
  BY <1>6, <1>7 DEF HostInv

LEMMA HostInvNext == TypeOK /\ IInv /\ HostInv /\ [Next]_vars => HostInv'
<1> SUFFICES ASSUME TypeOK, IInv, HostInv, [Next]_vars PROVE HostInv'
  OBVIOUS
<1> USE DEF schedVars, procVars, localVars, reqVars
<1>1. ASSUME NEW g \in Switches, Reap(g) PROVE HostInv'
  BY <1>1, PlainStep DEF Reap
<1>2. CASE Main \/ Signal
  <2>1. UNCHANGED <<mode, readyCh, cmd, base>>
    BY <1>2 DEF Main, ServerClosed, ShutdownTake, ShutdownKill, Signal
  <2>2. \E from, to \in Steps : Step("main", from, to)
    BY <1>2, StepNames DEF Main, ServerClosed, ShutdownTake, ShutdownKill, Signal
  <2>3. \A b \in Switchers : pc'[b] = pc[b]
    BY <2>2, StepMoves, NamesAssumption
  <2>4. QED
    BY <2>1, <2>3, PlainStep
<1>3. CASE Environment /\ ~Signal /\ ~\E r \in Requests : GiveUp(r)
  <2>1. UNCHANGED <<mode, readyCh, cmd, base, pc>>
    BY <1>3 DEF Environment, ModelLoaded, Hang, Exit, ProcStep, LeaseElapses
  <2>2. QED
    BY <2>1, PlainStep
<1>4. CASE UNCHANGED vars
  BY <1>4, PlainStep DEF vars
<1>5. QED
  BY <1>1, <1>2, <1>3, <1>4, HostEnsureTarget, HostRequest, HostLoop DEF Next, Environment

-----------------------------------------------------------------------------
(* Each step of the scheduler is a step of the host, or changes nothing of it. *)

(* Of two running processes each is owned, so they are one. *)
LEMMA OneRunning ==
  ASSUME TypeOK, IInv, NEW g \in Switches, NEW h \in Switches, Running(g), Running(h)
  PROVE  g = h
<1>1. Owned(g) /\ Owned(h)
  BY DEF IInv, ProcessOwned, Loaded, Running
<1>2. QED
  BY <1>1, OneOwned

(* Nothing runs while a switch has stopped a process and not started one. *)
LEMMA NothingRuns ==
  ASSUME TypeOK, IInv, NEW a \in Switchers, pc[a] \in {"install", "exec"}
  PROVE  \A g \in Switches : ~Running(g)
<1>1. pc[a] \in SwitchSteps /\ {"kill", "killWait", "publish"} \subseteq SwitchSteps
  BY DEF SwitchSteps
<1>2. cmd = Nil /\ \A b \in Switchers : b # a => pc[b] \notin SwitchSteps
  BY <1>1, HolderAlone DEF IInv, SwitchLocals
<1>3. \A g \in Switches : ~Owned(g)
  BY <1>1, <1>2, BoundAssumption DEF Owned
<1>4. QED
  BY <1>3 DEF IInv, ProcessOwned, Loaded, Running

LEMMA HostIsInit == Init => Host!Init
<1> SUFFICES ASSUME Init PROVE Host!Init
  OBVIOUS
<1>1. \A g \in Switches : ~Running(g)
  BY DEF Init, Running
<1>2. LoadedModes = {} /\ StartedModel = FALSE
  BY <1>1 DEF LoadedModes, StartedModel, Init
<1>3. QED
  BY <1>2 DEF Init, Host!Init

(* A step that leaves the processes alone. *)
LEMMA SameProcesses ==
  ASSUME UNCHANGED <<readyCh, proc, modeOf>>
  PROVE  UNCHANGED <<LoadedModes, StartedModel>>
BY DEF LoadedModes, StartedModel, Running

(* A step of a process: it goes on running, or it was the one that ran. *)
LEMMA ProcessSimulates ==
  ASSUME TypeOK, IInv, NEW g \in Switches, NEW st \in ProcStates \ {"none"},
         proc[g] # "none",
         proc' = [proc EXCEPT ![g] = st],
         \A h \in Switches : h # g => modeOf'[h] = modeOf[h],
         Running(g)' => Running(g) /\ modeOf'[g] = modeOf[g],
         UNCHANGED <<mode, readyOK, readyCh, base>>
  PROVE  Host!Unload \/ UNCHANGED Host!hostVars
<1>1. /\ proc'[g] = st
      /\ \A h \in Switches : h # g => proc'[h] = proc[h]
  BY DEF TypeOK
<1>2. \A h \in Switches : h # g => (Running(h)' <=> Running(h))
  BY <1>1 DEF Running
<1>3. StartedModel' = StartedModel
  BY <1>1, BoundAssumption DEF StartedModel, TypeOK
<1>4. CASE Running(g) /\ ~Running(g)'
  <2>1. \A h \in Switches : ~Running(h)'
    BY <1>2, <1>4, OneRunning
  <2>2. LoadedModes' = {}
    BY <2>1 DEF LoadedModes
  <2>3. QED
    BY <1>3, <2>2 DEF Host!Unload
<1>5. CASE ~Running(g) \/ Running(g)'
  <2>1. \A h \in Switches : /\ Running(h)' <=> Running(h)
                            /\ Running(h) => modeOf'[h] = modeOf[h]
    BY <1>2, <1>5
  <2>2. LoadedModes' = LoadedModes
    BY <2>1 DEF LoadedModes
  <2>3. QED
    BY <1>3, <2>2 DEF Host!hostVars
<1>6. QED
  BY <1>4, <1>5

(* Process.Kill, from a switch or from Shutdown. *)
LEMMA KillSimulates ==
  ASSUME TypeOK, IInv, NEW g \in 0 .. MaxSwitches, SendKill(g),
         UNCHANGED <<mode, readyOK, readyCh, base, modeOf>>
  PROVE  Host!Unload \/ UNCHANGED Host!hostVars
<1>1. CASE g \in Switches /\ Running(g)
  <2>1. proc' = [proc EXCEPT ![g] = "killed"] /\ proc[g] # "none"
    BY <1>1 DEF SendKill, Running
  <2>2. "killed" \in ProcStates \ {"none"} /\ ~Running(g)'
    BY <1>1, <2>1 DEF ProcStates, Running, TypeOK
  <2>3. QED
    BY <1>1, <2>1, <2>2, ProcessSimulates
<1>2. CASE ~(g \in Switches /\ Running(g))
  <2>1. proc' = proc
    BY <1>2 DEF SendKill, TypeOK
  <2>2. QED
    BY <2>1, SameProcesses DEF Host!hostVars
<1>3. QED
  BY <1>1, <1>2

LEMMA EnsureTargetSimulates ==
  ASSUME TypeOK, IInv, HostInv, NEW a \in Switchers, EnsureTarget(a)
  PROVE  Host!Next \/ UNCHANGED Host!hostVars
<1> USE DEF schedVars, procVars, localVars, reqVars
<1>1. CASE \/ AcquireSwitch(a) \/ AlreadySwitched(a) \/ Drain(a) \/ TakeProcess(a)
           \/ KillDone(a) \/ StartCmdFails(a) \/ FailClose(a) \/ PublishCmd(a)
           \/ AwaitOK(a) \/ AwaitFails(a) \/ CloseReady(a)
  <2>1. UNCHANGED <<mode, readyOK, readyCh, proc, modeOf, base>>
    BY <1>1 DEF AcquireSwitch, AlreadySwitched, Drain, TakeProcess, KillDone, StartCmdFails,
       FailClose, PublishCmd, AwaitOK, AwaitFails, CloseReady
  <2>2. QED
    BY <2>1, SameProcesses DEF Host!hostVars
<1>2. CASE Kill(a)
  BY <1>2, KillSimulates DEF Kill, Host!Next, TypeOK
<1>3. CASE Install(a)
  <2>1. /\ pc[a] = "install"
        /\ mode' = Target(a) /\ readyOK' = FALSE /\ readyCh' = readyCh + 1
        /\ readyCh < MaxSwitches
        /\ UNCHANGED <<proc, modeOf, base>>
    BY <1>3 DEF Install, Step
  <2>2. LoadedModes = {} /\ LoadedModes' = {}
    BY <2>1, NothingRuns DEF LoadedModes, Running
  <2>3. readyCh' \in Switches /\ readyCh' > readyCh
    BY <2>1, BoundAssumption DEF TypeOK
  <2>4. proc[readyCh'] = "none"
    BY <2>3 DEF IInv, NothingAhead
  <2>5. StartedModel' = FALSE
    BY <2>1, <2>4 DEF StartedModel
  <2>6. Target(a) \in Modes
    BY DEF Target
  <2>7. Host!Activate(Target(a))
    BY <2>1, <2>2, <2>5 DEF Host!Activate
  <2>8. QED
    BY <2>6, <2>7 DEF Host!Next, Host!Modes
<1>4. CASE StartCmd(a)
  <2>1. /\ pc[a] = "exec"
        /\ proc' = [proc EXCEPT ![chan[a]] = "loading"]
        /\ modeOf' = [modeOf EXCEPT ![chan[a]] = Target(a)]
        /\ UNCHANGED <<mode, readyOK, readyCh, base>>
    BY <1>4 DEF StartCmd, Step
  <2>2. /\ chan[a] = readyCh /\ readyCh \in Switches /\ proc[readyCh] = "none"
        /\ mode = Target(a)
    BY <2>1, BoundAssumption DEF IInv, SwitchLocals, HostInv, StartsActive, TypeOK
  <2>3. \A g \in Switches : ~Running(g)
    BY <2>1, NothingRuns
  <2>4. /\ proc'[readyCh] = "loading" /\ modeOf'[readyCh] = mode
        /\ \A g \in Switches : g # readyCh => proc'[g] = proc[g]
    BY <2>1, <2>2 DEF TypeOK
  <2>5. \A g \in Switches : Running(g)' <=> g = readyCh
    BY <2>3, <2>4 DEF Running
  <2>6. LoadedModes = {} /\ LoadedModes' = {mode}
    BY <2>2, <2>3, <2>4, <2>5 DEF LoadedModes
  <2>7. StartedModel = FALSE /\ StartedModel' = TRUE
    BY <2>1, <2>2, <2>4, BoundAssumption DEF StartedModel
  <2>8. mode \in Managed
    BY <2>1, <2>2 DEF HostInv, StartsActive
  <2>9. Host!Load
    BY <2>1, <2>6, <2>7, <2>8 DEF Host!Load
  <2>10. QED
    BY <2>9 DEF Host!Next
<1>5. CASE SetReady(a) \/ SetFailed(a)
  <2>1. /\ UNCHANGED <<mode, readyCh, proc, modeOf, base>>
        /\ readyOK' \in BOOLEAN
        /\ pc[a] \in {"setReady", "setFailed"}
    BY <1>5 DEF SetReady, SetFailed, Return, Step
  <2>2. mode # "none"
    BY <2>1 DEF IInv, SwitchLocals, TypeOK
  <2>3. Host!Announce(readyOK')
    BY <2>1, <2>2, SameProcesses DEF Host!Announce
  <2>4. QED
    BY <2>1, <2>3 DEF Host!Next
<1>6. QED
  BY <1>1, <1>2, <1>3, <1>4, <1>5 DEF EnsureTarget

LEMMA RequestSimulates ==
  ASSUME TypeOK, HostInv, NEW r \in Requests, Request(r) \/ GiveUp(r)
  PROVE  Host!Next \/ UNCHANGED Host!hostVars
<1> USE DEF schedVars, procVars, localVars, reqVars
<1>1. UNCHANGED <<mode, readyOK, readyCh, proc, modeOf>>
  BY DEF Request, Arrive, EnsureCoding, Released, ReadBase, TouchAgain, ReadKey, Count,
     RejectBody, Finish, GiveUp
<1>2. CASE ReadBase(r) /\ readyOK
  <2>1. base[r] = "none"
    BY <1>2 DEF ReadBase, Step, HostInv, HoldsOnWay, Holding
  <2>2. Host!Give(r)
    BY <1>1, <1>2, <2>1, SameProcesses DEF ReadBase, Host!Give
  <2>3. QED
    BY <2>2 DEF Host!Next
<1>3. CASE (ReadBase(r) /\ ~readyOK) \/ RejectBody(r) \/ Finish(r)
  <2>1. base' = [base EXCEPT ![r] = "none"]
    BY <1>3 DEF ReadBase, RejectBody, Finish
  <2>2. Host!Leave(r)
    BY <1>1, <2>1, SameProcesses DEF Host!Leave
  <2>3. QED
    BY <2>2 DEF Host!Next
<1>4. CASE \/ Arrive(r) \/ EnsureCoding(r) \/ Released(r) \/ TouchAgain(r) \/ ReadKey(r)
           \/ Count(r) \/ GiveUp(r)
  <2>1. base' = base
    BY <1>4 DEF Arrive, EnsureCoding, Released, TouchAgain, ReadKey, Count, GiveUp
  <2>2. QED
    BY <1>1, <2>1, SameProcesses DEF Host!hostVars
<1>5. QED
  BY <1>2, <1>3, <1>4 DEF Request

LEMMA OthersSimulate ==
  ASSUME TypeOK, IInv, HostInv,
         Loop \/ Main \/ (\E g \in Switches : Reap(g))
           \/ (Environment /\ ~\E r \in Requests : GiveUp(r))
  PROVE  Host!Next \/ UNCHANGED Host!hostVars
<1> USE DEF schedVars, procVars, localVars, reqVars
<1>1. CASE \/ ReconcileStart \/ ReconcileProbeOK \/ ReconcileProbeFails \/ ReconcileClose
           \/ LeaseTick \/ LoopDone \/ ServerClosed \/ ShutdownTake \/ LeaseElapses \/ Signal
  <2>1. UNCHANGED <<mode, readyOK, readyCh, proc, modeOf, base>>
    BY <1>1 DEF ReconcileStart, ReconcileProbeOK, ReconcileProbeFails, ReconcileClose,
       LeaseTick, LoopDone, ServerClosed, ShutdownTake, LeaseElapses, Signal
  <2>2. QED
    BY <2>1, SameProcesses DEF Host!hostVars
<1>2. CASE ReconcileApply
  <2>1. /\ UNCHANGED <<mode, readyCh, proc, modeOf, base>>
        /\ readyOK' = TRUE /\ pc["loop"] = "apply"
    BY <1>2 DEF ReconcileApply, Step
  <2>2. mode # "none"
    BY <2>1 DEF HostInv, HasMode, TypeOK
  <2>3. Host!Announce(TRUE)
    BY <2>1, <2>2, SameProcesses DEF Host!Announce
  <2>4. QED
    BY <2>3 DEF Host!Next
<1>3. CASE ShutdownKill
  BY <1>3, KillSimulates DEF ShutdownKill, Host!Next, TypeOK
<1>4. ASSUME NEW g \in Switches, Reap(g)
      PROVE  Host!Next \/ UNCHANGED Host!hostVars
  <2>1. /\ proc[g] = "dead" /\ proc' = [proc EXCEPT ![g] = "reaped"]
        /\ readyOK' = (readyOK /\ cmd # g)
        /\ UNCHANGED <<mode, readyCh, modeOf, base, cmd>>
    BY <1>4 DEF Reap
  <2>2. UNCHANGED <<LoadedModes, StartedModel>>
    <3>1. \A h \in Switches : Running(h)' <=> Running(h)
      BY <2>1 DEF Running, TypeOK
    <3>2. StartedModel' = StartedModel
      BY <2>1, BoundAssumption DEF StartedModel, TypeOK
    <3>3. QED
      BY <2>1, <3>1, <3>2 DEF LoadedModes
  <2>3. CASE cmd = g
    <3>1. mode # "none"
      BY <2>3, BoundAssumption DEF HostInv, HasMode, TypeOK
    <3>2. readyOK' = FALSE
      BY <2>1, <2>3, Zenon
    <3>3. Host!Announce(FALSE)
      BY <2>1, <2>2, <3>1, <3>2 DEF Host!Announce
    <3>4. QED
      BY <3>3 DEF Host!Next
  <2>4. CASE cmd # g
    <3>1. readyOK' = readyOK
      BY <2>1, <2>4 DEF TypeOK
    <3>2. QED
      BY <2>1, <2>2, <3>1 DEF Host!hostVars
  <2>5. QED
    BY <2>3, <2>4
<1>5. ASSUME NEW g \in Switches, ModelLoaded(g) \/ Hang(g) \/ Exit(g)
      PROVE  Host!Next \/ UNCHANGED Host!hostVars
  <2>1. PICK st \in {"up", "hung", "dead"} :
          /\ proc' = [proc EXCEPT ![g] = st]
          /\ proc[g] \in {"loading", "up", "hung", "killed"}
          /\ st # "dead" => Running(g) /\ modeOf' = modeOf
          /\ st = "dead" => modeOf' = [modeOf EXCEPT ![g] = "none"]
          /\ UNCHANGED <<mode, readyOK, readyCh, base>>
    BY <1>5 DEF ModelLoaded, Hang, Exit, ProcStep, Running
  <2>2. /\ st \in ProcStates \ {"none"}
        /\ \A h \in Switches : h # g => modeOf'[h] = modeOf[h]
        /\ Running(g)' => st # "dead"
    BY <2>1 DEF ProcStates, TypeOK, Running
  <2>3. QED
    BY <2>1, <2>2, ProcessSimulates DEF Host!Next
<1>6. QED
  BY <1>1, <1>2, <1>3, <1>4, <1>5 DEF Loop, Main, Environment

(* ensureTarget, its callers, the loop, reap, Shutdown and every crash and
   timeout put together implement ModelHost. *)
THEOREM Refinement == Spec => ImplementsHost
<1>1. Init => TypeOK /\ IInv /\ HostInv /\ Host!Init
  BY TypeInit, InvInit, HostInvInit, HostIsInit
<1>2. TypeOK /\ IInv /\ HostInv /\ [Next]_vars => (TypeOK /\ IInv /\ HostInv)'
  BY TypeNext, InvNext, HostInvNext
<1>3. TypeOK /\ IInv /\ HostInv /\ [Next]_vars => [Host!Next]_(Host!hostVars)
  <2> SUFFICES ASSUME TypeOK, IInv, HostInv, [Next]_vars
               PROVE  Host!Next \/ UNCHANGED Host!hostVars
    OBVIOUS
  <2>1. CASE UNCHANGED vars
    BY <2>1, SameProcesses DEF vars, schedVars, procVars, reqVars, Host!hostVars
  <2>2. CASE Next
    BY <2>2, EnsureTargetSimulates, RequestSimulates, OthersSimulate DEF Next, Environment
  <2>3. QED
    BY <2>1, <2>2
<1>4. QED
  BY <1>1, <1>2, <1>3, PTL DEF Spec, ImplementsHost, Host!Spec

-----------------------------------------------------------------------------
(* What the host guarantees holds of the scheduler. *)

LEMMA HostKeepsLoaded ==
  /\ Host!Init => Host!LoadedIsActive
  /\ Host!LoadedIsActive /\ [Host!Next]_(Host!hostVars) => Host!LoadedIsActive'
<1>1. Host!Init => Host!LoadedIsActive
  BY DEF Host!Init, Host!LoadedIsActive
<1>2. ASSUME Host!LoadedIsActive, [Host!Next]_(Host!hostVars)
      PROVE  Host!LoadedIsActive'
  BY <1>2 DEF Host!LoadedIsActive, Host!Next, Host!hostVars, Host!Activate, Host!Load,
     Host!Unload, Host!Announce, Host!Give, Host!Leave
<1>3. QED
  BY <1>1, <1>2

(* The running process serves the mode whose address and key are handed out:
   see RunningIsActive. *)
THEOREM ModelFollowsMode == Spec => []RunningIsActive
<1>1. Spec => []Host!LoadedIsActive
  BY Refinement, HostKeepsLoaded, PTL DEF ImplementsHost, Host!Spec
<1>2. Host!LoadedIsActive => RunningIsActive
  BY DEF Host!LoadedIsActive, LoadedModes, RunningIsActive
<1>3. QED
  BY <1>1, <1>2, PTL
=============================================================================
