-------------------------- MODULE SchedulerHistory --------------------------
(***************************************************************************)
(* Scheduler with one history variable: the ready channels whose switch    *)
(* has given up its wait (SetFailed: startup_timeout, or the caller's      *)
(* context).  Such a channel stays open, for reconcileReady to close.      *)
(***************************************************************************)
EXTENDS Scheduler

VARIABLE gaveUp   \* the channels left open by a switch that is over

GivingUp == {a \in Switchers : pc[a] = "setFailed" /\ pc'[a] # "setFailed"}

Remember == gaveUp' = gaveUp \cup {chan[a] : a \in GivingUp}

HistoryInit == Init /\ gaveUp = {}
HistoryNext == Next /\ Remember
HistorySpec == HistoryInit /\ [][HistoryNext]_<<vars, gaveUp>>

FairHistorySpec == HistorySpec /\ Fairness

(* A request that waits for a channel no switch and no reconcile will close
   any more, because another one has replaced it, waits for one whose switch
   gave up: every other switch closes its channel before the next one can
   install its own (switchMu, and markReadyClosed at each return). *)
OrphanedOnlyByGivingUp ==
  \A r \in Requests : pc[r] = "wait" => chan[r] \in closed \cup gaveUp \cup {readyCh}

(* Under FairHistorySpec: a request that waits for a ready channel is let go,
   by the switch that made it, by reconcileReady or by its own client, unless
   that switch gave up and another one has replaced its channel. *)
WaitersReleased ==
  \A r \in Requests :
    pc[r] = "wait" ~> \/ pc[r] # "wait"
                      \/ chan[r] \in gaveUp \ {readyCh}
                      \/ ~Alive
=============================================================================
