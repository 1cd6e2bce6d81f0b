------------------------------ MODULE ModelHost ------------------------------
(***************************************************************************)
(* What the scheduler promises to the rest of the proxy: a host for one    *)
(* model at a time.  No goroutine, lock, channel or timer is left; the     *)
(* processes are seen through the set of modes that are loaded.            *)
(*                                                                         *)
(* The module is a specification of its own; Scheduler implements it with *)
(* the mapping of its definition Host.                                     *)
(***************************************************************************)
CONSTANTS
  Clients,    \* those who ask for an address: the coding requests
  Managed     \* the modes the host loads a model for

Modes == {"coding", "background"}

VARIABLES
  active,     \* the mode that was activated last, or "none"
  ready,      \* the active mode is announced as ready
  loaded,     \* the modes whose model is running
  started,    \* the model of this activation has been started already
  given       \* the mode each client was given the address of

hostVars == <<active, ready, loaded, started, given>>

Init ==
  /\ active = "none"
  /\ ready = FALSE
  /\ loaded = {}
  /\ started = FALSE
  /\ given = [c \in Clients |-> "none"]

(* A mode becomes active when nothing is loaded any more; it is not ready. *)
Activate(m) ==
  /\ loaded = {}
  /\ active' = m
  /\ ready' = FALSE
  /\ started' = FALSE
  /\ UNCHANGED <<loaded, given>>

(* The model of the active mode is started, once for each activation: one
   that is lost is not started again. *)
Load ==
  /\ active \in Managed
  /\ loaded = {} /\ ~started
  /\ loaded' = {active}
  /\ started' = TRUE
  /\ UNCHANGED <<active, ready, given>>

(* It is stopped, or is lost; what is announced and given is left alone. *)
Unload ==
  /\ loaded' = {}
  /\ UNCHANGED <<active, ready, started, given>>

Announce(ok) ==
  /\ active # "none"
  /\ ready' = ok
  /\ UNCHANGED <<active, loaded, started, given>>

(* A client is given the address of the mode that is active and announced. *)
Give(c) ==
  /\ ready
  /\ given[c] = "none"
  /\ given' = [given EXCEPT ![c] = active]
  /\ UNCHANGED <<active, ready, loaded, started>>

Leave(c) ==
  /\ given' = [given EXCEPT ![c] = "none"]
  /\ UNCHANGED <<active, ready, loaded, started>>

Next ==
  \/ \E m \in Modes : Activate(m)
  \/ Load
  \/ Unload
  \/ \E ok \in BOOLEAN : Announce(ok)
  \/ \E c \in Clients : Give(c) \/ Leave(c)

Spec == Init /\ [][Next]_hostVars

-----------------------------------------------------------------------------
(* The model in memory is that of the mode whose address is handed out: what
   the rest of the proxy relies on when it forwards to the active address. *)
LoadedIsActive == loaded \subseteq {active}
=============================================================================
