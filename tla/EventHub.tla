------------------------------ MODULE EventHub ------------------------------
(***************************************************************************)
(* Events on their way to the pages that watch the proxy: the hub          *)
(* (internal/events/events.go), the handler of a page's connection         *)
(* (handleEvents, router.go), its context (newSSECtx, cancelAllSSE,        *)
(* server.go), the scheduler's event list (pushSchedEvent, pool.go) and    *)
(* the server's shutdown (main.go).                                        *)
(*                                                                         *)
(* An action is one critical section of the hub's, of sseMu's or of        *)
(* schedMu's lock, or one step between two of them.  A channel belongs to  *)
(* one connection and has its name.                                        *)
(***************************************************************************)
EXTENDS Naturals, Sequences

CONSTANTS
  Conns,      \* connections of pages to /_proxy/events
  Senders,    \* goroutines that broadcast: request handlers, the scheduler
  Capacity,   \* of a subscriber's channel (64)
  ListSize,   \* events of the scheduler that are kept (200)
  MaxEvents,  \* bound: events altogether
  Events      \* what may happen, a subset of EventKinds

EventKinds == {"leave",         \* the client closes the connection
               "stall",         \* the client does not read for a while
               "closeTimeout"}  \* the 60s of server.Shutdown elapse

ASSUME SizesAssumption ==
  Capacity \in Nat \ {0} /\ ListSize \in Nat \ {0} /\ MaxEvents \in Nat
ASSUME EventsAssumption == Events \subseteq EventKinds

None == 0     \* not an event

VARIABLES
  made,       \* events so far; an event is its number
  log,        \* the events broadcast, in this order
  recent,     \* s.schedEvents
  listed,     \* the events ever put on it
  todo,       \* what each sender has yet to broadcast, or None
  clients,    \* hub.clients
  queue,      \* the contents of the channels
  closed,     \* the channels that are closed
  full,       \* the channels that were found full once
  pc,         \* where each connection's handler is
  taken,      \* how much of log had been broadcast when it last took an event
  sseCancels, \* the connections registered for cancelAllSSE
  cancelled,  \* the connections whose context is done
  stalled,    \* the connections whose client does not read
  phase,      \* of the server: "running", "closing", "cancelling", "exited"
  cancels     \* the local of cancelAllSSE

sendVars  == <<made, log, recent, listed, todo>>
hubVars   == <<clients, queue, closed, full>>
connVars  == <<pc, taken>>
sseVars   == <<sseCancels, cancelled, stalled>>
closeVars == <<phase, cancels>>
vars == <<sendVars, hubVars, connVars, sseVars, closeVars>>

Init ==
  /\ made = 0 /\ log = <<>> /\ recent = <<>> /\ listed = <<>>
  /\ todo = [s \in Senders |-> None]
  /\ clients = {} /\ closed = {} /\ full = {}
  /\ queue = [c \in Conns |-> <<>>]
  /\ pc = [c \in Conns |-> "none"]
  /\ taken = [c \in Conns |-> 0]
  /\ sseCancels = {} /\ cancelled = {} /\ stalled = {}
  /\ phase = "running"
  /\ cancels = {}

Running == phase # "exited"

-----------------------------------------------------------------------------
(* Senders. *)

Last(n, seq) == SubSeq(seq, Len(seq) - n + 1, Len(seq))

(* A goroutine has something to tell. *)
NewEvent(s) ==
  /\ Running
  /\ made < MaxEvents
  /\ todo[s] = None
  /\ made' = made + 1
  /\ todo' = [todo EXCEPT ![s] = made + 1]

(* pushSchedEvent, up to the unlocking of schedMu. *)
PushSchedEvent(s) ==
  LET events == Append(recent, made + 1) IN
  /\ NewEvent(s)
  /\ listed' = Append(listed, made + 1)
  /\ recent' = IF Len(events) > ListSize THEN Last(ListSize, events) ELSE events
  /\ UNCHANGED <<log, hubVars, connVars, sseVars, closeVars>>

(* A request handler, or the deletion of a record. *)
PlainEvent(s) ==
  /\ NewEvent(s)
  /\ UNCHANGED <<log, recent, listed, hubVars, connVars, sseVars, closeVars>>

Sent(s) ==
  /\ log' = Append(log, todo[s])
  /\ todo' = [todo EXCEPT ![s] = None]
  /\ UNCHANGED <<made, recent, listed, clients, closed, connVars, sseVars, closeVars>>

HasRoom(c) == Len(queue[c]) < Capacity

UnboundedBug(s) ==
  /\ Running
  /\ todo[s] # None
  /\ queue' = [c \in Conns |-> IF c \in clients THEN Append(queue[c], todo[s]) ELSE queue[c]]
  /\ Sent(s)
  /\ UNCHANGED full

BlockingBug(s) ==
  /\ Running
  /\ todo[s] # None
  /\ \A c \in clients : HasRoom(c)
  /\ queue' = [c \in Conns |-> IF c \in clients THEN Append(queue[c], todo[s]) ELSE queue[c]]
  /\ Sent(s)
  /\ UNCHANGED full

ReturnOnFullBug(s) ==
  /\ Running
  /\ todo[s] # None
  /\ queue' = IF \A c \in clients : HasRoom(c)
              THEN [c \in Conns |-> IF c \in clients THEN Append(queue[c], todo[s]) ELSE queue[c]]
              ELSE queue
  /\ full' = full \cup {c \in clients : ~ HasRoom(c)}
  /\ Sent(s)

(* Broadcast: every channel that is not full gets the event. *)
Broadcast(s) ==
  /\ Running
  /\ todo[s] # None
  /\ queue' = [c \in Conns |-> IF c \in clients /\ HasRoom(c)
                               THEN Append(queue[c], todo[s]) ELSE queue[c]]
  /\ full' = full \cup {c \in clients : ~ HasRoom(c)}
  /\ Sent(s)

Sender(s) == PushSchedEvent(s) \/ PlainEvent(s) \/ Broadcast(s)

-----------------------------------------------------------------------------
(* The handler of a connection. *)

Goto(c, step) == pc' = [pc EXCEPT ![c] = step]

(* The server accepts connections until Shutdown closes its listener. *)
Accept(c) ==
  /\ phase = "running"
  /\ pc[c] = "none"
  /\ Goto(c, "subscribe")
  /\ UNCHANGED <<sendVars, hubVars, taken, sseVars, closeVars>>

Subscribe(c) ==
  /\ Running
  /\ pc[c] = "subscribe"
  /\ clients' = clients \cup {c}
  /\ taken' = [taken EXCEPT ![c] = Len(log)]
  /\ Goto(c, "register")
  /\ UNCHANGED <<sendVars, queue, closed, full, sseVars, closeVars>>

NewSSECtx(c) ==
  /\ Running
  /\ pc[c] = "register"
  /\ sseCancels' = sseCancels \cup {c}
  /\ Goto(c, "loop")
  /\ UNCHANGED <<sendVars, hubVars, taken, cancelled, stalled, closeVars>>

Receive(c) ==
  /\ Running
  /\ pc[c] = "loop"
  /\ queue[c] # <<>>
  /\ queue' = [queue EXCEPT ![c] = Tail(@)]
  /\ taken' = [taken EXCEPT ![c] = Len(log) - Len(queue'[c])]
  /\ Goto(c, "write")
  /\ UNCHANGED <<sendVars, clients, closed, full, sseVars, closeVars>>

Heartbeat(c) ==
  /\ Running
  /\ pc[c] = "loop"
  /\ Goto(c, "write")
  /\ UNCHANGED <<sendVars, hubVars, taken, sseVars, closeVars>>

(* Write and Flush block while the client does not read; their errors are not
   looked at. *)
Write(c) ==
  /\ Running
  /\ pc[c] = "write"
  /\ c \notin stalled
  /\ Goto(c, "loop")
  /\ UNCHANGED <<sendVars, hubVars, taken, sseVars, closeVars>>

NeverDoneBug(c) ==
  /\ Running
  /\ pc[c] = "loop"
  /\ c \in cancelled
  /\ queue[c] # <<>>
  /\ Goto(c, "cancel")
  /\ UNCHANGED <<sendVars, hubVars, taken, sseVars, closeVars>>

(* The context is done: the deferred calls follow, last one first. *)
Done(c) ==
  /\ Running
  /\ pc[c] = "loop"
  /\ c \in cancelled
  /\ Goto(c, "cancel")
  /\ UNCHANGED <<sendVars, hubVars, taken, sseVars, closeVars>>

CancelSSE(c) ==
  /\ Running
  /\ pc[c] = "cancel"
  /\ cancelled' = cancelled \cup {c}
  /\ sseCancels' = sseCancels \ {c}
  /\ Goto(c, "unsubscribe")
  /\ UNCHANGED <<sendVars, hubVars, taken, stalled, closeVars>>

CloseOnlyBug(c) ==
  /\ Running
  /\ pc[c] = "unsubscribe"
  /\ closed' = closed \cup {c}
  /\ Goto(c, "returned")
  /\ UNCHANGED <<sendVars, clients, queue, full, taken, sseVars, closeVars>>

Unsubscribe(c) ==
  /\ Running
  /\ pc[c] = "unsubscribe"
  /\ clients' = clients \ {c}
  /\ closed' = IF c \in clients THEN closed \cup {c} ELSE closed
  /\ Goto(c, "returned")
  /\ UNCHANGED <<sendVars, queue, full, taken, sseVars, closeVars>>

Conn(c) ==
  \/ Accept(c) \/ Subscribe(c) \/ NewSSECtx(c)
  \/ Receive(c) \/ Heartbeat(c) \/ Write(c) \/ Done(c)
  \/ CancelSSE(c) \/ Unsubscribe(c)

Open(c) == pc[c] \notin {"none", "returned"}

(* The client goes: the context of the request is done, and its child. *)
Leave(c) ==
  /\ Running
  /\ "leave" \in Events
  /\ Open(c)
  /\ cancelled' = cancelled \cup {c}
  /\ stalled' = stalled \ {c}
  /\ UNCHANGED <<sendVars, hubVars, connVars, sseCancels, closeVars>>

Stall(c) ==
  /\ Running
  /\ "stall" \in Events
  /\ Open(c)
  /\ c \notin cancelled
  /\ stalled' = stalled \cup {c}
  /\ UNCHANGED <<sendVars, hubVars, connVars, sseCancels, cancelled, closeVars>>

Resume(c) ==
  /\ Running
  /\ c \in stalled
  /\ stalled' = stalled \ {c}
  /\ UNCHANGED <<sendVars, hubVars, connVars, sseCancels, cancelled, closeVars>>

Client(c) == Leave(c) \/ Stall(c) \/ Resume(c)

-----------------------------------------------------------------------------
(* The end of the server. *)

(* A signal: Shutdown closes the listener and starts cancelAllSSE. *)
Shutdown ==
  /\ phase = "running"
  /\ phase' = "closing"
  /\ UNCHANGED <<sendVars, hubVars, connVars, sseVars, cancels>>

(* cancelAllSSE under sseMu. *)
CancelAllSSE ==
  /\ phase = "closing"
  /\ phase' = "cancelling"
  /\ cancels' = sseCancels
  /\ UNCHANGED <<sendVars, hubVars, connVars, sseVars>>

CancelOne ==
  /\ phase = "cancelling"
  /\ \E c \in cancels :
       /\ cancels' = cancels \ {c}
       /\ cancelled' = cancelled \cup {c}
  /\ UNCHANGED <<sendVars, hubVars, connVars, sseCancels, stalled, phase>>

(* Shutdown returns when no connection is active any more, whether or not
   cancelAllSSE is through, or after 60s. *)
Exit ==
  /\ phase \in {"closing", "cancelling"}
  /\ (\A c \in Conns : ~ Open(c)) \/ "closeTimeout" \in Events
  /\ phase' = "exited"
  /\ UNCHANGED <<sendVars, hubVars, connVars, sseVars, cancels>>

Server == Shutdown \/ CancelAllSSE \/ CancelOne \/ Exit

Next ==
  \/ \E s \in Senders : Sender(s)
  \/ \E c \in Conns : Conn(c) \/ Client(c)
  \/ Server

Spec == Init /\ [][Next]_vars

Drained == (\A c \in Conns : ~ Open(c)) /\ Exit

(* Every goroutine that can run does; the select of a handler does not pass over
   a context that is done for ever; a client that has a connection open and does
   not stall reads. *)
FairSpec ==
  /\ Spec
  /\ \A s \in Senders : WF_vars(Broadcast(s))
  /\ \A c \in Conns :
       /\ WF_vars(Subscribe(c) \/ NewSSECtx(c) \/ Write(c) \/ CancelSSE(c) \/ Unsubscribe(c))
       /\ WF_vars(Receive(c))
       /\ SF_vars(Done(c))
  /\ WF_vars(CancelAllSSE \/ CancelOne)
  /\ WF_vars(Drained)

-----------------------------------------------------------------------------
(* Types; no channel holds more than its capacity, or more than was broadcast. *)
TypeOK ==
  /\ made \in 0..MaxEvents
  /\ log \in Seq(1..made) /\ recent \in Seq(1..made) /\ listed \in Seq(1..made)
  /\ todo \in [Senders -> 0..made]
  /\ clients \subseteq Conns /\ closed \subseteq Conns /\ full \subseteq Conns
  /\ queue \in [Conns -> Seq(1..made)]
  /\ \A c \in Conns : Len(queue[c]) <= Capacity /\ Len(queue[c]) <= Len(log)
  /\ pc \in [Conns -> {"none", "subscribe", "register", "loop", "write", "cancel",
                       "unsubscribe", "returned"}]
  /\ taken \in [Conns -> Nat]
  /\ sseCancels \subseteq Conns /\ cancelled \subseteq Conns /\ stalled \subseteq Conns
  /\ phase \in {"running", "closing", "cancelling", "exited"}
  /\ cancels \subseteq Conns

(* Broadcast never meets a closed channel, on which a send would panic under the
   hub's lock; and a handler that is through has left nothing behind. *)
NoDeadChannel ==
  /\ clients \cap closed = {}
  /\ \A c \in Conns : pc[c] = "returned" => c \notin clients \cup sseCancels

(* A page misses no event and gets them in the order of the broadcasts, unless
   its own channel was full at one of them. *)
KeepsUp ==
  \A c \in clients \ full :
    /\ taken[c] + Len(queue[c]) = Len(log)
    /\ queue[c] = Last(Len(queue[c]), log)

(* The panel's list holds the latest events of the scheduler, as many as it
   can. *)
ListIsRecent ==
  recent = Last(IF Len(listed) < ListSize THEN Len(listed) ELSE ListSize, listed)

(* No page holds up a goroutine that broadcasts, whether it reads or not. *)
BroadcastsEnd ==
  \A s \in Senders : todo[s] # None ~> (todo[s] = None \/ phase = "exited")

(* A connection that is registered when cancelAllSSE looks is closed in the
   end, unless its client does not read. *)
CancelledReturn ==
  \A c \in Conns : c \in cancels ~> (pc[c] = "returned" \/ c \in stalled \/ phase = "exited")

(* The inductive invariant: where a handler is decides what the hub and the
   server know of it, and both sequences are ends of longer ones. *)
StepTells ==
  \A c \in Conns :
    /\ c \in clients <=> pc[c] \in {"register", "loop", "write", "cancel", "unsubscribe"}
    /\ c \in sseCancels <=> pc[c] \in {"loop", "write", "cancel"}
    /\ c \in closed <=> pc[c] = "returned"
    /\ pc[c] \in {"none", "subscribe"} => queue[c] = <<>>

IInv == TypeOK /\ StepTells /\ KeepsUp /\ ListIsRecent

(* main.go:140 and server.go:66 say that the server's shutdown does not wait for
   the pages until its timeout. *)
PagesDoNotDelay == phase = "closing" ~> phase = "exited"
=============================================================================
