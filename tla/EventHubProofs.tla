--------------------------- MODULE EventHubProofs ---------------------------
(***************************************************************************)
(* Proofs about EventHub, for any number of pages and senders, any         *)
(* capacity of the channels, any length of the list and any number of      *)
(* events.                                                                 *)
(***************************************************************************)
EXTENDS EventHub, SequenceTheorems, TLAPS

(* Ends of sequences. *)

LEMMA LastType ==
  ASSUME NEW S, NEW q \in Seq(S), NEW n \in 0..Len(q)
  PROVE  /\ Last(n, q) \in Seq(S)
         /\ Len(Last(n, q)) = n
         /\ \A i \in 1..n : Last(n, q)[i] = q[Len(q) - n + i]
<1>1. Len(q) \in Nat /\ Len(q) - n + 1 \in 1..(Len(q) + 1)
  OBVIOUS
<1>2. \A i \in (Len(q) - n + 1)..Len(q) : q[i] \in S
  BY <1>1, ElementOfSeq
<1> QED
  BY <1>1, <1>2, SubSeqProperties DEF Last

LEMMA LastAppend ==
  ASSUME NEW S, NEW q \in Seq(S), NEW e \in S, NEW n \in 0..Len(q)
  PROVE  Last(n + 1, Append(q, e)) = Append(Last(n, q), e)
<1> DEFINE a == Append(q, e)
           l == Last(n + 1, a)
           r == Append(Last(n, q), e)
<1>1. /\ a \in Seq(S) /\ Len(a) = Len(q) + 1 /\ n + 1 \in 0..Len(a)
      /\ a[Len(q) + 1] = e /\ \A i \in 1..Len(q) : a[i] = q[i]
  OBVIOUS
<1>2. l \in Seq(S) /\ Len(l) = n + 1 /\ \A i \in 1..(n + 1) : l[i] = a[Len(a) - (n + 1) + i]
  <2> HIDE DEF a
  <2> QED
    BY <1>1, LastType
<1>3. Last(n, q) \in Seq(S) /\ Len(Last(n, q)) = n
      /\ \A i \in 1..n : Last(n, q)[i] = q[Len(q) - n + i]
  BY LastType
<1>4. /\ r \in Seq(S) /\ Len(r) = n + 1
      /\ r[n + 1] = e /\ \A i \in 1..n : r[i] = Last(n, q)[i]
  BY <1>3
<1> HIDE DEF a, l, r
<1>5. ASSUME NEW i \in 1..(n + 1)
      PROVE  l[i] = r[i]
  <2>1. CASE i = n + 1
    <3>1. Len(a) - (n + 1) + i = Len(q) + 1
      BY <1>1, <2>1
    <3> QED
      BY <1>1, <1>2, <1>4, <2>1, <3>1
  <2>2. CASE i \in 1..n
    <3>1. Len(a) - (n + 1) + i = Len(q) - n + i /\ Len(q) - n + i \in 1..Len(q)
      BY <1>1, <2>2
    <3> QED
      BY <1>1, <1>2, <1>3, <1>4, <2>2, <3>1
  <2> QED
    BY <2>1, <2>2
<1>6. l = r
  BY <1>2, <1>4, <1>5, SeqEqual
<1> QED
  BY <1>6 DEF a, l, r

LEMMA LastTail ==
  ASSUME NEW S, NEW q \in Seq(S), NEW n \in 1..Len(q)
  PROVE  Tail(Last(n, q)) = Last(n - 1, q)
<1> DEFINE l == Last(n, q)
<1>1. l \in Seq(S) /\ Len(l) = n /\ \A i \in 1..n : l[i] = q[Len(q) - n + i]
  BY LastType
<1>2. /\ Last(n - 1, q) \in Seq(S) /\ Len(Last(n - 1, q)) = n - 1
      /\ \A i \in 1..(n - 1) : Last(n - 1, q)[i] = q[Len(q) - (n - 1) + i]
  BY LastType
<1>3. Tail(l) \in Seq(S) /\ Len(Tail(l)) = n - 1 /\ \A i \in 1..(n - 1) : Tail(l)[i] = l[i + 1]
  BY <1>1, HeadTailProperties, EmptySeq
<1> HIDE DEF l
<1>4. ASSUME NEW i \in 1..(n - 1)
      PROVE  Tail(l)[i] = Last(n - 1, q)[i]
  <2>1. i + 1 \in 1..n /\ Len(q) - n + (i + 1) = Len(q) - (n - 1) + i
    OBVIOUS
  <2>2. Tail(l)[i] = l[i + 1]
    BY <1>3
  <2>3. l[i + 1] = q[Len(q) - n + (i + 1)]
    BY <1>1, <2>1
  <2>4. Last(n - 1, q)[i] = q[Len(q) - (n - 1) + i]
    BY <1>2
  <2> QED
    BY <2>1, <2>2, <2>3, <2>4
<1> QED
  BY <1>2, <1>3, <1>4, SeqEqual DEF l

LEMMA LastLast ==
  ASSUME NEW S, NEW q \in Seq(S), NEW n \in 0..Len(q), NEW m \in 0..n
  PROVE  Last(m, Last(n, q)) = Last(m, q)
<1> DEFINE l == Last(n, q)
<1>1. l \in Seq(S) /\ Len(l) = n /\ \A i \in 1..n : l[i] = q[Len(q) - n + i]
  BY LastType
<1> HIDE DEF l
<1>2. Last(m, l) \in Seq(S) /\ Len(Last(m, l)) = m /\ \A i \in 1..m : Last(m, l)[i] = l[n - m + i]
  BY <1>1, LastType, ZenonT(40)
<1>3. Last(m, q) \in Seq(S) /\ Len(Last(m, q)) = m /\ \A i \in 1..m : Last(m, q)[i] = q[Len(q) - m + i]
  BY LastType
<1>4. ASSUME NEW i \in 1..m
      PROVE  Last(m, l)[i] = Last(m, q)[i]
  <2>1. n - m + i \in 1..n /\ Len(q) - n + (n - m + i) = Len(q) - m + i
    OBVIOUS
  <2> QED
    BY <1>1, <1>2, <1>3, <2>1
<1> QED
  BY <1>2, <1>3, <1>4, SeqEqual DEF l

(* More events leave the old sequences of events what they were. *)
LEMMA MoreEvents ==
  ASSUME NEW m \in Nat, NEW n \in Nat, m <= n, NEW q \in Seq(1..m)
  PROVE  q \in Seq(1..n)
BY SeqDef

-----------------------------------------------------------------------------
(* Types. *)

LEMMA TypeInit == Init => TypeOK
BY SizesAssumption, EmptySeq DEF Init, TypeOK, None

LEMMA NewEventTypes ==
  ASSUME TypeOK, NEW s \in Senders, NewEvent(s),
         UNCHANGED <<log, hubVars, connVars, sseVars, closeVars>>,
         recent' \in Seq(1..(made + 1)), listed' \in Seq(1..(made + 1))
  PROVE  TypeOK'
<1>1. made \in Nat /\ made' = made + 1 /\ made' \in 0..MaxEvents
  BY SizesAssumption DEF TypeOK, NewEvent
<1>2. log' \in Seq(1..made')
  BY <1>1, MoreEvents DEF TypeOK
<1>3. todo' \in [Senders -> 0..made']
  BY <1>1 DEF TypeOK, NewEvent
<1>4. queue' \in [Conns -> Seq(1..made')]
  <2>1. ASSUME NEW c \in Conns
        PROVE  queue[c] \in Seq(1..made')
    BY <1>1, MoreEvents DEF TypeOK
  <2> QED
    BY <2>1 DEF TypeOK, hubVars
<1> QED
  BY <1>1, <1>2, <1>3, <1>4 DEF TypeOK, hubVars, connVars, sseVars, closeVars

LEMMA TypeStep == TypeOK /\ [Next]_vars => TypeOK'
<1> SUFFICES ASSUME TypeOK, [Next]_vars
             PROVE  TypeOK'
  OBVIOUS
<1>0. made \in Nat /\ Capacity \in Nat \ {0} /\ ListSize \in Nat \ {0}
  BY SizesAssumption DEF TypeOK
<1>1. ASSUME NEW s \in Senders, PushSchedEvent(s)
      PROVE  TypeOK'
  <2> DEFINE events == Append(recent, made + 1)
  <2>1. recent \in Seq(1..(made + 1)) /\ listed \in Seq(1..(made + 1))
    BY <1>0, MoreEvents DEF TypeOK
  <2>2. events \in Seq(1..(made + 1)) /\ Append(listed, made + 1) \in Seq(1..(made + 1))
    BY <1>0, <2>1
  <2>3. Len(events) > ListSize => Last(ListSize, events) \in Seq(1..(made + 1))
    <3> HIDE DEF events
    <3> QED
      BY <1>0, <2>2, LastType
  <2>4. recent' \in Seq(1..(made + 1)) /\ listed' \in Seq(1..(made + 1))
    BY <1>1, <2>2, <2>3 DEF PushSchedEvent
  <2> QED
    BY <1>1, <2>4, NewEventTypes DEF PushSchedEvent
<1>2. ASSUME NEW s \in Senders, PlainEvent(s)
      PROVE  TypeOK'
  <2>1. recent' \in Seq(1..(made + 1)) /\ listed' \in Seq(1..(made + 1))
    BY <1>0, <1>2, MoreEvents DEF TypeOK, PlainEvent
  <2> QED
    BY <1>2, <2>1, NewEventTypes DEF PlainEvent
<1>3. ASSUME NEW s \in Senders, Broadcast(s)
      PROVE  TypeOK'
  <2>1. todo[s] \in 1..made
    BY <1>0, <1>3 DEF TypeOK, Broadcast, None
  <2>2. log' \in Seq(1..made) /\ todo' \in [Senders -> 0..made]
    BY <1>0, <1>3, <2>1 DEF TypeOK, Broadcast, Sent, None
  <2>3. ASSUME NEW c \in Conns
        PROVE  /\ queue'[c] \in Seq(1..made)
               /\ Len(queue'[c]) <= Capacity /\ Len(queue'[c]) <= Len(log')
    <3>1. /\ queue[c] \in Seq(1..made) /\ log \in Seq(1..made)
          /\ Len(queue[c]) <= Capacity /\ Len(queue[c]) <= Len(log)
      BY DEF TypeOK
    <3>2. Append(queue[c], todo[s]) \in Seq(1..made)
          /\ Len(Append(queue[c], todo[s])) = Len(queue[c]) + 1
      BY <2>1, <3>1
    <3>3. Len(log') = Len(log) + 1
      BY <1>3, <2>1, <3>1 DEF Broadcast, Sent
    <3>4. CASE c \in clients /\ HasRoom(c)
      <4>1. queue'[c] = Append(queue[c], todo[s])
        BY <1>3, <3>4 DEF Broadcast
      <4>2. Len(queue[c]) < Capacity /\ Len(queue[c]) \in Nat /\ Len(log) \in Nat
        BY <3>1, <3>4 DEF HasRoom
      <4>3. Len(queue'[c]) = Len(queue[c]) + 1
        BY <3>2, <4>1
      <4>4. Len(queue'[c]) <= Capacity /\ Len(queue'[c]) <= Len(log')
        BY <1>0, <3>1, <3>3, <4>2, <4>3
      <4> QED
        BY <3>2, <4>1, <4>4
    <3>5. CASE ~ (c \in clients /\ HasRoom(c))
      BY <1>0, <1>3, <3>1, <3>3, <3>5 DEF Broadcast
    <3> QED
      BY <3>4, <3>5
  <2>4. queue' \in [Conns -> Seq(1..made)]
    BY <1>3, <2>3 DEF Broadcast
  <2>5. full' \subseteq Conns
    BY <1>3 DEF TypeOK, Broadcast
  <2> QED
    BY <1>3, <2>2, <2>3, <2>4, <2>5 DEF TypeOK, Broadcast, Sent, connVars, sseVars, closeVars
<1>4. ASSUME NEW c \in Conns, Receive(c)
      PROVE  TypeOK'
  <2>1. queue[c] \in Seq(1..made) /\ queue[c] # <<>> /\ log \in Seq(1..made)
        /\ Len(queue[c]) <= Capacity /\ Len(queue[c]) <= Len(log)
    BY <1>4 DEF TypeOK, Receive
  <2>2. Tail(queue[c]) \in Seq(1..made) /\ Len(Tail(queue[c])) = Len(queue[c]) - 1
    BY <2>1, HeadTailProperties
  <2>3. /\ queue' \in [Conns -> Seq(1..made)]
        /\ \A d \in Conns : Len(queue'[d]) <= Capacity /\ Len(queue'[d]) <= Len(log)
    BY <1>0, <1>4, <2>1, <2>2, SMTT(20) DEF TypeOK, Receive
  <2>4. taken' \in [Conns -> Nat]
    <3>1. Len(log) - Len(queue'[c]) \in Nat
      BY <1>4, <2>1, <2>2 DEF TypeOK, Receive
    <3> QED
      BY <1>4, <3>1 DEF TypeOK, Receive
  <2>5. pc' \in [Conns -> {"none", "subscribe", "register", "loop", "write", "cancel",
                           "unsubscribe", "returned"}]
    BY <1>4 DEF TypeOK, Receive, Goto
  <2> QED
    BY <1>4, <2>3, <2>4, <2>5 DEF TypeOK, Receive, sendVars, sseVars, closeVars
<1>5. ASSUME NEW c \in Conns, \/ Accept(c) \/ Subscribe(c) \/ NewSSECtx(c) \/ Heartbeat(c)
                              \/ Write(c) \/ Done(c) \/ CancelSSE(c) \/ Unsubscribe(c)
      PROVE  TypeOK'
  <2>1. UNCHANGED <<sendVars, queue, full, stalled, closeVars>>
    BY <1>5 DEF Accept, Subscribe, NewSSECtx, Heartbeat, Write, Done, CancelSSE, Unsubscribe,
                hubVars, sseVars
  <2>2. pc' \in [Conns -> {"none", "subscribe", "register", "loop", "write", "cancel",
                           "unsubscribe", "returned"}]
    BY <1>5 DEF TypeOK, Goto, Accept, Subscribe, NewSSECtx, Heartbeat, Write, Done, CancelSSE,
                Unsubscribe
  <2>3. taken' \in [Conns -> Nat]
    <3>1. Len(log) \in Nat
      BY DEF TypeOK
    <3> QED
      BY <1>5, <3>1 DEF TypeOK, Accept, Subscribe, NewSSECtx, Heartbeat, Write, Done, CancelSSE,
                        Unsubscribe
  <2>4. clients' \subseteq Conns /\ closed' \subseteq Conns /\ sseCancels' \subseteq Conns
        /\ cancelled' \subseteq Conns
    BY <1>5 DEF TypeOK, Accept, Subscribe, NewSSECtx, Heartbeat, Write, Done, CancelSSE,
                Unsubscribe, hubVars, sseVars
  <2> QED
    BY <2>1, <2>2, <2>3, <2>4 DEF TypeOK, sendVars, closeVars
<1>6. ASSUME NEW c \in Conns, Client(c)
      PROVE  TypeOK'
  BY <1>6 DEF TypeOK, Client, Leave, Stall, Resume, sendVars, hubVars, connVars, closeVars
<1>7. ASSUME Server
      PROVE  TypeOK'
  BY <1>7 DEF TypeOK, Server, Shutdown, CancelAllSSE, CancelOne, Exit, sendVars, hubVars,
              connVars, sseVars
<1>8. ASSUME UNCHANGED vars
      PROVE  TypeOK'
  BY <1>8 DEF TypeOK, vars, sendVars, hubVars, connVars, sseVars, closeVars
<1> QED
  BY <1>1, <1>2, <1>3, <1>4, <1>5, <1>6, <1>7, <1>8 DEF Next, Sender, Conn

-----------------------------------------------------------------------------
(* Where the handlers are. *)

LEMMA TellsInit == Init => StepTells
BY DEF Init, StepTells

LEMMA TellsStep == TypeOK /\ StepTells /\ [Next]_vars => StepTells'
<1> SUFFICES ASSUME TypeOK, StepTells, [Next]_vars
             PROVE  StepTells'
  OBVIOUS
<1>1. ASSUME NEW s \in Senders, Broadcast(s)
      PROVE  StepTells'
  <2>1. UNCHANGED <<clients, closed, connVars, sseVars>>
    BY <1>1 DEF Broadcast, Sent
  <2>2. \A c \in Conns : c \notin clients => queue'[c] = queue[c]
    BY <1>1 DEF Broadcast
  <2> QED
    BY <2>1, <2>2 DEF StepTells, connVars, sseVars
<1>2. ASSUME NEW c \in Conns, Receive(c)
      PROVE  StepTells'
  <2>1. pc[c] = "loop" /\ pc' = [pc EXCEPT ![c] = "write"]
        /\ \A d \in Conns : d # c => queue'[d] = queue[d]
    BY <1>2 DEF Receive, Goto, TypeOK
  <2> QED
    BY <1>2, <2>1 DEF StepTells, Receive, sseVars, TypeOK
<1>3. ASSUME NEW c \in Conns, \/ Accept(c) \/ Subscribe(c) \/ NewSSECtx(c) \/ Heartbeat(c)
                              \/ Write(c) \/ Done(c) \/ CancelSSE(c) \/ Unsubscribe(c)
      PROVE  StepTells'
  <2>1. \A d \in Conns : d # c => pc'[d] = pc[d]
    BY <1>3 DEF TypeOK, Goto, Accept, Subscribe, NewSSECtx, Heartbeat, Write, Done, CancelSSE,
                Unsubscribe
  <2>2. queue' = queue
    BY <1>3 DEF Accept, Subscribe, NewSSECtx, Heartbeat, Write, Done, CancelSSE, Unsubscribe,
                hubVars
  <2>3. \A d \in Conns : d # c => /\ d \in clients' <=> d \in clients
                                  /\ d \in closed' <=> d \in closed
                                  /\ d \in sseCancels' <=> d \in sseCancels
    BY <1>3 DEF Accept, Subscribe, NewSSECtx, Heartbeat, Write, Done, CancelSSE, Unsubscribe,
                hubVars, sseVars
  <2>4. /\ c \in clients' <=> pc'[c] \in {"register", "loop", "write", "cancel", "unsubscribe"}
        /\ c \in sseCancels' <=> pc'[c] \in {"loop", "write", "cancel"}
        /\ c \in closed' <=> pc'[c] = "returned"
        /\ pc'[c] \in {"none", "subscribe"} => pc[c] \in {"none", "subscribe"}
    <3>1. CASE Accept(c) \/ Heartbeat(c) \/ Write(c) \/ Done(c)
      BY <3>1 DEF StepTells, TypeOK, Goto, Accept, Heartbeat, Write, Done, hubVars, sseVars
    <3>2. CASE Subscribe(c) \/ NewSSECtx(c) \/ CancelSSE(c) \/ Unsubscribe(c)
      BY <3>2 DEF StepTells, TypeOK, Goto, Subscribe, NewSSECtx, CancelSSE, Unsubscribe, hubVars,
                  sseVars
    <3> QED
      BY <1>3, <3>1, <3>2
  <2> QED
    BY <2>1, <2>2, <2>3, <2>4 DEF StepTells
<1>4. ASSUME UNCHANGED <<hubVars, connVars, sseCancels>>
      PROVE  StepTells'
  BY <1>4 DEF StepTells, hubVars, connVars
<1>5. ASSUME NEW s \in Senders, PushSchedEvent(s) \/ PlainEvent(s)
      PROVE  StepTells'
  BY <1>4, <1>5 DEF PushSchedEvent, PlainEvent, sseVars
<1>6. ASSUME NEW c \in Conns, Client(c)
      PROVE  StepTells'
  BY <1>4, <1>6 DEF Client, Leave, Stall, Resume
<1>7. ASSUME Server
      PROVE  StepTells'
  BY <1>4, <1>7 DEF Server, Shutdown, CancelAllSSE, CancelOne, Exit, sseVars
<1>8. ASSUME UNCHANGED vars
      PROVE  StepTells'
  BY <1>4, <1>8 DEF vars, sseVars
<1> QED
  BY <1>1, <1>2, <1>3, <1>5, <1>6, <1>7, <1>8 DEF Next, Sender, Conn

-----------------------------------------------------------------------------
(* No page misses an event, but by a full channel. *)

LEMMA EmptyEnd ==
  ASSUME NEW S, NEW q \in Seq(S)
  PROVE  Last(0, q) = <<>>
<1>1. 0 \in 0..Len(q)
  OBVIOUS
<1>2. Last(0, q) \in Seq(S) /\ Len(Last(0, q)) = 0
  BY <1>1, LastType
<1> QED
  BY <1>2, EmptySeq

LEMMA KeepsUpInit == Init => KeepsUp
BY DEF Init, KeepsUp

LEMMA KeepsUpStep == TypeOK /\ StepTells /\ KeepsUp /\ [Next]_vars => KeepsUp'
<1> SUFFICES ASSUME TypeOK, StepTells, KeepsUp, [Next]_vars
             PROVE  KeepsUp'
  OBVIOUS
<1>0. /\ made \in Nat /\ log \in Seq(1..made) /\ clients \subseteq Conns /\ full \subseteq Conns
      /\ \A c \in Conns : /\ queue[c] \in Seq(1..made) /\ taken[c] \in Nat
                          /\ Len(queue[c]) \in 0..Len(log)
  BY SizesAssumption DEF TypeOK
<1>1. ASSUME NEW s \in Senders, Broadcast(s)
      PROVE  KeepsUp'
  <2>1. todo[s] \in 1..made
    BY <1>0, <1>1 DEF TypeOK, Broadcast, None
  <2>2. clients' = clients /\ taken' = taken /\ log' = Append(log, todo[s])
    BY <1>1 DEF Broadcast, Sent, connVars
  <2>3. ASSUME NEW c \in clients \ full'
        PROVE  taken'[c] + Len(queue'[c]) = Len(log') /\ queue'[c] = Last(Len(queue'[c]), log')
    <3>1. c \in clients \ full /\ HasRoom(c)
      BY <1>1 DEF Broadcast
    <3>2. taken[c] + Len(queue[c]) = Len(log) /\ queue[c] = Last(Len(queue[c]), log)
      BY <3>1 DEF KeepsUp
    <3>3. queue'[c] = Append(queue[c], todo[s])
      BY <1>0, <1>1, <3>1 DEF Broadcast
    <3>4. Len(queue'[c]) = Len(queue[c]) + 1 /\ Len(log') = Len(log) + 1
      BY <1>0, <2>1, <2>2, <3>3
    <3>5. Last(Len(queue[c]) + 1, Append(log, todo[s])) = Append(Last(Len(queue[c]), log), todo[s])
      BY <1>0, <2>1, LastAppend
    <3>6. taken'[c] + Len(queue'[c]) = Len(log')
      <4>1. taken[c] \in Nat /\ Len(queue[c]) \in Nat /\ taken'[c] = taken[c]
        BY <1>0, <2>2
      <4> QED
        BY <3>2, <3>4, <4>1
    <3> QED
      BY <2>2, <3>2, <3>3, <3>4, <3>5, <3>6
  <2> QED
    BY <2>2, <2>3 DEF KeepsUp
<1>2. ASSUME NEW c \in Conns, Receive(c)
      PROVE  KeepsUp'
  <2>1. queue[c] # <<>> /\ queue'[c] = Tail(queue[c]) /\ taken'[c] = Len(log) - Len(queue'[c])
        /\ \A d \in Conns : d # c => queue'[d] = queue[d] /\ taken'[d] = taken[d]
    BY <1>2 DEF Receive, TypeOK
  <2>2. UNCHANGED <<log, clients, full>>
    BY <1>2 DEF Receive, sendVars
  <2>3. queue'[c] \in Seq(1..made) /\ Len(queue'[c]) = Len(queue[c]) - 1
    BY <1>0, <2>1, HeadTailProperties
  <2>4. ASSUME c \in clients \ full
        PROVE  taken'[c] + Len(queue'[c]) = Len(log) /\ queue'[c] = Last(Len(queue'[c]), log)
    <3>1. queue[c] = Last(Len(queue[c]), log)
      BY <2>4 DEF KeepsUp
    <3>2. Len(queue[c]) \in 1..Len(log)
      BY <1>0, <2>1, EmptySeq
    <3>3. Tail(Last(Len(queue[c]), log)) = Last(Len(queue[c]) - 1, log)
      BY <1>0, <3>2, LastTail
    <3>4. taken'[c] + Len(queue'[c]) = Len(log)
      BY <1>0, <2>1, <2>3
    <3> QED
      BY <2>1, <2>3, <3>1, <3>3, <3>4
  <2>5. ASSUME NEW d \in clients \ full, d # c
        PROVE  taken'[d] + Len(queue'[d]) = Len(log) /\ queue'[d] = Last(Len(queue'[d]), log)
    BY <1>0, <2>1, <2>5 DEF KeepsUp
  <2> QED
    BY <2>2, <2>4, <2>5 DEF KeepsUp
<1>3. ASSUME NEW c \in Conns, Subscribe(c)
      PROVE  KeepsUp'
  <2>1. queue[c] = <<>> /\ taken'[c] = Len(log) /\ clients' = clients \cup {c}
        /\ UNCHANGED <<queue, log, full>> /\ \A d \in Conns : d # c => taken'[d] = taken[d]
    BY <1>3 DEF Subscribe, StepTells, TypeOK, sendVars
  <2>2. taken'[c] + Len(queue'[c]) = Len(log') /\ queue'[c] = Last(Len(queue'[c]), log')
    BY <1>0, <2>1, EmptyEnd
  <2>3. ASSUME NEW d \in clients \ full, d # c
        PROVE  taken'[d] + Len(queue'[d]) = Len(log') /\ queue'[d] = Last(Len(queue'[d]), log')
    BY <1>0, <2>1, <2>3 DEF KeepsUp
  <2> QED
    BY <2>1, <2>2, <2>3 DEF KeepsUp
<1>4. ASSUME UNCHANGED <<log, queue, full, taken>>, clients' \subseteq clients
      PROVE  KeepsUp'
  BY <1>4 DEF KeepsUp
<1>5. ASSUME NEW s \in Senders, PushSchedEvent(s) \/ PlainEvent(s)
      PROVE  KeepsUp'
  BY <1>4, <1>5 DEF PushSchedEvent, PlainEvent, hubVars, connVars
<1>6. ASSUME NEW c \in Conns, \/ Accept(c) \/ NewSSECtx(c) \/ Heartbeat(c) \/ Write(c)
                              \/ Done(c) \/ CancelSSE(c) \/ Unsubscribe(c)
      PROVE  KeepsUp'
  BY <1>4, <1>6 DEF Accept, NewSSECtx, Heartbeat, Write, Done, CancelSSE, Unsubscribe, sendVars,
                    hubVars
<1>7. ASSUME NEW c \in Conns, Client(c)
      PROVE  KeepsUp'
  BY <1>4, <1>7 DEF Client, Leave, Stall, Resume, sendVars, hubVars, connVars
<1>8. ASSUME Server
      PROVE  KeepsUp'
  BY <1>4, <1>8 DEF Server, Shutdown, CancelAllSSE, CancelOne, Exit, sendVars, hubVars, connVars
<1>9. ASSUME UNCHANGED vars
      PROVE  KeepsUp'
  BY <1>4, <1>9 DEF vars, sendVars, hubVars, connVars
<1> QED
  BY <1>1, <1>2, <1>3, <1>5, <1>6, <1>7, <1>8, <1>9 DEF Next, Sender, Conn

-----------------------------------------------------------------------------
(* The scheduler's list. *)

LEMMA ListInit == Init => ListIsRecent
<1> SUFFICES ASSUME Init
             PROVE  ListIsRecent
  OBVIOUS
<1>1. recent = <<>> /\ listed = <<>> /\ Len(listed) = 0 /\ listed \in Seq({})
  BY EmptySeq DEF Init
<1>2. (IF Len(listed) < ListSize THEN Len(listed) ELSE ListSize) = 0
  BY <1>1, SizesAssumption
<1>3. Last(0, listed) = <<>>
  BY <1>1, EmptyEnd
<1> QED
  BY <1>1, <1>2, <1>3 DEF ListIsRecent

LEMMA ListStep == TypeOK /\ ListIsRecent /\ [Next]_vars => ListIsRecent'
<1> SUFFICES ASSUME TypeOK, ListIsRecent, [Next]_vars
             PROVE  ListIsRecent'
  OBVIOUS
<1>1. ASSUME NEW s \in Senders, PushSchedEvent(s)
      PROVE  ListIsRecent'
  <2> DEFINE n == IF Len(listed) < ListSize THEN Len(listed) ELSE ListSize
             all == Append(listed, made + 1)
             events == Append(recent, made + 1)
  <2>1. made \in Nat /\ made + 1 \in 1..(made + 1) /\ ListSize \in Nat \ {0}
    BY SizesAssumption DEF TypeOK
  <2>2. listed \in Seq(1..(made + 1)) /\ Len(listed) \in Nat /\ n \in 0..Len(listed)
        /\ n <= ListSize
    BY <2>1, MoreEvents DEF TypeOK
  <2>3. recent = Last(n, listed) /\ Len(recent) = n
    BY <2>2, LastType DEF ListIsRecent
  <2>4. events = Last(n + 1, all)
    <3> HIDE DEF n
    <3> QED
      BY <2>1, <2>2, <2>3, LastAppend
  <2>5. all \in Seq(1..(made + 1)) /\ Len(all) = Len(listed) + 1 /\ n + 1 \in 0..Len(all)
    BY <2>1, <2>2
  <2>6. Len(events) = n + 1
    <3> HIDE DEF n, all, events
    <3> QED
      BY <2>4, <2>5, LastType
  <2>7. listed' = all /\ recent' = IF Len(events) > ListSize THEN Last(ListSize, events) ELSE events
    BY <1>1 DEF PushSchedEvent
  <2>8. CASE n + 1 > ListSize
    <3>1. n = ListSize /\ Len(listed) >= ListSize
      BY <2>1, <2>2, <2>8
    <3>2. ListSize \in 0..(n + 1) /\ ~ Len(all) < ListSize /\ Len(events) > ListSize
      BY <2>1, <2>2, <2>5, <2>6, <2>8, <3>1
    <3> HIDE DEF n, all, events
    <3>3. Last(ListSize, events) = Last(ListSize, all)
      BY <2>4, <2>5, <3>2, LastLast
    <3> QED
      BY <2>7, <3>2, <3>3 DEF ListIsRecent
  <2>9. CASE ~ n + 1 > ListSize
    <3>1. n = Len(listed) /\ Len(all) = n + 1 /\ ~ Len(events) > ListSize
      BY <2>1, <2>2, <2>5, <2>6, <2>9
    <3>2. (IF Len(all) < ListSize THEN Len(all) ELSE ListSize) = n + 1
      BY <2>1, <2>2, <2>9, <3>1
    <3> HIDE DEF n, all, events
    <3> QED
      BY <2>4, <2>7, <3>1, <3>2 DEF ListIsRecent
  <2> QED
    BY <2>8, <2>9
<1>2. ASSUME UNCHANGED <<recent, listed>>
      PROVE  ListIsRecent'
  BY <1>2 DEF ListIsRecent
<1>3. ASSUME NEW s \in Senders, PlainEvent(s) \/ Broadcast(s)
      PROVE  ListIsRecent'
  BY <1>2, <1>3 DEF PlainEvent, Broadcast, Sent
<1>4. ASSUME NEW c \in Conns, Conn(c) \/ Client(c)
      PROVE  ListIsRecent'
  BY <1>2, <1>4 DEF Conn, Client, Accept, Subscribe, NewSSECtx, Receive, Heartbeat, Write, Done,
                    CancelSSE, Unsubscribe, Leave, Stall, Resume, sendVars
<1>5. ASSUME Server
      PROVE  ListIsRecent'
  BY <1>2, <1>5 DEF Server, Shutdown, CancelAllSSE, CancelOne, Exit, sendVars
<1>6. ASSUME UNCHANGED vars
      PROVE  ListIsRecent'
  BY <1>2, <1>6 DEF vars, sendVars
<1> QED
  BY <1>1, <1>3, <1>4, <1>5, <1>6 DEF Next, Sender

-----------------------------------------------------------------------------
(* What follows. *)

(* The inductive invariant. *)
THEOREM Invariance == Spec => []IInv
<1>1. Init => IInv
  BY TypeInit, TellsInit, KeepsUpInit, ListInit DEF IInv
<1>2. IInv /\ [Next]_vars => IInv'
  BY TypeStep, TellsStep, KeepsUpStep, ListStep DEF IInv
<1> QED
  BY <1>1, <1>2, PTL DEF Spec

(* Whatever the number of pages and of events, the hub and the server keep
   values of their types, and no channel holds more than its capacity. *)
THEOREM TypeCorrect == Spec => []TypeOK
<1>1. IInv => TypeOK
  BY DEF IInv
<1> QED
  BY <1>1, Invariance, PTL

(* Broadcast never sends on a closed channel, and a connection that is through is
   neither subscribed nor registered. *)
THEOREM HubIsClean == Spec => []NoDeadChannel
<1>1. IInv => NoDeadChannel
  BY DEF IInv, TypeOK, StepTells, NoDeadChannel
<1> QED
  BY <1>1, Invariance, PTL

(* A page misses nothing and gets everything in order, unless its channel was
   full. *)
THEOREM PagesKeepUp == Spec => []KeepsUp
<1>1. IInv => KeepsUp
  BY DEF IInv
<1> QED
  BY <1>1, Invariance, PTL

(* The event list holds the latest events of the scheduler. *)
THEOREM ListStaysRecent == Spec => []ListIsRecent
<1>1. IInv => ListIsRecent
  BY DEF IInv
<1> QED
  BY <1>1, Invariance, PTL
=============================================================================
