--------------------------- MODULE DeliveryProofs ---------------------------
(***************************************************************************)
(* At least once, and once without a lost connection, for any number of    *)
(* consumers and messages, any prefetch count and any batch size.          *)
(***************************************************************************)
EXTENDS Delivery, FiniteSetTheorems, TLAPS

Shape ==
  /\ stream \in [Consumers -> {"open", "cancelled", "closed"}]
  /\ pc \in [Consumers -> {"start", "wait", "select", "handle", "settle", "returned"}]
  /\ held \in [Consumers -> SUBSET Messages]
  /\ verdict \in [Consumers -> {"none", "ack", "requeue", "reject"}]
  /\ loc \in [Messages -> Queues \cup Consumers \cup {"done"}]
  /\ handled \in [Messages -> 0..2]
  /\ lost \in BOOLEAN

(* What a consumer holds is its own at the broker while its channel is     *)
(* open, and is acknowledged only after the handler has succeeded on it.   *)
(* Without a lost connection the channel is open as long as the loop runs. *)
ConsumerInv(c) ==
  /\ pc[c] \in {"start", "wait", "returned"} => held[c] = {}
  /\ stream[c] # "closed" => \A m \in held[c] : loc[m] = c
  /\ verdict[c] # "none" <=> pc[c] = "settle"
  /\ verdict[c] = "ack" => \A m \in held[c] : handled[m] > 0
  /\ ~lost /\ pc[c] \in {"select", "handle", "settle"} => stream[c] # "closed"

(* Without a lost connection a message that has been handled is gone from  *)
(* the queues, or is going to be acknowledged.                             *)
Acknowledged(m) ==
  loc[m] = "done" \/ \E c \in Consumers : m \in held[c] /\ verdict[c] = "ack"

MessageInv(m) ==
  /\ loc[m] = "done" => handled[m] > 0
  /\ ~lost /\ handled[m] > 0 => handled[m] = 1 /\ Acknowledged(m)

IInv ==
  /\ Shape
  /\ \A c \in Consumers : ConsumerInv(c)
  /\ \A m \in Messages : MessageInv(m)

-----------------------------------------------------------------------------
(* When the connection is lost all channels close, and the broker takes    *)
(* back what was delivered on them.                                        *)
LEMMA ConnectionStep ==
  ASSUME IInv, LoseConnection \/ Reconnect
  PROVE  IInv'
<1> USE DeliveryAssumption DEF IInv, Shape, Queues, clientVars
<1>1. CASE LoseConnection
  <2> USE <1>1 DEF LoseConnection, Fault
  <2>1. Shape' OBVIOUS
  <2>2. ASSUME NEW d \in Consumers PROVE ConsumerInv(d)' BY Zenon DEF ConsumerInv
  <2>3. ASSUME NEW k \in Messages PROVE MessageInv(k)'
    BY Zenon DEF ConsumerInv, MessageInv, Acknowledged
  <2>4. QED BY <2>1, <2>2, <2>3, Zenon
<1>2. CASE Reconnect
  <2> USE <1>2 DEF Reconnect
  <2>1. Shape' OBVIOUS
  <2>2. ASSUME NEW d \in Consumers PROVE ConsumerInv(d)' BY Zenon DEF ConsumerInv
  <2>3. ASSUME NEW k \in Messages PROVE MessageInv(k)'
    BY Zenon DEF ConsumerInv, MessageInv, Acknowledged
  <2>4. QED BY <2>1, <2>2, <2>3, Zenon
<1>3. QED BY <1>1, <1>2, Zenon

(* The broker moves only messages that nobody holds.                       *)
LEMMA BrokerStep ==
  ASSUME IInv, NEW m \in Messages, Deliver(m) \/ Expire(m)
  PROVE  IInv'
<1> USE DeliveryAssumption DEF IInv, Shape, Queues, clientVars
<1>1. CASE Deliver(m)
  <2> USE <1>1 DEF Deliver, Unacked
  <2>1. Shape' OBVIOUS
  <2>2. ASSUME NEW d \in Consumers PROVE ConsumerInv(d)' BY DEF ConsumerInv
  <2>3. ASSUME NEW k \in Messages PROVE MessageInv(k)'
    BY DEF ConsumerInv, MessageInv, Acknowledged
  <2>4. QED BY <2>1, <2>2, <2>3, Zenon
<1>2. CASE Expire(m)
  <2> USE <1>2 DEF Expire
  <2>1. Shape' OBVIOUS
  <2>2. ASSUME NEW d \in Consumers PROVE ConsumerInv(d)' BY DEF ConsumerInv
  <2>3. ASSUME NEW k \in Messages PROVE MessageInv(k)'
    BY Zenon DEF ConsumerInv, MessageInv, Acknowledged
  <2>4. QED BY <2>1, <2>2, <2>3, Zenon
<1>3. QED BY <1>1, <1>2, Zenon

(* A delivery is received, or rejected at once.                            *)
LEMMA TakeStep ==
  ASSUME IInv, NEW c \in Consumers, NEW m \in Messages, Take(c, m)
  PROVE  IInv'
<1> USE DeliveryAssumption DEF IInv, Shape, Queues, clientVars
<1>1. CASE Take(c, m)
  <2> USE <1>1 DEF Take, DeadLettered, DLXBindings, DeadLetterRoutingKey
  <2>1. Shape' OBVIOUS
  <2>2. ASSUME NEW d \in Consumers PROVE ConsumerInv(d)' BY DEF ConsumerInv
  <2>3. ASSUME NEW k \in Messages PROVE MessageInv(k)'
    BY DEF ConsumerInv, MessageInv, Acknowledged
  <2>4. QED BY <2>1, <2>2, <2>3, Zenon
<1>2. QED BY <1>1, Zenon

(* A loop begins and ends with nothing in hand.                            *)
LEMMA LoopStep ==
  ASSUME IInv, NEW c \in Consumers,
         \/ CancelledByBroker(c) \/ CancelContext(c) \/ StartConsumeLoop(c)
         \/ WaitForReconnect(c) \/ Leave(c) \/ FlushTimeout(c)
  PROVE  IInv'
<1> USE DeliveryAssumption DEF IInv, Shape, Queues, clientVars
<1>1. CASE CancelledByBroker(c)
  <2> USE <1>1 DEF CancelledByBroker, Fault
  <2>1. Shape' OBVIOUS
  <2>2. ASSUME NEW d \in Consumers PROVE ConsumerInv(d)' BY Zenon DEF ConsumerInv
  <2>3. ASSUME NEW k \in Messages PROVE MessageInv(k)'
    BY Zenon DEF ConsumerInv, MessageInv, Acknowledged
  <2>4. QED BY <2>1, <2>2, <2>3, Zenon
<1>2. CASE CancelContext(c)
  <2> USE <1>2 DEF CancelContext
  <2>1. Shape' OBVIOUS
  <2>2. ASSUME NEW d \in Consumers PROVE ConsumerInv(d)' BY Zenon DEF ConsumerInv
  <2>3. ASSUME NEW k \in Messages PROVE MessageInv(k)'
    BY Zenon DEF ConsumerInv, MessageInv, Acknowledged
  <2>4. QED BY <2>1, <2>2, <2>3, Zenon
<1>3. CASE StartConsumeLoop(c)
  <2> USE <1>3 DEF StartConsumeLoop, AfterError
  <2>1. Shape' OBVIOUS
  <2>2. ASSUME NEW d \in Consumers PROVE ConsumerInv(d)' BY DEF ConsumerInv
  <2>3. ASSUME NEW k \in Messages PROVE MessageInv(k)'
    BY Zenon DEF ConsumerInv, MessageInv, Acknowledged
  <2>4. QED BY <2>1, <2>2, <2>3, Zenon
<1>4. CASE WaitForReconnect(c)
  <2> USE <1>4 DEF WaitForReconnect
  <2>1. Shape' OBVIOUS
  <2>2. ASSUME NEW d \in Consumers PROVE ConsumerInv(d)' BY DEF ConsumerInv
  <2>3. ASSUME NEW k \in Messages PROVE MessageInv(k)'
    BY Zenon DEF ConsumerInv, MessageInv, Acknowledged
  <2>4. QED BY <2>1, <2>2, <2>3, Zenon
<1>5. CASE Leave(c)
  <2> USE <1>5 DEF Leave, AfterError, Released
  <2>1. Shape' OBVIOUS
  <2>2. ASSUME NEW d \in Consumers PROVE ConsumerInv(d)' BY DEF ConsumerInv
  <2>3. ASSUME NEW k \in Messages PROVE MessageInv(k)'
    BY DEF ConsumerInv, MessageInv, Acknowledged
  <2>4. QED BY <2>1, <2>2, <2>3, Zenon
<1>6. CASE FlushTimeout(c)
  <2> USE <1>6 DEF FlushTimeout
  <2>1. Shape' OBVIOUS
  <2>2. ASSUME NEW d \in Consumers PROVE ConsumerInv(d)' BY Zenon DEF ConsumerInv
  <2>3. ASSUME NEW k \in Messages PROVE MessageInv(k)'
    BY Zenon DEF ConsumerInv, MessageInv, Acknowledged
  <2>4. QED BY <2>1, <2>2, <2>3, Zenon
<1>7. QED BY <1>1, <1>2, <1>3, <1>4, <1>5, <1>6, Zenon

(* The handler runs on messages that no other consumer has handled, unless *)
(* a connection was lost.                                                  *)
LEMMA HandleStep ==
  ASSUME IInv, NEW c \in Consumers, Handle(c)
  PROVE  IInv'
<1> USE DeliveryAssumption DEF Handle, IInv, Shape, Queues, clientVars
<1>1. Shape' BY DEF AfterSuccess, AfterHandlerError, Fault
<1>2. \A k \in Messages : handled[k] > 0 => handled'[k] > 0
  OBVIOUS
<1>3. verdict'[c] \in {"ack", "requeue", "reject"} /\ pc'[c] = "settle"
  BY Zenon DEF AfterSuccess, AfterHandlerError
<1>4. ASSUME NEW d \in Consumers PROVE ConsumerInv(d)'
  <2>1. CASE d = c
    <3>1. verdict'[c] = "ack" => \A k \in held[c] : handled'[k] > 0
      BY DEF AfterHandlerError
    <3>2. QED BY <1>3, <2>1, <3>1, Zenon DEF ConsumerInv
  <2>2. CASE d # c
    BY <1>2, <2>2 DEF ConsumerInv
  <2>3. QED BY <2>1, <2>2, Zenon
<1>5. ASSUME NEW k \in Messages PROVE MessageInv(k)'
  <2>1. ~lost /\ k \in held[c] => handled[k] = 0
    <3> SUFFICES ASSUME ~lost, k \in held[c], handled[k] > 0 PROVE FALSE
      OBVIOUS
    <3>1. loc[k] = c /\ verdict[c] = "none" BY Zenon DEF ConsumerInv
    <3>2. PICK d \in Consumers : k \in held[d] /\ verdict[d] = "ack"
      BY <3>1, Zenon DEF MessageInv, Acknowledged
    <3>3. loc[k] = d BY <3>2, Zenon DEF ConsumerInv
    <3>4. QED BY <3>1, <3>2, <3>3, Zenon
  <2>2. CASE handled'[k] = handled[k]
    BY <2>2 DEF ConsumerInv, MessageInv, Acknowledged
  <2>3. CASE handled'[k] # handled[k]
    <3>1. k \in held[c] /\ handled'[k] = handled[k] + 1 /\ verdict'[c] = "ack"
      BY <2>3 DEF AfterSuccess
    <3>2. Acknowledged(k)' BY <3>1, Zenon DEF Acknowledged
    <3>3. QED BY <2>1, <3>1, <3>2 DEF MessageInv
  <2>4. QED BY <2>2, <2>3, Zenon
<1>6. QED BY <1>1, <1>4, <1>5, Zenon

(* One delivery is settled and leaves the hand.                            *)
LEMMA SettleStep ==
  ASSUME IInv, NEW c \in Consumers, NEW m \in Messages, Settle(c, m)
  PROVE  IInv'
<1> USE DeliveryAssumption DEF IInv, Shape, Queues, clientVars
<1> DEFINE works == stream[c] # "closed"
           settled == IF works THEN [loc EXCEPT ![m] = Place(verdict[c])] ELSE loc
           last == held[c] \ {m} = {}
<1>1. /\ pc[c] = "settle" /\ m \in held[c]
      /\ held' = [held EXCEPT ![c] = @ \ {m}]
      /\ loc' = IF last /\ c \in exiting THEN Released(settled, c) ELSE settled
      /\ stream' = IF last /\ c \in exiting THEN [stream EXCEPT ![c] = "closed"] ELSE stream
      /\ pc' = IF last THEN [pc EXCEPT ![c] = IF c \in exiting THEN "returned" ELSE "select"]
                       ELSE pc
      /\ verdict' = IF last THEN [verdict EXCEPT ![c] = "none"] ELSE verdict
      /\ UNCHANGED <<handled, lost>>
  BY Zenon DEF Settle, Remaining
<1>2. verdict[c] \in {"ack", "requeue", "reject"} BY <1>1, Zenon DEF ConsumerInv
<1>3. /\ Place(verdict[c]) \in {"done", "main", "retry"}
      /\ Place(verdict[c]) = "done" => verdict[c] = "ack"
  BY <1>2, Zenon DEF Place, DeadLettered, DLXBindings, DeadLetterRoutingKey
<1> HIDE DEF last
<1>4. settled \in [Messages -> Queues \cup Consumers \cup {"done"}]
  BY <1>3, Zenon
<1>5. works => loc[m] = c BY <1>1, Zenon DEF ConsumerInv
<1>6. \A k \in Messages : \/ loc'[k] = loc[k]
                          \/ k = m /\ works /\ loc[m] = c /\ loc'[m] = Place(verdict[c])
                          \/ last /\ c \in exiting /\ loc[k] = c /\ loc'[k] = "main"
  BY <1>1, <1>3, <1>4, <1>5, Zenon DEF Released
<1>7. Shape'
  BY <1>1, <1>4, Zenon DEF Released
<1>8. ASSUME NEW d \in Consumers PROVE ConsumerInv(d)'
  <2>1. CASE d = c
    <3>1. last => held'[c] = {} BY <1>1, Zenon DEF last
    <3>2. QED BY <1>1, <1>2, <1>6, <2>1, <3>1 DEF ConsumerInv
  <2>2. CASE d # c
    <3>1. /\ held'[d] = held[d] /\ stream'[d] = stream[d] /\ pc'[d] = pc[d]
          /\ verdict'[d] = verdict[d] /\ handled' = handled /\ lost' = lost
      BY <1>1, <2>2, Zenon
    <3>2. stream[d] # "closed" => \A k \in held[d] : loc[k] = d /\ loc'[k] = d
      BY <1>6, <2>2 DEF ConsumerInv
    <3>3. QED BY <3>1, <3>2, Zenon DEF ConsumerInv
  <2>3. QED BY <2>1, <2>2, Zenon
<1>9. ASSUME NEW k \in Messages PROVE MessageInv(k)'
  <2>1. loc'[k] = "done" => handled[k] > 0
    <3>1. loc[k] = "done" => handled[k] > 0 BY Zenon DEF MessageInv
    <3>2. verdict[c] = "ack" => handled[m] > 0 BY <1>1, Zenon DEF ConsumerInv
    <3>3. QED BY <1>3, <1>6, <3>1, <3>2, Zenon
  <2>2. ASSUME ~lost, handled[k] > 0 PROVE Acknowledged(k)'
    <3>1. works BY <1>1, <2>2, Zenon DEF ConsumerInv
    <3>2. CASE loc[k] = "done"
      BY <1>6, <3>1, <3>2, Zenon DEF Acknowledged
    <3>3. CASE loc[k] # "done"
      <4>1. PICK d \in Consumers : k \in held[d] /\ verdict[d] = "ack"
        BY <2>2, <3>3, Zenon DEF MessageInv, Acknowledged
      <4>2. CASE d # c
        BY <1>1, <4>1, <4>2, Zenon DEF Acknowledged
      <4>3. CASE d = c /\ k # m
        <5>1. ~last BY <4>1, <4>3, Zenon DEF last
        <5>2. QED BY <1>1, <4>1, <4>3, <5>1, Zenon DEF Acknowledged
      <4>4. CASE d = c /\ k = m
        <5>1. settled[m] = "done" BY <3>1, <4>1, <4>4, Zenon DEF Place
        <5>2. loc'[m] = "done" BY <1>1, <5>1, Zenon DEF Released
        <5>3. QED BY <4>4, <5>2, Zenon DEF Acknowledged
      <4>5. QED BY <4>2, <4>3, <4>4, Zenon
    <3>4. QED BY <3>2, <3>3, Zenon
  <2>3. QED BY <1>1, <2>1, <2>2, Zenon DEF MessageInv
<1>10. QED BY <1>7, <1>8, <1>9, Zenon

-----------------------------------------------------------------------------
(* The invariant holds of every reachable state.                           *)
THEOREM Invariant == Spec => []IInv
<1>1. Init => IInv
  <2> SUFFICES ASSUME Init PROVE IInv
    OBVIOUS
  <2>1. Shape
    <3>1. lost \in BOOLEAN BY Zenon DEF Init
    <3>2. held \in [Consumers -> SUBSET Messages] BY Zenon DEF Init
    <3>3. QED BY <3>1, <3>2 DEF Init, Shape, Queues
  <2>2. \A c \in Consumers : ConsumerInv(c) BY Zenon DEF Init, ConsumerInv
  <2>3. \A m \in Messages : MessageInv(m) BY DEF Init, MessageInv
  <2>4. QED BY <2>1, <2>2, <2>3, Zenon DEF IInv
<1>2. IInv /\ [Next]_vars => IInv'
  <2> SUFFICES ASSUME IInv, [Next]_vars PROVE IInv'
    OBVIOUS
  <2>1. CASE UNCHANGED vars
    BY <2>1, Zenon DEF IInv, Shape, ConsumerInv, MessageInv, Acknowledged, vars, clientVars
  <2>2. CASE Next
    BY <2>2, ConnectionStep, BrokerStep, TakeStep, LoopStep, HandleStep, SettleStep, Zenon
       DEF Next, Advance, Work
  <2>3. QED BY <2>1, <2>2, Zenon
<1>3. QED BY <1>1, <1>2, PTL DEF Spec

(* A message is gone only after a handler has succeeded on it: processing  *)
(* is at least once.                                                       *)
THEOREM AtLeastOnce == Spec => []AckedWasHandled
<1>1. IInv => AckedWasHandled BY Zenon DEF IInv, MessageInv, AckedWasHandled
<1>2. QED BY <1>1, Invariant, PTL

(* No delivery is settled twice on a channel.                              *)
THEOREM NoDoubleAck == Spec => []HeldIsUnacked
<1>1. IInv => HeldIsUnacked BY Zenon DEF IInv, Shape, ConsumerInv, HeldIsUnacked, Unacked
<1>2. QED BY <1>1, Invariant, PTL

(* As long as no connection is lost, a handler succeeds on a message at    *)
(* most once.                                                              *)
THEOREM AtMostOnce == Spec => []HandledOnce
<1>1. IInv => HandledOnce BY DEF IInv, Shape, MessageInv, HandledOnce
<1>2. QED BY <1>1, Invariant, PTL

-----------------------------------------------------------------------------
(* The broker and the consumers implement WorkQueue.                       *)
Done == {m \in Messages : handled[m] > 0}

(* A consumer without a channel is assigned nothing.                       *)
ClosedHasNone(c) == stream[c] = "closed" => \A m \in Messages : loc[m] # c

LEMMA ClosedStep ==
  ASSUME IInv, [Next]_vars, NEW d \in Consumers, ClosedHasNone(d)
  PROVE  ClosedHasNone(d)'
<1> USE DEF clientVars
<1>0. /\ loc \in [Messages -> Queues \cup Consumers \cup {"done"}]
      /\ stream \in [Consumers -> {"open", "cancelled", "closed"}]
      /\ d \notin {"main", "done", DeadLettered}
  BY DeliveryAssumption, Zenon
  DEF IInv, Shape, Queues, DeadLettered, DLXBindings, DeadLetterRoutingKey
<1>1. ASSUME stream'[d] = stream[d] \/ stream'[d] # "closed",
             \A m \in Messages : loc'[m] # loc[m] => loc'[m] # d
      PROVE  ClosedHasNone(d)'
  BY <1>1, Zenon DEF ClosedHasNone
<1>2. ASSUME NEW l, l \in [Messages -> Queues \cup Consumers \cup {"done"}]
      PROVE  \A m \in Messages : Released(l, d)[m] # d
  BY <1>0, <1>2, Zenon DEF Released
<1>3. ASSUME NEW l, NEW c \in Consumers
      PROVE  \A m \in Messages : Released(l, c)[m] # l[m] => Released(l, c)[m] # d
  BY <1>0, Zenon DEF Released
<1>4. CASE LoseConnection
  BY <1>0, <1>4, Zenon DEF LoseConnection, ClosedHasNone
<1>5. CASE Reconnect \/ UNCHANGED vars
  BY <1>5, Zenon DEF Reconnect, vars, ClosedHasNone
<1>6. ASSUME NEW m \in Messages, Deliver(m) \/ Expire(m) PROVE ClosedHasNone(d)'
  <2>1. CASE Deliver(m)
    BY <1>0, <2>1, Zenon DEF Deliver, ClosedHasNone
  <2>2. CASE Expire(m)
    BY <1>0, <1>1, <2>2, Zenon DEF Expire
  <2>3. QED BY <1>6, <2>1, <2>2, Zenon
<1>7. ASSUME NEW c \in Consumers, NEW m \in Messages, Take(c, m) PROVE ClosedHasNone(d)'
  BY <1>0, <1>1, <1>7, Zenon DEF Take
<1>8. ASSUME NEW c \in Consumers,
             \/ CancelledByBroker(c) \/ CancelContext(c) \/ StartConsumeLoop(c)
             \/ WaitForReconnect(c) \/ FlushTimeout(c) \/ Handle(c)
      PROVE  ClosedHasNone(d)'
  BY <1>0, <1>1, <1>8, Zenon DEF CancelledByBroker, CancelContext, StartConsumeLoop,
     WaitForReconnect, FlushTimeout, Handle
<1>9. ASSUME NEW c \in Consumers, Leave(c) PROVE ClosedHasNone(d)'
  <2>1. CASE UNCHANGED <<stream, loc>>
    BY <1>1, <2>1, Zenon
  <2>2. CASE stream' = [stream EXCEPT ![c] = "closed"] /\ loc' = Released(loc, c)
    <3>1. CASE c = d
      BY <1>0, <1>2, <2>2, <3>1, Zenon DEF ClosedHasNone
    <3>2. CASE c # d
      BY <1>0, <1>1, <1>3, <2>2, <3>2, Zenon
    <3>3. QED BY <3>1, <3>2, Zenon
  <2>3. QED BY <1>9, <2>1, <2>2, Zenon DEF Leave
<1>10. ASSUME NEW c \in Consumers, NEW m \in Messages, Settle(c, m) PROVE ClosedHasNone(d)'
  <2>1. verdict[c] \in {"ack", "requeue", "reject"}
    BY <1>10, Zenon DEF IInv, Shape, ConsumerInv, Settle
  <2>2. Place(verdict[c]) \in {"main", "done", DeadLettered}
    BY <2>1, Zenon DEF Place
  <2>3. PICK l \in [Messages -> Queues \cup Consumers \cup {"done"}] :
          /\ \A k \in Messages : l[k] # loc[k] => l[k] # d
          /\ \/ loc' = l /\ stream' = stream
             \/ loc' = Released(l, c) /\ stream' = [stream EXCEPT ![c] = "closed"]
    <3> DEFINE settled == [loc EXCEPT ![m] = Place(verdict[c])]
    <3>1. settled \in [Messages -> Queues \cup Consumers \cup {"done"}]
      BY <1>0, <2>2, Zenon DEF Queues, DeadLettered, DLXBindings, DeadLetterRoutingKey
    <3>2. \A k \in Messages : settled[k] # loc[k] => settled[k] # d
      BY <1>0, <2>2, Zenon
    <3> HIDE DEF settled
    <3>3. \/ loc' \in {loc, settled} /\ stream' = stream
          \/ /\ loc' \in {Released(loc, c), Released(settled, c)}
             /\ stream' = [stream EXCEPT ![c] = "closed"]
      BY <1>10, Zenon DEF Settle, settled
    <3>4. QED BY <1>0, <3>1, <3>2, <3>3, Zenon
  <2>4. CASE loc' = l /\ stream' = stream
    BY <1>1, <2>3, <2>4, Zenon
  <2>5. CASE loc' = Released(l, c) /\ stream' = [stream EXCEPT ![c] = "closed"]
    <3>1. CASE c = d
      BY <1>0, <1>2, <2>5, <3>1, Zenon DEF ClosedHasNone
    <3>2. CASE c # d
      <4>1. stream'[d] = stream[d] BY <1>0, <2>5, <3>2, Zenon
      <4>2. ASSUME NEW k \in Messages, loc'[k] # loc[k] PROVE loc'[k] # d
        <5>1. loc'[k] # l[k] => loc'[k] # d BY <1>3, <2>5, Zenon
        <5>2. l[k] # loc[k] => l[k] # d BY <2>3, Zenon
        <5>3. QED BY <4>2, <5>1, <5>2, Zenon
      <4>3. QED BY <1>1, <4>1, <4>2, Zenon
    <3>3. QED BY <3>1, <3>2, Zenon
  <2>6. QED BY <2>3, <2>4, <2>5, Zenon
<1>11. QED BY <1>4, <1>5, <1>6, <1>7, <1>8, <1>9, <1>10, Zenon DEF Next, Advance, Work

(* One delivery is settled by the consumer it is assigned to; with the last*)
(* one of its last flush a batch consumer gives back the rest.  When the   *)
(* channel is gone the delivery is only put down.                          *)
LEMMA SettlesOne ==
  ASSUME IInv, NEW c \in Consumers, ClosedHasNone(c), NEW m \in Messages, Settle(c, m)
  PROVE  Queue!Settle(c, m) \/ Queue!PutDown(c, m)
<1> DEFINE works == stream[c] # "closed"
           settled == IF works THEN [loc EXCEPT ![m] = Place(verdict[c])] ELSE loc
           stops == Remaining(c, m) = {} /\ c \in exiting
<1>1. /\ pc[c] = "settle" /\ m \in held[c]
      /\ loc' = IF stops THEN Released(settled, c) ELSE settled
      /\ held' = [held EXCEPT ![c] = @ \ {m}]
      /\ handled' = handled
  BY Zenon DEF Settle, Remaining
<1>2. /\ loc \in [Messages -> Queues \cup Consumers \cup {"done"}]
      /\ ConsumerInv(c)
  BY Zenon DEF IInv, Shape
<1>3. UNCHANGED Done
  BY <1>1, Zenon DEF Done
<1>4. CASE ~works
  <2>1. \A k \in Messages : loc[k] # c
    BY <1>4, Zenon DEF ClosedHasNone
  <2>2. Released(loc, c) = loc
    BY <1>2, <2>1, Zenon DEF Released
  <2>3. QED BY <1>1, <1>3, <1>4, <2>1, <2>2, Zenon DEF Queue!PutDown, Done
<1>5. CASE works
  <2> DEFINE to == Place(verdict[c])
  <2>1. loc[m] = c /\ (verdict[c] = "ack" => m \in Done)
    BY <1>1, <1>2, <1>5, Zenon DEF ConsumerInv, Done
  <2>2. /\ to \in {"main", DeadLettered, "done"}
        /\ to = "done" => verdict[c] = "ack"
    <3>1. verdict[c] \in {"ack", "requeue", "reject"}
      BY <1>1, <1>2, Zenon DEF ConsumerInv, IInv, Shape
    <3>2. QED BY <3>1, Zenon DEF Place, DeadLettered, DLXBindings, DeadLetterRoutingKey
  <2> HIDE DEF to
  <2>3. settled = [loc EXCEPT ![m] = to]
    BY <1>5, Zenon DEF to
  <2>4. \E W \in SUBSET {c} : loc' = Queue!TakenBack([loc EXCEPT ![m] = to], W)
    <3>1. CASE stops
      <4>1. loc' = Queue!TakenBack([loc EXCEPT ![m] = to], {c})
        BY <1>1, <2>3, <3>1, Zenon DEF Released, Queue!TakenBack
      <4>2. QED BY <4>1, Zenon
    <3>2. CASE ~stops
      <4>1. loc' = Queue!TakenBack([loc EXCEPT ![m] = to], {})
        BY <1>1, <1>2, <2>3, <3>2, Zenon DEF Queue!TakenBack
      <4>2. QED BY <4>1, Zenon
    <3>3. QED BY <3>1, <3>2, Zenon
  <2>5. QED BY <1>1, <1>3, <2>1, <2>2, <2>4, Zenon DEF Queue!Settle, Done
<1>6. QED BY <1>4, <1>5, Zenon

(* What a consumer takes it holds, or rejects as its own.                  *)
LEMMA TakesOne ==
  ASSUME IInv, NEW c \in Consumers, NEW m \in Messages, Take(c, m)
  PROVE  Queue!PickUp(c, m) \/ Queue!Settle(c, m)
<1>1. /\ loc \in [Messages -> Queues \cup Consumers \cup {"done"}]
      /\ held \in [Consumers -> SUBSET Messages]
      /\ loc[m] = c /\ m \notin held[c]
  BY Zenon DEF IInv, Shape, Take
<1>2. UNCHANGED Done
  BY Zenon DEF Take, Done
<1>3. CASE loc' = [loc EXCEPT ![m] = DeadLettered] /\ held' = held
  <2>1. DeadLettered # "done"
    BY DEF DeadLettered, DLXBindings, DeadLetterRoutingKey
  <2>2. loc' = Queue!TakenBack([loc EXCEPT ![m] = DeadLettered], {})
    BY <1>1, <1>3, Zenon DEF Queue!TakenBack
  <2>3. held' = [held EXCEPT ![c] = @ \ {m}]
    BY <1>1, <1>3, Zenon
  <2>4. QED BY <1>1, <1>2, <2>1, <2>2, <2>3, Zenon DEF Queue!Settle, Done
<1>4. CASE loc' = loc /\ held' = [held EXCEPT ![c] = @ \cup {m}]
  BY <1>1, <1>2, <1>4, Zenon DEF Queue!PickUp, Done
<1>5. QED BY <1>3, <1>4, Zenon DEF Take

(* A message is settled only by the consumer it is assigned to, is gone    *)
(* only once it was handled and then for good, and does not stay assigned  *)
(* to a consumer that has put it down: for any number of consumers,        *)
(* whatever connections and channels are lost on the way.                  *)
THEOREM Refinement == Spec => ImplementsWorkQueue
<1> DEFINE ClosedInv == \A c \in Consumers : ClosedHasNone(c)
<1>1. Init => Queue!Init
  <2> SUFFICES ASSUME Init PROVE Queue!Init
    OBVIOUS
  <2>1. {m \in Messages : handled[m] > 0} = {} BY DEF Init
  <2>2. QED BY <2>1, Zenon DEF Init, Queue!Init
<1>2. IInv /\ ClosedInv /\ [Next]_vars => [Queue!Next]_(Queue!queueVars)
  <2> SUFFICES ASSUME IInv, ClosedInv, [Next]_vars
               PROVE  Queue!Next \/ UNCHANGED <<loc, held, Done>>
    BY Zenon DEF Queue!queueVars, Done
  <2> USE DEF clientVars
  <2>0. /\ loc \in [Messages -> Queues \cup Consumers \cup {"done"}]
        /\ handled \in [Messages -> 0..2]
    BY Zenon DEF IInv, Shape
  <2>1. ASSUME UNCHANGED handled PROVE UNCHANGED Done
    BY <2>1, Zenon DEF Done
  <2>2. CASE UNCHANGED vars BY <2>1, <2>2, Zenon DEF vars
  <2>3. CASE LoseConnection
    <3>1. loc' = Queue!TakenBack(loc, Consumers)
      BY <2>3, Zenon DEF LoseConnection, Queue!TakenBack
    <3>2. Queue!TakeBack
      BY <2>1, <2>3, <3>1, Zenon DEF LoseConnection, Queue!TakeBack, Done
    <3>3. QED BY <3>2, Zenon DEF Queue!Next
  <2>4. CASE Reconnect BY <2>1, <2>4, Zenon DEF Reconnect
  <2>5. ASSUME NEW m \in Messages, Deliver(m) \/ Expire(m)
        PROVE  Queue!Return(m) \/ \E c \in Consumers : Queue!Assign(c, m)
    <3>1. CASE Deliver(m) BY <2>1, <3>1, Zenon DEF Deliver, Queue!Assign, Done
    <3>2. CASE Expire(m)
      BY <2>1, <3>2, Zenon
      DEF Expire, Queue!Return, DeadLettered, DLXBindings, DeadLetterRoutingKey, Done
    <3>3. QED BY <2>5, <3>1, <3>2, Zenon
  <2>6. ASSUME NEW c \in Consumers,
               \/ CancelledByBroker(c) \/ CancelContext(c) \/ StartConsumeLoop(c)
               \/ WaitForReconnect(c) \/ FlushTimeout(c)
        PROVE  UNCHANGED <<loc, held, Done>>
    BY <2>1, <2>6, Zenon DEF CancelledByBroker, CancelContext, StartConsumeLoop,
       WaitForReconnect, FlushTimeout
  <2>7. ASSUME NEW c \in Consumers, Leave(c) PROVE Queue!TakeBack
    <3>1. PICK W \in SUBSET Consumers : loc' = Queue!TakenBack(loc, W)
      <4>1. CASE loc' = loc
        <5>1. loc' = Queue!TakenBack(loc, {}) BY <2>0, <4>1, Zenon DEF Queue!TakenBack
        <5>2. QED BY <5>1, Zenon
      <4>2. CASE loc' = Released(loc, c)
        <5>1. loc' = Queue!TakenBack(loc, {c}) BY <4>2, Zenon DEF Queue!TakenBack, Released
        <5>2. QED BY <5>1, Zenon
      <4>3. QED BY <2>7, <4>1, <4>2, Zenon DEF Leave
    <3>2. QED BY <2>1, <2>7, <3>1, Zenon DEF Leave, Queue!TakeBack, Done
  <2>8. ASSUME NEW c \in Consumers, Handle(c)
        PROVE  Queue!WorkOn(c) \/ UNCHANGED <<loc, held, Done>>
    <3>1. UNCHANGED <<loc, held>> BY <2>8, Zenon DEF Handle
    <3>2. CASE handled' = handled
      BY <2>1, <3>1, <3>2, Zenon
    <3>3. CASE handled' = [m \in Messages |->
            IF m \in held[c] /\ handled[m] < 2 THEN handled[m] + 1 ELSE handled[m]]
      <4>1. \A m \in Messages : handled'[m] > 0 <=> (handled[m] > 0 \/ m \in held[c])
        BY <2>0, <3>3
      <4>2. held[c] \in SUBSET Messages BY Zenon DEF IInv, Shape
      <4>3. Done' = Done \cup held[c] BY <4>1, <4>2, Zenon DEF Done
      <4>4. QED BY <3>1, <4>3, Zenon DEF Queue!WorkOn, Done
    <3>4. QED BY <2>8, <3>2, <3>3, Zenon DEF Handle
  <2>9. QED BY <2>2, <2>3, <2>4, <2>5, <2>6, <2>7, <2>8, TakesOne, SettlesOne, Zenon
            DEF Next, Advance, Work, Queue!Next
<1>3. Init => ClosedInv
  BY DeliveryAssumption, Zenon DEF Init, ClosedHasNone, Queues
<1>4. IInv /\ ClosedInv /\ [Next]_vars => ClosedInv'
  BY ClosedStep, Zenon
<1> HIDE DEF ClosedInv
<1>5. QED
  BY <1>1, <1>2, <1>3, <1>4, Invariant, PTL DEF Spec, ImplementsWorkQueue, Queue!Spec

-----------------------------------------------------------------------------
(* What a consumer has in hand: a Consumer one delivery while it works on  *)
(* it and none while it waits for the next, a BatchConsumer a batch, which *)
(* is full only when it is on its way to the handler.                      *)
HandInv(c) ==
  /\ c \in Singles => \A m, n \in held[c] : m = n
  /\ c \in Singles /\ pc[c] = "select" => held[c] = {}
  /\ c \in Batchers => /\ pc[c] # "wait" /\ IsFiniteSet(held[c])
                       /\ Cardinality(held[c]) <= BatchSize
  /\ c \in Batchers /\ pc[c] = "select" => Cardinality(held[c]) < BatchSize

(* The rest of the types.                                                  *)
RestOK ==
  /\ connected \in BOOLEAN
  /\ exiting \subseteq Batchers /\ cancelled \subseteq Consumers
  /\ xdeath \in [Messages -> SUBSET {"rejected", "expired"}]
  /\ faults \in 0..MaxFaults

(* Every step keeps the rest of the types: only a batch consumer has       *)
(* something to flush when it leaves its loop.                             *)
LEMMA RestStep ==
  ASSUME IInv, RestOK, \A c \in Consumers : HandInv(c), Next
  PROVE  RestOK'
<1> USE DeliveryAssumption DEF clientVars
<1>1. connected' \in BOOLEAN
  <2>1. CASE LoseConnection
    BY <2>1, Zenon DEF LoseConnection
  <2>2. CASE Reconnect
    BY <2>2, Zenon DEF Reconnect
  <2>3. CASE UNCHANGED connected
    BY <2>3, Zenon DEF RestOK
  <2> QED
    BY <2>1, <2>2, <2>3, ZenonT(30)
    DEF Next, Advance, Work, Deliver, Expire, Take, CancelledByBroker,
       CancelContext, StartConsumeLoop, WaitForReconnect, Leave, FlushTimeout, Handle, Settle
<1>2. exiting' \subseteq Batchers
  <2>1. ASSUME NEW c \in Consumers, Leave(c)
        PROVE  exiting' \subseteq Batchers
    BY <2>1, Zenon DEF Leave, HandInv, RestOK, Consumers
  <2>2. CASE UNCHANGED exiting
    BY <2>2, Zenon DEF RestOK
  <2> QED
    BY <2>1, <2>2, ZenonT(30) DEF Next, Advance, Work, Deliver, Expire, Take, CancelledByBroker,
       CancelContext, StartConsumeLoop, WaitForReconnect, FlushTimeout, Handle, Settle,
       LoseConnection, Reconnect
<1>3. cancelled' \subseteq Consumers
  <2>1. ASSUME NEW c \in Consumers, CancelContext(c)
        PROVE  cancelled' \subseteq Consumers
    BY <2>1, Zenon DEF CancelContext, RestOK
  <2>2. CASE UNCHANGED cancelled
    BY <2>2, Zenon DEF RestOK
  <2> QED
    BY <2>1, <2>2, ZenonT(30) DEF Next, Advance, Work, Deliver, Expire, Take, CancelledByBroker,
       Leave, StartConsumeLoop, WaitForReconnect, FlushTimeout, Handle, Settle,
       LoseConnection, Reconnect
<1>4. xdeath' \in [Messages -> SUBSET {"rejected", "expired"}]
  <2>1. ASSUME NEW m \in Messages, NEW r \in {"rejected", "expired"},
               xdeath' = [xdeath EXCEPT ![m] = @ \cup {r}]
        PROVE  xdeath' \in [Messages -> SUBSET {"rejected", "expired"}]
    BY <2>1, Zenon DEF RestOK
  <2>2. CASE UNCHANGED xdeath
    BY <2>2, Zenon DEF RestOK
  <2>3. \A m \in Messages : Expire(m) =>
          xdeath' = [xdeath EXCEPT ![m] = @ \cup {"expired"}]
    BY Zenon DEF Expire
  <2>4. \A m \in Messages, c \in Consumers : Take(c, m) \/ Settle(c, m) =>
          UNCHANGED xdeath \/ xdeath' = [xdeath EXCEPT ![m] = @ \cup {"rejected"}]
    BY DEF Take, Settle
  <2> QED
    BY <2>1, <2>2, <2>3, <2>4, Zenon DEF Next, Advance, Work, Deliver, CancelledByBroker, Leave,
       CancelContext, StartConsumeLoop, WaitForReconnect, FlushTimeout, Handle,
       LoseConnection, Reconnect
<1>5. faults' \in 0..MaxFaults
  <2>1. Fault \/ UNCHANGED faults
    BY ZenonT(30) DEF Next, Advance, Work, Deliver, Expire, Take, CancelledByBroker, Leave, Settle,
       CancelContext, StartConsumeLoop, WaitForReconnect, FlushTimeout, Handle,
       LoseConnection, Reconnect
  <2> QED
    BY <2>1 DEF Fault, RestOK
<1> QED
  BY <1>1, <1>2, <1>3, <1>4, <1>5, Zenon DEF RestOK

(* One more in hand, and one less.                                         *)
LEMMA OneMore ==
  ASSUME NEW S, NEW m, IsFiniteSet(S), m \notin S
  PROVE  /\ IsFiniteSet(S \cup {m}) /\ Cardinality(S) \in Nat
         /\ Cardinality(S \cup {m}) = Cardinality(S) + 1
BY FS_AddElement, FS_CardinalityType, Zenon

LEMMA OneLess ==
  ASSUME NEW S, NEW m, IsFiniteSet(S), m \in S
  PROVE  /\ IsFiniteSet(S \ {m}) /\ Cardinality(S) \in Nat
         /\ Cardinality(S \ {m}) = Cardinality(S) - 1
BY FS_RemoveElement, FS_CardinalityType, Zenon

(* A consumer that takes a delivery had room for it.                       *)
LEMMA TakeHand ==
  ASSUME IInv, NEW c \in Consumers, HandInv(c), NEW m \in Messages, Take(c, m)
  PROVE  HandInv(c)'
<1>0. /\ pc[c] = "select" /\ m \notin held[c]
      /\ pc \in [Consumers -> {"start", "wait", "select", "handle", "settle", "returned"}]
      /\ held \in [Consumers -> SUBSET Messages]
  BY Zenon DEF Take, IInv, Shape
<1>1. CASE UNCHANGED <<held, pc>>
  BY <1>1, Zenon DEF HandInv
<1>2. CASE /\ held' = [held EXCEPT ![c] = @ \cup {m}]
           /\ pc' = [pc EXCEPT ![c] = IF c \in Singles \/ Cardinality(held'[c]) >= BatchSize
                                       THEN "handle" ELSE "select"]
  <2>1. /\ held'[c] = held[c] \cup {m}
        /\ c \in Singles => pc'[c] = "handle"
        /\ pc'[c] \in {"handle", "select"}
        /\ pc'[c] = "select" => ~(Cardinality(held'[c]) >= BatchSize)
    BY <1>0, <1>2, Zenon
  <2>2. CASE c \in Singles
    <3>1. c \notin Batchers /\ held[c] = {}
      BY <1>0, <2>2, DeliveryAssumption, Zenon DEF HandInv
    <3> QED
      BY <2>1, <2>2, <3>1, Zenon DEF HandInv
  <2>3. CASE c \notin Singles
    <3>1. c \in Batchers /\ IsFiniteSet(held[c]) /\ Cardinality(held[c]) < BatchSize
      BY <1>0, <2>3, Zenon DEF HandInv, Consumers
    <3>2. /\ IsFiniteSet(held'[c]) /\ Cardinality(held[c]) \in Nat
          /\ Cardinality(held'[c]) = Cardinality(held[c]) + 1
      BY <1>0, <2>1, <3>1, OneMore
    <3>3. /\ Cardinality(held'[c]) <= BatchSize
          /\ pc'[c] = "select" => Cardinality(held'[c]) < BatchSize
      BY <2>1, <3>1, <3>2, DeliveryAssumption
    <3> QED
      BY <2>1, <2>3, <3>2, <3>3, Zenon DEF HandInv
  <2> QED
    BY <2>2, <2>3, Zenon
<1> QED
  BY <1>1, <1>2, Zenon DEF Take

(* A consumer that settles a delivery has one less, and goes back to its   *)
(* loop with none.                                                         *)
LEMMA SettleHand ==
  ASSUME IInv, NEW c \in Consumers, HandInv(c), NEW m \in Messages, Settle(c, m)
  PROVE  HandInv(c)'
<1>1. /\ pc[c] = "settle" /\ m \in held[c]
      /\ held' = [held EXCEPT ![c] = held[c] \ {m}]
      /\ pc' = IF held[c] \ {m} = {}
                 THEN [pc EXCEPT ![c] = IF c \in exiting THEN "returned" ELSE "select"]
                 ELSE pc
  BY Zenon DEF Settle, Remaining
<1>2. /\ pc \in [Consumers -> {"start", "wait", "select", "handle", "settle", "returned"}]
      /\ held \in [Consumers -> SUBSET Messages]
  BY Zenon DEF IInv, Shape
<1>3. /\ held'[c] = held[c] \ {m} /\ pc'[c] # "wait"
      /\ pc'[c] = "select" => held'[c] = {}
  BY <1>1, <1>2, Zenon
<1>4. CASE c \in Singles
  <2>1. c \notin Batchers
    BY <1>4, DeliveryAssumption, Zenon
  <2> QED
    BY <1>3, <1>4, <2>1, Zenon DEF HandInv
<1>5. CASE c \notin Singles
  <2>1. c \in Batchers /\ IsFiniteSet(held[c]) /\ Cardinality(held[c]) <= BatchSize
    BY <1>5, Zenon DEF HandInv, Consumers
  <2>2. /\ IsFiniteSet(held'[c]) /\ Cardinality(held[c]) \in Nat
        /\ Cardinality(held'[c]) = Cardinality(held[c]) - 1
    BY <1>1, <1>3, <2>1, OneLess
  <2>3. Cardinality(held'[c]) < BatchSize /\ Cardinality(held'[c]) <= BatchSize
    BY <2>1, <2>2, DeliveryAssumption
  <2> QED
    BY <1>3, <1>5, <2>2, <2>3, Zenon DEF HandInv
<1> QED
  BY <1>4, <1>5, Zenon

(* In the other steps of its loop a consumer moves with what it has: back  *)
(* to the select only with nothing.                                        *)
LEMMA MoveHand ==
  ASSUME IInv, NEW c \in Consumers, HandInv(c),
         \/ StartConsumeLoop(c) \/ WaitForReconnect(c) \/ Leave(c) \/ FlushTimeout(c)
         \/ Handle(c)
  PROVE  HandInv(c)'
<1>1. /\ pc \in [Consumers -> {"start", "wait", "select", "handle", "settle", "returned"}]
      /\ pc[c] \in {"start", "wait", "returned"} => held[c] = {}
  BY Zenon DEF IInv, Shape, ConsumerInv
<1>2. /\ held' = held
      /\ pc'[c] = "select" => pc[c] = "start"
      /\ pc'[c] = "wait" => c \in Reconnecting
  BY <1>1, Zenon DEF StartConsumeLoop, WaitForReconnect, Leave, FlushTimeout, Handle, AfterError
<1>3. pc'[c] = "wait" => c \notin Batchers
  BY <1>2, DeliveryAssumption, Zenon
<1>4. pc'[c] = "select" => held[c] = {} /\ Cardinality(held[c]) < BatchSize
  <2>1. Cardinality({}) = 0
    BY FS_EmptySet, Zenon
  <2> QED
    BY <1>1, <1>2, <2>1, DeliveryAssumption
<1> QED
  BY <1>2, <1>3, <1>4, Zenon DEF HandInv

(* Every step keeps what the consumers have in hand in bounds.             *)
LEMMA HandStep ==
  ASSUME IInv, \A c \in Consumers : HandInv(c), Next
  PROVE  \A c \in Consumers : HandInv(c)'
<1>0. /\ pc \in [Consumers -> {"start", "wait", "select", "handle", "settle", "returned"}]
      /\ held \in [Consumers -> SUBSET Messages]
  BY Zenon DEF IInv, Shape
<1>1. CASE UNCHANGED <<pc, held>>
  BY <1>1, Zenon DEF HandInv
<1>2. ASSUME NEW c \in Consumers, HandInv(c)',
             \A d \in Consumers \ {c} : pc'[d] = pc[d] /\ held'[d] = held[d]
      PROVE  \A d \in Consumers : HandInv(d)'
  BY <1>2, Zenon DEF HandInv
<1>3. ASSUME NEW c \in Consumers, NEW m \in Messages, Take(c, m)
      PROVE  \A d \in Consumers : HandInv(d)'
  <2>1. \A d \in Consumers \ {c} : pc'[d] = pc[d] /\ held'[d] = held[d]
    BY <1>0, <1>3, Zenon DEF Take
  <2> QED
    BY <1>2, <1>3, <2>1, TakeHand, Zenon
<1>4. ASSUME NEW c \in Consumers, NEW m \in Messages, Settle(c, m)
      PROVE  \A d \in Consumers : HandInv(d)'
  <2>1. \A d \in Consumers \ {c} : pc'[d] = pc[d] /\ held'[d] = held[d]
    BY <1>0, <1>4, Zenon DEF Settle
  <2> QED
    BY <1>2, <1>4, <2>1, SettleHand, Zenon
<1>5. ASSUME NEW c \in Consumers,
             \/ StartConsumeLoop(c) \/ WaitForReconnect(c) \/ Leave(c)
             \/ FlushTimeout(c) \/ Handle(c)
      PROVE  \A d \in Consumers : HandInv(d)'
  <2>1. \A d \in Consumers \ {c} : pc'[d] = pc[d] /\ held'[d] = held[d]
    BY <1>0, <1>5, Zenon
       DEF StartConsumeLoop, WaitForReconnect, Leave, FlushTimeout, Handle
  <2> QED
    BY <1>2, <1>5, <2>1, MoveHand, Zenon
<1> QED
  BY <1>1, <1>3, <1>4, <1>5, Zenon DEF Next, Advance, Work, Deliver, Expire, LoseConnection,
     Reconnect, CancelledByBroker, CancelContext, clientVars

(* Every variable keeps its type; in particular no batch is greater than   *)
(* the batch size, whatever arrives while a flush is under way, and only   *)
(* batch consumers flush on their way out.                                 *)
THEOREM TypeCorrect == Spec => []TypeOK
<1> DEFINE Hands == \A c \in Consumers : HandInv(c)
<1>1. Init => RestOK /\ Hands
  <2> SUFFICES ASSUME Init PROVE RestOK /\ Hands
    OBVIOUS
  <2>1. connected \in BOOLEAN
    BY Zenon DEF Init
  <2>2. RestOK
    BY <2>1, DeliveryAssumption DEF Init, RestOK
  <2>3. IsFiniteSet({}) /\ Cardinality({}) = 0
    BY FS_EmptySet, Zenon
  <2>4. ASSUME NEW c \in Consumers PROVE HandInv(c)
    BY <2>3, DeliveryAssumption DEF Init, HandInv
  <2> QED
    BY <2>2, <2>4, Zenon
<1>2. IInv /\ RestOK /\ Hands /\ [Next]_vars => RestOK' /\ Hands'
  <2>1. RestOK /\ Hands /\ UNCHANGED vars => RestOK' /\ Hands'
    BY Zenon DEF vars, clientVars, RestOK, HandInv
  <2> QED
    BY <2>1, RestStep, HandStep, Zenon
<1>3. IInv /\ RestOK /\ Hands => TypeOK
  BY Zenon DEF IInv, Shape, RestOK, HandInv, TypeOK, Consumers
<1> HIDE DEF Hands
<1> QED
  BY <1>1, <1>2, <1>3, Invariant, PTL DEF Spec
=============================================================================
