------------------------------ MODULE Delivery ------------------------------
(***************************************************************************)
(* rabbitmq/consumer.go: Consumer and BatchConsumer on one queue that      *)
(* SetupQueueWithDLX and SetupDeadLetterExchange set up.                   *)
(* The broker delivers up to the prefetch count, takes back what was not   *)
(* acknowledged when a channel closes, and sends rejected messages through *)
(* the dead letter exchange.  Messages are acknowledged manually (AutoAck  *)
(* is FALSE, the default).                                                 *)
(***************************************************************************)
EXTENDS Integers, FiniteSets

CONSTANTS
  Singles,      \* StartConsumer
  Reconnecting, \* those of them with AutoReconnect
  Batchers,     \* StartBatchConsumer
  Messages,
  Poison,       \* messages that are not JSON
  Hopeless,     \* messages the handler always fails on
  Returned,     \* messages that were dead-lettered before and moved back
  Prefetch,     \* Config.PrefetchCount
  BatchSize,    \* BatchConsumer.batchSize
  MaxRetries,   \* Config.MaxRetries
  MaxFaults     \* bound: lost connections, cancelled consumers, failed starts and handlers

Consumers == Singles \cup Batchers
Queues == {"main", "retry", "parking-lot"}

ASSUME DeliveryAssumption ==
  /\ Prefetch \in Nat \ {0} /\ BatchSize \in Nat \ {0} /\ MaxRetries \in Nat \ {0}
  /\ MaxFaults \in Nat /\ Reconnecting \subseteq Singles
  /\ Singles \cap Batchers = {}
  /\ Poison \subseteq Messages /\ Hopeless \subseteq Messages
  /\ Returned \subseteq Messages
  /\ Consumers \cap (Queues \cup {"done"}) = {}

VARIABLES
  connected, \* Client.IsHealthy
  stream,    \* a consumer's channel: open, cancelled by the broker, closed
  pc,        \* where each consumer is
  held,      \* the delivery in hand, or the batch
  verdict,   \* how the deliveries in hand are going to be settled
  exiting,   \* batch consumers in their last flush
  cancelled, \* consumers whose context is done
  loc,       \* where the broker has a message: a queue, unacked, or gone
  xdeath,    \* its x-death header: an entry per queue and reason
  handled,   \* history: successful handler calls, up to two
  lost,      \* history: a connection was lost
  faults

clientVars == <<stream, pc, held, verdict, exiting>>
vars == <<connected, clientVars, cancelled, loc, xdeath, handled, lost, faults>>

TypeOK ==
  /\ connected \in BOOLEAN
  /\ stream \in [Consumers -> {"open", "cancelled", "closed"}]
  /\ \A c \in Singles : pc[c] \in {"start", "wait", "select", "handle", "settle", "returned"}
  /\ \A c \in Batchers : pc[c] \in {"start", "select", "handle", "settle", "returned"}
  /\ held \in [Consumers -> SUBSET Messages]
  /\ \A c \in Batchers : Cardinality(held[c]) <= BatchSize
  /\ verdict \in [Consumers -> {"none", "ack", "requeue", "reject"}]
  /\ exiting \subseteq Batchers
  /\ cancelled \subseteq Consumers
  /\ loc \in [Messages -> Queues \cup Consumers \cup {"done"}]
  /\ xdeath \in [Messages -> SUBSET {"rejected", "expired"}]
  /\ handled \in [Messages -> 0..2]
  /\ lost \in BOOLEAN
  /\ faults \in 0..MaxFaults

Init ==
  /\ connected = TRUE
  /\ stream = [c \in Consumers |-> "closed"]
  /\ pc = [c \in Consumers |-> "start"]
  /\ held = [c \in Consumers |-> {}]
  /\ verdict = [c \in Consumers |-> "none"]
  /\ exiting = {} /\ cancelled = {}
  /\ loc = [m \in Messages |-> "main"]
  /\ xdeath = [m \in Messages |-> IF m \in Returned THEN {"rejected"} ELSE {}]
  /\ handled = [m \in Messages |-> 0]
  /\ lost = FALSE
  /\ faults = 0

-----------------------------------------------------------------------------
(* The broker and the connection.                                          *)

Unacked(c) == {m \in Messages : loc[m] = c}

(* A closed channel gives its unacknowledged messages back.                *)
Released(l, c) == [m \in Messages |-> IF l[m] = c THEN "main" ELSE l[m]]

(* The dead letter exchange has two bindings, and the main queue dead-     *)
(* letters with its own name as the routing key.                           *)
DLXBindings == [main |-> "retry", parking |-> "parking-lot"]
DeadLetterRoutingKey == "main"
DeadLettered == DLXBindings[DeadLetterRoutingKey]

Fault == faults < MaxFaults /\ faults' = faults + 1

Deliver(m) ==
  \E c \in Consumers :
    /\ stream[c] = "open" /\ loc[m] = "main"
    /\ Cardinality(Unacked(c)) < Prefetch
    /\ loc' = [loc EXCEPT ![m] = c]
    /\ UNCHANGED <<connected, clientVars, cancelled, xdeath, handled, lost, faults>>

(* The TTL of the retry queue: back to the main queue.                     *)
Expire(m) ==
  /\ loc[m] = "retry"
  /\ loc' = [loc EXCEPT ![m] = "main"]
  /\ xdeath' = [xdeath EXCEPT ![m] = @ \cup {"expired"}]
  /\ UNCHANGED <<connected, clientVars, cancelled, handled, lost, faults>>

LoseConnection ==
  /\ connected /\ Fault
  /\ connected' = FALSE /\ lost' = TRUE
  /\ stream' = [c \in Consumers |-> "closed"]
  /\ loc' = [m \in Messages |-> IF loc[m] \in Consumers THEN "main" ELSE loc[m]]
  /\ UNCHANGED <<pc, held, verdict, exiting, cancelled, xdeath, handled>>

(* Module RabbitClient.                                                    *)
Reconnect ==
  /\ ~connected /\ connected' = TRUE
  /\ UNCHANGED <<clientVars, cancelled, loc, xdeath, handled, lost, faults>>

(* basic.cancel ends the deliveries; the channel stays open, and amqp091   *)
(* still hands out what it has buffered.                                   *)
CancelledByBroker(c) ==
  /\ stream[c] = "open" /\ Fault
  /\ stream' = [stream EXCEPT ![c] = "cancelled"]
  /\ UNCHANGED <<connected, pc, held, verdict, exiting, cancelled, loc, xdeath, handled,
                 lost>>

CancelContext(c) ==
  /\ c \notin cancelled
  /\ cancelled' = cancelled \cup {c}
  /\ UNCHANGED <<connected, clientVars, loc, xdeath, handled, lost, faults>>

-----------------------------------------------------------------------------
(* The consume loops.                                                      *)

(* startConsumerWithReconnect waits after an error, unless its context is  *)
(* done; without AutoReconnect StartConsumer returns, and so does          *)
(* StartBatchConsumer.  The broken forms wait in all, and in none.         *)
AfterErrorWaits(c) == IF c \in cancelled THEN "returned" ELSE "wait"
AfterErrorReturns(c) == "returned"
AfterError(c) == IF c \in Reconnecting /\ c \notin cancelled THEN "wait" ELSE "returned"

(* The channel, its QoS and Consume.  They fail without a connection, and  *)
(* with one when the broker refuses.                                       *)
StartConsumeLoop(c) ==
  /\ pc[c] = "start"
  /\ \/ /\ connected /\ UNCHANGED faults
        /\ stream' = [stream EXCEPT ![c] = "open"]
        /\ pc' = [pc EXCEPT ![c] = "select"]
     \/ /\ IF connected THEN Fault ELSE UNCHANGED faults
        /\ pc' = [pc EXCEPT ![c] = AfterError(c)]
        /\ UNCHANGED stream
  /\ UNCHANGED <<connected, held, verdict, exiting, cancelled, loc, xdeath, handled, lost>>

WaitForReconnect(c) ==
  /\ pc[c] = "wait"
  /\ \/ c \in cancelled /\ pc' = [pc EXCEPT ![c] = "returned"]
     \/ connected /\ pc' = [pc EXCEPT ![c] = "start"]
  /\ UNCHANGED <<connected, stream, held, verdict, exiting, cancelled, loc, xdeath, handled,
                 lost, faults>>

(* The delivery channel ends when the channel closes, and after a cancel   *)
(* when what was delivered before is taken.  Consumer is notified of the   *)
(* cancel besides.                                                         *)
Ended(c) ==
  \/ stream[c] = "closed"
  \/ stream[c] = "cancelled" /\ (c \in Singles \/ Unacked(c) \subseteq held[c])

(* ctx.Done, or the end of the deliveries: a batch consumer flushes first, *)
(* then the channel is closed.                                             *)
Leave(c) ==
  /\ pc[c] = "select" /\ (c \in cancelled \/ Ended(c))
  /\ \/ /\ held[c] # {}
        /\ exiting' = exiting \cup {c}
        /\ pc' = [pc EXCEPT ![c] = "handle"]
        /\ UNCHANGED <<stream, loc>>
     \/ /\ held[c] = {}
        /\ stream' = [stream EXCEPT ![c] = "closed"]
        /\ loc' = Released(loc, c)
        /\ pc' = [pc EXCEPT ![c] = AfterError(c)]
        /\ UNCHANGED exiting
  /\ UNCHANGED <<connected, held, verdict, cancelled, xdeath, handled, lost, faults>>

(* flushTimer.                                                             *)
FlushTimeout(c) ==
  /\ c \in Batchers /\ pc[c] = "select" /\ held[c] # {}
  /\ pc' = [pc EXCEPT ![c] = "handle"]
  /\ UNCHANGED <<connected, stream, held, verdict, exiting, cancelled, loc, xdeath, handled,
                 lost, faults>>

(* A delivery is received.  The batch consumer rejects poison at once.     *)
Take(c, m) ==
  /\ pc[c] = "select" /\ stream[c] # "closed" /\ loc[m] = c /\ m \notin held[c]
  /\ \/ /\ c \in Singles \/ m \notin Poison
        /\ held' = [held EXCEPT ![c] = @ \cup {m}]
        /\ pc' = [pc EXCEPT ![c] =
                    IF c \in Singles \/ Cardinality(held'[c]) >= BatchSize
                      THEN "handle" ELSE "select"]
        /\ UNCHANGED <<loc, xdeath>>
     \/ /\ c \in Batchers /\ m \in Poison
        /\ loc' = [loc EXCEPT ![m] = DeadLettered]
        /\ xdeath' = [xdeath EXCEPT ![m] = @ \cup {"rejected"}]
        /\ UNCHANGED <<held, pc>>
  /\ UNCHANGED <<connected, stream, verdict, exiting, cancelled, handled, lost, faults>>

(* getRetryCount: the length of x-death.                                   *)
RetryCount(m) == Cardinality(xdeath[m])

(* processDelivery and flush after a handler error.  The broken form       *)
(* acknowledges.                                                           *)
AfterHandlerErrorAck(c) == "ack"
AfterHandlerError(c) ==
  IF c \in Singles /\ \E m \in held[c] : RetryCount(m) >= MaxRetries
    THEN "reject" ELSE "requeue"

(* The broken form requeues what was handled.                              *)
AfterSuccessRequeue == "requeue"
AfterSuccess == "ack"

(* json.Unmarshal and the handler.                                         *)
Handle(c) ==
  /\ pc[c] = "handle"
  /\ pc' = [pc EXCEPT ![c] = "settle"]
  /\ \/ /\ held[c] \cap Poison # {}
        /\ verdict' = [verdict EXCEPT ![c] = "reject"]
        /\ UNCHANGED <<handled, faults>>
     \/ /\ held[c] \cap (Poison \cup Hopeless) = {}
        /\ handled' = [m \in Messages |->
             IF m \in held[c] /\ handled[m] < 2 THEN handled[m] + 1 ELSE handled[m]]
        /\ verdict' = [verdict EXCEPT ![c] = AfterSuccess]
        /\ UNCHANGED faults
     \/ /\ held[c] \cap Poison = {}
        /\ IF held[c] \cap Hopeless # {} THEN UNCHANGED faults ELSE Fault
        /\ verdict' = [verdict EXCEPT ![c] = AfterHandlerError(c)]
        /\ UNCHANGED handled
  /\ UNCHANGED <<connected, stream, held, exiting, cancelled, loc, xdeath, lost>>

Place(v) ==
  CASE v = "ack" -> "done" [] v = "requeue" -> "main" [] v = "reject" -> DeadLettered

(* What is left to settle.  The broken form keeps what was settled.        *)
RemainingAll(c, m) == held[c]
Remaining(c, m) == held[c] \ {m}

(* Ack, Nack or Reject of one delivery; on a closed channel it is an error *)
(* that is only logged.  After its last flush a batch consumer closes the  *)
(* channel.                                                                *)
Settle(c, m) ==
  LET works == stream[c] # "closed"
      settled == IF works THEN [loc EXCEPT ![m] = Place(verdict[c])] ELSE loc
      last == Remaining(c, m) = {}
  IN /\ pc[c] = "settle" /\ m \in held[c]
     /\ held' = [held EXCEPT ![c] = Remaining(c, m)]
     /\ xdeath' = IF works /\ verdict[c] = "reject"
                    THEN [xdeath EXCEPT ![m] = @ \cup {"rejected"}] ELSE xdeath
     /\ loc' = IF last /\ c \in exiting THEN Released(settled, c) ELSE settled
     /\ stream' = IF last /\ c \in exiting THEN [stream EXCEPT ![c] = "closed"] ELSE stream
     /\ pc' = IF last THEN [pc EXCEPT ![c] = IF c \in exiting THEN "returned" ELSE "select"]
                      ELSE pc
     /\ verdict' = IF last THEN [verdict EXCEPT ![c] = "none"] ELSE verdict
     /\ UNCHANGED <<connected, exiting, cancelled, handled, lost, faults>>

-----------------------------------------------------------------------------
(* What a consumer does on its own, and what brings a message on.          *)
Work(c) ==
  \/ StartConsumeLoop(c) \/ WaitForReconnect(c) \/ Leave(c) \/ FlushTimeout(c) \/ Handle(c)
  \/ \E m \in Messages : Settle(c, m)
Advance(m) == Deliver(m) \/ Expire(m) \/ \E c \in Consumers : Take(c, m)

Next ==
  \/ LoseConnection \/ Reconnect
  \/ \E m \in Messages : Advance(m)
  \/ \E c \in Consumers : CancelledByBroker(c) \/ CancelContext(c) \/ Work(c)

Spec == Init /\ [][Next]_vars

(* Consumers run, timers fire, the client reconnects, and queues are first *)
(* in first out: no message is passed over for ever.                       *)
FairSpec ==
  /\ Spec
  /\ WF_vars(Reconnect)
  /\ \A c \in Consumers : WF_vars(Work(c))
  /\ \A m \in Messages : SF_vars(Advance(m))

-----------------------------------------------------------------------------
(* Properties.                                                             *)

(* A message leaves the queues only after a handler has succeeded on it,   *)
(* whatever connections, contexts and the other consumer do: processing is *)
(* at least once.                                                          *)
AckedWasHandled ==
  \A m \in Messages : loc[m] = "done" => handled[m] > 0

(* No delivery is settled twice on a channel, which the broker would       *)
(* answer by closing it: what a consumer has in hand is unacknowledged at  *)
(* the broker as long as its channel is open ("avoiding double-ack         *)
(* issues", consumer.go:270).                                              *)
HeldIsUnacked ==
  \A c \in Consumers : stream[c] # "closed" => held[c] \subseteq Unacked(c)

(* Without a lost connection a handler succeeds on a message at most once, *)
(* also across cancelled consumers and a batch that is flushed on the way  *)
(* out.                                                                    *)
HandledOnce ==
  ~lost => \A m \in Messages : handled[m] <= 1

(* The broker and the consumers implement WorkQueue: a message is settled  *)
(* only by the consumer it is assigned to, is gone only after a handler has*)
(* succeeded on it and never comes back then.  What a consumer still has in*)
(* hand when its channel is gone it can handle but no longer settle, and   *)
(* no message stays assigned to a consumer that has put it down.           *)
Queue == INSTANCE WorkQueue
           WITH Items <- Messages, Workers <- Consumers,
                Ready <- "main", Aside <- DeadLettered, Finished <- "done",
                place <- loc, hand <- held, worked <- {m \in Messages : handled[m] > 0}
ImplementsWorkQueue == Queue!Spec

(* Every message that can be handled is handled in the end, across lost    *)
(* connections, failed handlers and half-full batches, unless the          *)
(* reconnecting consumers are told to stop.                                *)
EveryMessageIsHandled ==
  \A m \in Messages \ (Poison \cup Hopeless) : <>(handled[m] > 0 \/ Reconnecting \subseteq cancelled)

-----------------------------------------------------------------------------
(* What the documentation says and the code does not do.                   *)

(* README.md:171-177: a message on which the handler fails is requeued     *)
(* (x-death is incremented) and, after MaxRetries, is routed to the        *)
(* parking lot.  Nack(requeue) adds no entry to x-death, and a rejected    *)
(* message goes to the retry queue: it is redelivered for ever.            *)
FailingIsParked ==
  \A m \in Hopeless : <>(loc[m] = "parking-lot" \/ Reconnecting \subseteq cancelled)
=============================================================================
