---------------------------- MODULE RabbitClient ----------------------------
(***************************************************************************)
(* rabbitmq/client.go: the two AMQP connections of a Client, the goroutines*)
(* that watch and re-establish them, Close, and the publishers that borrow *)
(* channels from the pool (rabbitmq/producer.go).  A step of the model is  *)
(* the code between two accesses to state another goroutine can touch.     *)
(*                                                                         *)
(* A loop is one execution of connect: Boot is the one NewClient runs,     *)
(* every other one is a reconnectWithBackoff goroutine.  A handler is one  *)
(* handleConnectionClose goroutine, named by the loop that started it and  *)
(* by the connection it was started for.  The names of connections, loops  *)
(* and handlers nobody refers to any more are used again, as a program has *)
(* no way of telling them apart.                                           *)
(***************************************************************************)
EXTENDS ChannelPool, FiniteSets

CONSTANTS Publishers,   \* goroutines that call Producer.PublishMessage
          MaxLoops,     \* bound: reconnect loops (or their handlers) alive at once
          MaxLosses,    \* bound: times connections are lost
          MaxErrors,    \* bound: failed dials, failed channels, exceptions
          AppCloses     \* whether the application calls Client.Close (once)

ASSUME ClientAssumption ==
  /\ MaxLoops \in Nat /\ MaxLosses \in Nat /\ MaxErrors \in Nat
  /\ AppCloses \in BOOLEAN
  /\ IsFiniteSet(Publishers)

Boot  == 0
Loops == 0..MaxLoops
Kinds == {"publisher", "consumer"}
Handlers == Loops \X Kinds

NoChannel == [conn |-> 0, up |-> FALSE]

VARIABLES
  state,          \* Client.state
  closeChan,      \* close(c.closeChan) has been executed
  publisherConn,  \* Client.publisherConn (0 is nil)
  consumerConn,   \* Client.consumerConn (0 is nil)
  pc,             \* where each loop is
  pubConn,        \* the local pubConn of connect (0 before the dial)
  consConn,       \* the local consConn of connect
  filled,         \* the loop counter of fill
  hpc,            \* where each handler is
  hconn,          \* the connection each handler watches
  ppc,            \* where each publisher is
  held,           \* the channel each publisher has borrowed
  kpc,            \* where the call of Close is
  losses,         \* losses of connections so far
  errors          \* other failures so far

clientVars  == <<state, closeChan, publisherConn, consumerConn>>
loopVars    == <<pc, pubConn, consConn, filled>>
handlerVars == <<hpc, hconn>>
pubVars     == <<ppc, held>>
faults      == <<losses, errors>>
vars == <<conn, chans, channels, poolClosed, chanClosed, panicked, state,
          closeChan, publisherConn, consumerConn, pc, pubConn, consConn,
          filled, hpc, hconn, ppc, held, kpc, losses, errors>>

(* Where a loop can be.  InConnect are the places between winning the right*)
(* to connect and storing StateConnected.                                  *)
InConnect == {"backoff", "connect", "dialPub", "dialCons", "assign",
              "drain", "fill", "send", "connected"}
LoopPC == InConnect \cup {"idle", "setupPub", "setupCons", "exited", "failed"}

(* Where a handler can be.                                                 *)
HandlerPC == {"none", "start", "wait", "drain", "trigger"}

(* connect has returned nil to NewClient; any other loop just ends.        *)
Ended(l) == IF l = Boot THEN "exited" ELSE "idle"

ClientTypeOK ==
  /\ state \in {"Disconnected", "Connecting", "Connected", "Closing"}
  /\ closeChan \in BOOLEAN
  /\ publisherConn \in 0..MaxConns
  /\ consumerConn \in 0..MaxConns
  /\ kpc \in {"idle", "closeChan", "poolFlag", "poolChan", "poolDrain", "conns", "done"}
  /\ losses \in 0..MaxLosses
  /\ errors \in 0..MaxErrors

LoopTypeOK ==
  /\ pc \in [Loops -> LoopPC]
  /\ pubConn \in [Loops -> 0..MaxConns]
  /\ consConn \in [Loops -> 0..MaxConns]
  /\ filled \in [Loops -> Nat]

HandlerTypeOK ==
  /\ hpc \in [Handlers -> HandlerPC]
  /\ hconn \in [Handlers -> 0..MaxConns]

PublisherTypeOK ==
  /\ ppc \in [Publishers -> {"idle", "retry", "get", "recv", "hold", "ret", "put"}]
  /\ held \in [Publishers -> Channel \cup {NoChannel}]

(* Every variable has its type, and the pool never holds more items than   *)
(* the capacity of the Go channel it was made with.                        *)
TypeOK ==
  PoolTypeOK /\ ClientTypeOK /\ LoopTypeOK /\ HandlerTypeOK /\ PublisherTypeOK

(* NewClient up to connect's first dial.  The client is not shared before  *)
(* connect returns, so the stores of StateDisconnected and StateConnecting *)
(* are one.                                                                *)
Init ==
  /\ PoolInit
  /\ state = "Connecting"
  /\ closeChan = FALSE
  /\ publisherConn = 0 /\ consumerConn = 0
  /\ pc = [l \in Loops |-> IF l = Boot THEN "dialPub" ELSE "idle"]
  /\ pubConn = [l \in Loops |-> 0]
  /\ consConn = [l \in Loops |-> 0]
  /\ filled = [l \in Loops |-> 0]
  /\ hpc = [h \in Handlers |-> "none"]
  /\ hconn = [h \in Handlers |-> 0]
  /\ ppc = [p \in Publishers |-> "idle"]
  /\ held = [p \in Publishers |-> NoChannel]
  /\ kpc = "idle"
  /\ losses = 0 /\ errors = 0

(* NewClient has returned a client to the application.                     *)
Ready == pc[Boot] = "exited"

(* Close has been called.                                                  *)
Closing == kpc # "idle"

Failure == errors < MaxErrors /\ errors' = errors + 1 /\ UNCHANGED losses

-----------------------------------------------------------------------------
(* Connections that close, by whatever cause, close their channels and wake*)
(* the handlers parked on their NotifyClose channels.                      *)
CloseConnections(C) ==
  /\ conn' = [c \in Conns |-> IF c \in C THEN "closed" ELSE conn[c]]
  /\ chans' = [c \in Conns |-> IF c \in C THEN 0 ELSE chans[c]]
  /\ hpc' = [h \in Handlers |->
               IF hpc[h] = "wait" /\ hconn[h] \in C THEN "drain" ELSE hpc[h]]

(* The broker or the network drops some of the open connections.           *)
LoseConnections ==
  \E C \in SUBSET {c \in Conns : conn[c] = "open"} :
    /\ C # {}
    /\ losses < MaxLosses /\ losses' = losses + 1
    /\ CloseConnections(C)
    /\ UNCHANGED <<poolVars, panicked, clientVars, loopVars, hconn, pubVars,
                   kpc, errors>>

-----------------------------------------------------------------------------
(* connect, run by loop l.                                                 *)

(* c.state.Store(StateConnecting)                                          *)
ConnectStart(l) ==
  /\ pc[l] = "connect"
  /\ state' = "Connecting"
  /\ pc' = [pc EXCEPT ![l] = "dialPub"]
  /\ UNCHANGED <<poolVars, amqpVars, panicked, closeChan, publisherConn,
                 consumerConn, pubConn, consConn, filled, handlerVars,
                 pubVars, kpc, faults>>

(* A connection that is closed and that nobody refers to.                  *)
Unused(c) ==
  /\ conn[c] = "closed"
  /\ c \notin {publisherConn, consumerConn}
  /\ \A l \in Loops : c # pubConn[l] /\ c # consConn[l]
  /\ \A h \in Handlers : hconn[h] # c
  /\ \A i \in DOMAIN channels : channels[i].conn # c
  /\ \A p \in Publishers : held[p].conn # c

(* amqp.DialConfig succeeds with a fresh connection c.                     *)
Dialled(c) ==
  /\ Unused(c) /\ \A d \in 1..(c - 1) : ~Unused(d)
  /\ conn' = [conn EXCEPT ![c] = "open"]

DialPublisher(l) ==
  /\ pc[l] = "dialPub"
  /\ \E c \in Conns :
       /\ Dialled(c)
       /\ pubConn' = [pubConn EXCEPT ![l] = c]
  /\ pc' = [pc EXCEPT ![l] = "dialCons"]
  /\ UNCHANGED <<poolVars, chans, panicked, clientVars, consConn, filled,
                 handlerVars, pubVars, kpc, faults>>

DialConsumer(l) ==
  /\ pc[l] = "dialCons"
  /\ \E c \in Conns :
       /\ Dialled(c)
       /\ consConn' = [consConn EXCEPT ![l] = c]
  /\ pc' = [pc EXCEPT ![l] = "assign"]
  /\ UNCHANGED <<poolVars, chans, panicked, clientVars, pubConn, filled,
                 handlerVars, pubVars, kpc, faults>>

(* What follows an error of connect: NewClient returns it, the reconnect   *)
(* loop goes round again.  The broken form gives up.                       *)
AfterErrorGivesUp(l) == IF l = Boot THEN "failed" ELSE "idle"
AfterError(l) == IF l = Boot THEN "failed" ELSE "backoff"

(* connect returns an error after closing the connections in C.            *)
ConnectFails(l, C) ==
  /\ CloseConnections(C)
  /\ pc' = [pc EXCEPT ![l] = AfterError(l)]
  /\ pubConn' = [pubConn EXCEPT ![l] = 0]
  /\ consConn' = [consConn EXCEPT ![l] = 0]
  /\ filled' = [filled EXCEPT ![l] = 0]
  /\ UNCHANGED <<poolVars, panicked, clientVars, hconn, pubVars, kpc>>

DialPublisherFails(l) ==
  /\ pc[l] = "dialPub"
  /\ Failure
  /\ ConnectFails(l, {})

DialConsumerFails(l) ==
  /\ pc[l] = "dialCons"
  /\ Failure
  /\ ConnectFails(l, {pubConn[l]})

(* The pointers are assigned under c.mu; the connections they held are not *)
(* closed.                                                                 *)
AssignConnections(l) ==
  /\ pc[l] = "assign"
  /\ publisherConn' = pubConn[l]
  /\ consumerConn' = consConn[l]
  /\ pc' = [pc EXCEPT ![l] = "drain"]
  /\ UNCHANGED <<poolVars, amqpVars, panicked, state, closeChan, pubConn,
                 consConn, filled, handlerVars, pubVars, kpc, faults>>

ConnectDrains(l) ==
  /\ pc[l] = "drain"
  /\ TakeAndClose
  /\ UNCHANGED <<panicked, clientVars, loopVars, handlerVars, pubVars, kpc,
                 faults>>

ConnectDrained(l) ==
  /\ pc[l] = "drain"
  /\ DrainReturns
  /\ pc' = [pc EXCEPT ![l] = "fill"]
  /\ UNCHANGED <<poolVars, amqpVars, panicked, clientVars, pubConn, consConn,
                 filled, handlerVars, pubVars, kpc, faults>>

(* fill opens its next channel (and puts it in confirm mode).              *)
FillOpens(l) ==
  /\ pc[l] = "fill"
  /\ FillMore(filled[l])
  /\ OpenChannel(pubConn[l])
  /\ pc' = [pc EXCEPT ![l] = "send"]
  /\ UNCHANGED <<poolVars, conn, panicked, clientVars, pubConn, consConn,
                 filled, handlerVars, pubVars, kpc, faults>>

(* conn.Channel() or ch.Confirm fails: because the connection is gone, or  *)
(* for a reason of the broker.                                             *)
FillFails(l) ==
  /\ pc[l] = "fill"
  /\ FillMore(filled[l])
  /\ \/ conn[pubConn[l]] # "open" /\ UNCHANGED faults
     \/ conn[pubConn[l]] = "open" /\ Failure
  /\ ConnectFails(l, {pubConn[l], consConn[l]})

(* The blocking send of fill: it waits while the pool is full and panics   *)
(* when the Go channel is closed.                                          *)
FillSends(l) ==
  /\ pc[l] = "send"
  /\ \/ /\ chanClosed
        /\ panicked' = TRUE
        /\ UNCHANGED <<channels, pc, filled>>
     \/ /\ ~chanClosed /\ HasRoom
        /\ Put([conn |-> pubConn[l], up |-> TRUE])
        /\ filled' = [filled EXCEPT ![l] = @ + 1]
        /\ pc' = [pc EXCEPT ![l] = "fill"]
        /\ UNCHANGED panicked
  /\ UNCHANGED <<poolClosed, chanClosed, amqpVars, clientVars, pubConn,
                 consConn, handlerVars, pubVars, kpc, faults>>

FillReturns(l) ==
  /\ pc[l] = "fill"
  /\ ~FillMore(filled[l])
  /\ pc' = [pc EXCEPT ![l] = "connected"]
  /\ pubConn' = [pubConn EXCEPT ![l] = 0]
  /\ consConn' = [consConn EXCEPT ![l] = 0]
  /\ filled' = [filled EXCEPT ![l] = 0]
  /\ UNCHANGED <<poolVars, amqpVars, panicked, clientVars, handlerVars,
                 pubVars, kpc, faults>>

(* c.state.Store(StateConnected)                                           *)
SetConnected(l) ==
  /\ pc[l] = "connected"
  /\ state' = "Connected"
  /\ pc' = [pc EXCEPT ![l] = "setupPub"]
  /\ UNCHANGED <<poolVars, amqpVars, panicked, closeChan, publisherConn,
                 consumerConn, pubConn, consConn, filled, handlerVars,
                 pubVars, kpc, faults>>

(* setupNotifyHandlers starts one handler per connection.  It reads the    *)
(* pointers without c.mu: after the store of StateConnected another loop   *)
(* may already have replaced them.                                         *)
StartHandler(h, c) ==
  /\ hpc' = [hpc EXCEPT ![h] = "start"]
  /\ hconn' = [hconn EXCEPT ![h] = c]

SetupPublisherHandler(l) ==
  /\ pc[l] = "setupPub"
  /\ StartHandler(<<l, "publisher">>, publisherConn)
  /\ pc' = [pc EXCEPT ![l] = "setupCons"]
  /\ UNCHANGED <<poolVars, amqpVars, panicked, clientVars, pubConn, consConn,
                 filled, pubVars, kpc, faults>>

(* connect returns nil.  The reconnect loop then runs restoreTopology,     *)
(* which touches only the topology cache, and ends.                        *)
SetupConsumerHandler(l) ==
  /\ pc[l] = "setupCons"
  /\ StartHandler(<<l, "consumer">>, consumerConn)
  /\ pc' = [pc EXCEPT ![l] = Ended(l)]
  /\ UNCHANGED <<poolVars, amqpVars, panicked, clientVars, pubConn, consConn,
                 filled, pubVars, kpc, faults>>

-----------------------------------------------------------------------------
(* reconnectWithBackoff, run by loop l.                                    *)

(* <-c.closeChan                                                           *)
BackoffClosed(l) ==
  /\ pc[l] = "backoff"
  /\ closeChan
  /\ state' = "Disconnected"
  /\ pc' = [pc EXCEPT ![l] = "idle"]
  /\ UNCHANGED <<poolVars, amqpVars, panicked, closeChan, publisherConn,
                 consumerConn, pubConn, consConn, filled, handlerVars,
                 pubVars, kpc, faults>>

(* <-time.After(backoff), and the test for StateClosing.                   *)
BackoffElapsed(l) ==
  /\ pc[l] = "backoff"
  /\ \/ /\ state = "Closing"
        /\ state' = "Disconnected"
        /\ pc' = [pc EXCEPT ![l] = "idle"]
     \/ /\ state # "Closing"
        /\ pc' = [pc EXCEPT ![l] = "connect"]
        /\ UNCHANGED state
  /\ UNCHANGED <<poolVars, amqpVars, panicked, closeChan, publisherConn,
                 consumerConn, pubConn, consConn, filled, handlerVars,
                 pubVars, kpc, faults>>

-----------------------------------------------------------------------------
(* handleConnectionClose, run by handler h.                                *)

(* The goroutines in H return.                                             *)
EndHandlers(H) ==
  /\ hpc' = [h \in Handlers |-> IF h \in H THEN "none" ELSE hpc[h]]
  /\ hconn' = [h \in Handlers |-> IF h \in H THEN 0 ELSE hconn[h]]

(* The case of the select on a notifyClose channel that the library closed *)
(* at registration because the connection was already gone (!ok).  The     *)
(* broken form only reacts to an error value.                              *)
OnAlreadyClosedIgnored(h) == EndHandlers({h})
OnAlreadyClosed(h) == hpc' = [hpc EXCEPT ![h] = "drain"] /\ UNCHANGED hconn

(* NotifyClose and the first look at the select: when both cases are ready *)
(* either is taken, when none is the goroutine parks.  A parked goroutine  *)
(* is woken by whichever event comes first (CloseConnections, CloseSignal).*)
HandlerSelects(h) ==
  /\ hpc[h] = "start"
  /\ \/ /\ closeChan
        /\ EndHandlers({h})
     \/ /\ conn[hconn[h]] # "open"
        /\ OnAlreadyClosed(h)
     \/ /\ ~closeChan /\ conn[hconn[h]] = "open"
        /\ hpc' = [hpc EXCEPT ![h] = "wait"] /\ UNCHANGED hconn
  /\ UNCHANGED <<poolVars, amqpVars, panicked, clientVars, loopVars, pubVars,
                 kpc, faults>>

HandlerDrains(h) ==
  /\ hpc[h] = "drain"
  /\ TakeAndClose
  /\ UNCHANGED <<panicked, clientVars, loopVars, handlerVars, pubVars, kpc,
                 faults>>

HandlerDrained(h) ==
  /\ hpc[h] = "drain"
  /\ DrainReturns
  /\ hpc' = [hpc EXCEPT ![h] = "trigger"]
  /\ UNCHANGED <<poolVars, amqpVars, panicked, clientVars, loopVars, hconn,
                 pubVars, kpc, faults>>

(* triggerReconnect: the load and the compare-and-swap of its loop succeed *)
(* or fail as one.  The broken form does not look at the state.            *)
MayReconnectAlways == TRUE
MayReconnect == state \in {"Connected", "Disconnected"}

(* A loop name whose goroutine and handlers have all ended.                *)
FreeLoop(l) ==
  /\ l # Boot /\ pc[l] = "idle"
  /\ \A k \in Kinds : hpc[<<l, k>>] = "none"

TriggerReconnect(h) ==
  /\ hpc[h] = "trigger"
  /\ EndHandlers({h})
  /\ \/ /\ MayReconnect
        /\ state' = "Connecting"
        /\ \E l \in Loops :
             /\ FreeLoop(l) /\ \A m \in 0..(l - 1) : ~FreeLoop(m)
             /\ pc' = [pc EXCEPT ![l] = "backoff"]
     \/ /\ ~MayReconnect
        /\ UNCHANGED <<state, pc>>
  /\ UNCHANGED <<poolVars, amqpVars, panicked, closeChan, publisherConn,
                 consumerConn, pubConn, consConn, filled, pubVars, kpc, faults>>

-----------------------------------------------------------------------------
(* Close, called once.                                                     *)

CloseStart ==
  /\ AppCloses /\ Ready /\ kpc = "idle"
  /\ state' = "Closing"
  /\ kpc' = "closeChan"
  /\ UNCHANGED <<poolVars, amqpVars, panicked, closeChan, publisherConn,
                 consumerConn, loopVars, handlerVars, pubVars, faults>>

(* close(c.closeChan) wakes every parked handler.                          *)
CloseSignal ==
  /\ kpc = "closeChan"
  /\ closeChan' = TRUE
  /\ EndHandlers({h \in Handlers : hpc[h] = "wait"})
  /\ kpc' = "poolFlag"
  /\ UNCHANGED <<poolVars, amqpVars, panicked, state, publisherConn,
                 consumerConn, loopVars, pubVars, faults>>

(* channelPool.close: the flag, the Go channel, then the items left in it. *)
ClosePoolFlag ==
  /\ kpc = "poolFlag"
  /\ poolClosed' = TRUE
  /\ kpc' = "poolChan"
  /\ UNCHANGED <<channels, chanClosed, amqpVars, panicked, clientVars,
                 loopVars, handlerVars, pubVars, faults>>

ClosePoolChannel ==
  /\ kpc = "poolChan"
  /\ CloseChannels
  /\ kpc' = "poolDrain"
  /\ UNCHANGED <<channels, poolClosed, amqpVars, panicked, clientVars,
                 loopVars, handlerVars, pubVars, faults>>

ClosePoolItems ==
  /\ kpc = "poolDrain"
  /\ \/ TakeAndClose /\ UNCHANGED kpc
     \/ /\ channels = <<>>
        /\ kpc' = "conns"
        /\ UNCHANGED <<poolVars, amqpVars>>
  /\ UNCHANGED <<panicked, clientVars, loopVars, handlerVars, pubVars,
                 faults>>

(* Both current connections are closed under c.mu.                         *)
CloseCurrent ==
  /\ kpc = "conns"
  /\ CloseConnections({publisherConn, consumerConn})
  /\ kpc' = "done"
  /\ UNCHANGED <<poolVars, panicked, clientVars, loopVars, hconn, pubVars,
                 faults>>

-----------------------------------------------------------------------------
(* PublishMessage, run by publisher p.                                     *)

PublisherAt(p, from, to) == ppc[p] = from /\ ppc' = [ppc EXCEPT ![p] = to]

NonPublisherVars ==
  <<clientVars, loopVars, handlerVars, kpc>>

(* GetPublisherChannel refuses unless the state is StateConnected; the     *)
(* first refusal is followed by one wait and one retry.                    *)
PublishStart(p) ==
  /\ Ready
  /\ PublisherAt(p, "idle", IF state = "Connected" THEN "get" ELSE "retry")
  /\ UNCHANGED <<poolVars, amqpVars, panicked, held, NonPublisherVars, faults>>

PublishRetry(p) ==
  /\ PublisherAt(p, "retry", IF state = "Connected" THEN "get" ELSE "idle")
  /\ UNCHANGED <<poolVars, amqpVars, panicked, held, NonPublisherVars, faults>>

(* ctx.Done() while waiting for the retry or for a channel.                *)
PublishCancelled(p) ==
  /\ PublisherAt(p, "retry", "idle") \/ PublisherAt(p, "recv", "idle")
  /\ UNCHANGED <<poolVars, amqpVars, panicked, held, NonPublisherVars, faults>>

(* get looks at the closed flag, then receives.                            *)
GetChecks(p) ==
  /\ PublisherAt(p, "get", IF poolClosed THEN "idle" ELSE "recv")
  /\ UNCHANGED <<poolVars, amqpVars, panicked, held, NonPublisherVars, faults>>

(* A closed channel taken out of the pool is dropped and not replaced; so  *)
(* is the nil received from a closed Go channel.                           *)
GetReceives(p) ==
  /\ \/ /\ channels # <<>> /\ ~IsClosed(Head(channels))
        /\ PublisherAt(p, "recv", "hold")
        /\ held' = [held EXCEPT ![p] = Head(channels)]
        /\ channels' = Tail(channels)
     \/ /\ channels # <<>> /\ IsClosed(Head(channels))
        /\ PublisherAt(p, "recv", "idle")
        /\ channels' = Tail(channels)
        /\ UNCHANGED held
     \/ /\ channels = <<>> /\ chanClosed
        /\ PublisherAt(p, "recv", "idle")
        /\ UNCHANGED <<channels, held>>
  /\ UNCHANGED <<poolClosed, chanClosed, amqpVars, panicked,
                 NonPublisherVars, faults>>

(* The publish itself: acknowledged, refused or timed out, the channel is  *)
(* returned.  The broker may answer it with a channel exception.           *)
Publish(p) ==
  /\ PublisherAt(p, "hold", "ret")
  /\ \/ UNCHANGED <<held, chans, faults>>
     \/ /\ ~IsClosed(held[p]) /\ Failure
        /\ CloseChannel(held[p])
        /\ held' = [held EXCEPT ![p].up = FALSE]
  /\ UNCHANGED <<poolVars, conn, panicked, NonPublisherVars>>

(* returnCh discards a closed channel, closes one that comes back to a     *)
(* closed pool, and otherwise goes on to the select.                       *)
ReturnChecks(p) ==
  /\ \/ /\ PublisherAt(p, "ret", "idle")
        /\ IsClosed(held[p])
        /\ held' = [held EXCEPT ![p] = NoChannel]
        /\ UNCHANGED chans
     \/ /\ PublisherAt(p, "ret", "idle")
        /\ ~IsClosed(held[p]) /\ poolClosed
        /\ CloseChannel(held[p])
        /\ held' = [held EXCEPT ![p] = NoChannel]
     \/ /\ PublisherAt(p, "ret", "put")
        /\ ~IsClosed(held[p]) /\ ~poolClosed
        /\ UNCHANGED <<held, chans>>
  /\ UNCHANGED <<poolVars, conn, panicked, NonPublisherVars, faults>>

ReturnSelects(p) ==
  /\ PublisherAt(p, "put", "idle")
  /\ ReturnSelect(held[p])
  /\ held' = [held EXCEPT ![p] = NoChannel]
  /\ UNCHANGED <<poolClosed, chanClosed, conn, NonPublisherVars, faults>>

(* An asynchronous channel exception reaches a channel in the pool.        *)
PooledChannelDies ==
  \E i \in DOMAIN channels :
    /\ ~IsClosed(channels[i])
    /\ Failure
    /\ CloseChannel(channels[i])
    /\ channels' = [channels EXCEPT ![i].up = FALSE]
    /\ UNCHANGED <<poolClosed, chanClosed, conn, panicked, pubVars,
                   NonPublisherVars>>

-----------------------------------------------------------------------------
LoopStep(l) ==
  \/ ConnectStart(l) \/ DialPublisher(l) \/ DialConsumer(l)
  \/ DialPublisherFails(l) \/ DialConsumerFails(l) \/ AssignConnections(l)
  \/ ConnectDrains(l) \/ ConnectDrained(l)
  \/ FillOpens(l) \/ FillFails(l) \/ FillSends(l) \/ FillReturns(l)
  \/ SetConnected(l) \/ SetupPublisherHandler(l) \/ SetupConsumerHandler(l)
  \/ BackoffClosed(l) \/ BackoffElapsed(l)

HandlerStep(h) ==
  \/ HandlerSelects(h) \/ HandlerDrains(h) \/ HandlerDrained(h)
  \/ TriggerReconnect(h)

CloseStep ==
  \/ CloseSignal \/ ClosePoolFlag \/ ClosePoolChannel \/ ClosePoolItems
  \/ CloseCurrent

(* The steps of a started publish that do not wait for the broker.         *)
PublishStep(p) ==
  \/ PublishRetry(p) \/ GetChecks(p) \/ GetReceives(p)
  \/ ReturnChecks(p) \/ ReturnSelects(p)

Next ==
  /\ ~panicked
  /\ \/ \E l \in Loops : LoopStep(l)
     \/ \E h \in Handlers : HandlerStep(h)
     \/ CloseStart
     \/ CloseStep
     \/ \E p \in Publishers :
          \/ PublishStart(p) \/ PublishCancelled(p)
          \/ Publish(p) \/ PublishStep(p)
     \/ LoseConnections
     \/ PooledChannelDies

Spec == Init /\ [][Next]_vars

(* The Go scheduler runs every goroutine that can take a step.  Nothing is *)
(* assumed of the application (it may never publish, cancel or close), of  *)
(* the time the broker takes to confirm a publish, nor of failures, which  *)
(* the bounds make finite: from some point on the broker is reachable.     *)
FairSpec ==
  /\ Spec
  /\ \A l \in Loops : WF_vars(~panicked /\ LoopStep(l))
  /\ \A h \in Handlers : WF_vars(~panicked /\ HandlerStep(h))
  /\ \A p \in Publishers : WF_vars(~panicked /\ PublishStep(p))
  /\ WF_vars(~panicked /\ CloseStep)

-----------------------------------------------------------------------------
(* Properties.                                                             *)

(* At most one goroutine at a time runs the connecting part of connect:    *)
(* the compare-and-swap of triggerReconnect lets one loop in, and nobody   *)
(* stores a state that lets in a second one before the first has stored    *)
(* StateConnected or ended.  Two at once would fill the pool twice over.   *)
SingleConnector ==
  \A l, m \in Loops : pc[l] \in InConnect /\ pc[m] \in InConnect => l = m

Current(k) == IF k = "publisher" THEN publisherConn ELSE consumerConn

(* A lost connection is never overlooked: while the client says it is      *)
(* connected and Close has not been called, a current connection that is   *)
(* gone has a goroutine on its way to triggerReconnect: one that is still  *)
(* to register for the close event, or one that has been woken by it.      *)
(* setupNotifyHandlers running after the store of StateConnected, and the  *)
(* test of !ok in handleConnectionClose, are what this rests on.           *)
LossIsNoticed ==
  (state = "Connected" /\ ~Closing) =>
    \A k \in Kinds :
      conn[Current(k)] # "open" =>
        \E l \in Loops :
          \/ pc[l] \in {"setupPub", "setupCons"}
          \/ /\ hconn[<<l, k>>] = Current(k)
             /\ hpc[<<l, k>>] \in {"start", "drain", "trigger"}

(* Open channels of connection c that somebody still references.           *)
Referenced(c) ==
    Cardinality({i \in DOMAIN channels :
                   channels[i].conn = c /\ ~IsClosed(channels[i])})
  + Cardinality({p \in Publishers : held[p].conn = c /\ ~IsClosed(held[p])})
  + Cardinality({l \in Loops : pc[l] = "send" /\ pubConn[l] = c /\ conn[c] = "open"})

(* No channel is lost while open: every channel open on a connection is in *)
(* the pool, borrowed, or being put into the pool by fill.  A path of get, *)
(* returnCh, drain or close that forgot a channel without closing it would *)
(* use up the connection's channel numbers.                                *)
NoChannelLeak == ~panicked => \A c \in Conns : chans[c] = Referenced(c)

(* No connection ever carries more publisher channels than the pool size.  *)
ChannelsBounded == \A c \in Conns : chans[c] <= PoolSize

(* Once channelPool.close has emptied the pool it stays empty: no return   *)
(* or fill that was under way puts a channel into a pool nobody drains.    *)
ClosedPoolStaysEmpty == kpc \in {"conns", "done"} => channels = <<>>

(* The blocking send of fill waits for room in the pool.                   *)
FillBlocked == \E l \in Loops : pc[l] = "send" /\ Len(channels) = PoolSize

(* Auto-reconnection (client.go:79): the client leaves the state Connecting*)
(* again and again, unless NewClient returned an error.  It holds while    *)
(* nothing is being published.                                             *)
AutoReconnects ==
  \/ <>[](pc[Boot] = "failed")
  \/ []<>(state # "Connecting")

(* With publishing traffic there is exactly one way in which reconnection  *)
(* can hang: fill is stuck for good on a pool that publishers have filled  *)
(* with channels of an earlier connection, which connect left open.        *)
ReconnectsOrFillBlocks == AutoReconnects \/ <>[]FillBlocked

(* fill never waits for itself: while its send blocks, the full pool holds *)
(* a channel of another connection than the one fill opens channels on.    *)
(* drain ran before it, so that channel came back from a publisher after   *)
(* the drain; without such a publisher a reconnect cannot hang in fill.    *)
FillWaitsForOthers ==
  \A l \in Loops :
    ~panicked /\ pc[l] = "send" /\ ~HasRoom =>
      \E i \in DOMAIN channels : channels[i].conn # pubConn[l]
=============================================================================
