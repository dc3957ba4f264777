------------------------- MODULE RabbitClientProofs -------------------------
(***************************************************************************)
(* Theorems about RabbitClient for any number of publishers, any pool size *)
(* and any bounds: the type invariant, SingleConnector and LossIsNoticed,  *)
(* from one inductive invariant.  First the types: lemmas about the steps  *)
(* of the pool, and the proof that every step of the client keeps TypeInv; *)
(* then who connects, and who watches the connections.                     *)
(***************************************************************************)
EXTENDS RabbitClient, TLAPS

(* connect has dialled the connections its later steps use.                *)
LoopTypes ==
  /\ LoopTypeOK
  /\ \A l \in Loops :
       /\ pc[l] \in {"dialCons", "assign", "drain", "fill", "send"} =>
            pubConn[l] \in Conns
       /\ pc[l] \in {"assign", "drain", "fill", "send"} => consConn[l] \in Conns

(* Whoever is past get holds a channel.                                    *)
PublisherTypes ==
  /\ PublisherTypeOK
  /\ \A p \in Publishers : ppc[p] \in {"hold", "ret", "put"} => held[p] \in Channel

TypeInv ==
  PoolTypeOK /\ ClientTypeOK /\ LoopTypes /\ HandlerTypeOK /\ PublisherTypes

-----------------------------------------------------------------------------
(* The steps of the pool.                                                  *)

(* Closing a channel keeps one count per connection.                       *)
LEMMA CloseChannelType ==
  ASSUME PoolTypeOK, NEW ch \in Channel, CloseChannel(ch)
  PROVE  chans' \in [Conns -> Int]
BY DEF PoolTypeOK, CloseChannel, Channel

(* Opening a channel keeps one count per connection.                       *)
LEMMA OpenChannelType ==
  ASSUME PoolTypeOK, NEW c \in Conns, OpenChannel(c)
  PROVE  chans' \in [Conns -> Int]
BY DEF PoolTypeOK, OpenChannel

(* The item a receive returns is a channel, and what stays is a pool.      *)
LEMMA ReceiveType ==
  ASSUME PoolTypeOK, channels # <<>>
  PROVE  /\ Head(channels) \in Channel
         /\ Tail(channels) \in Seq(Channel)
         /\ Len(Tail(channels)) <= PoolSize
<1>1. channels \in Seq(Channel) /\ Len(channels) <= PoolSize /\ PoolSize \in Nat
  BY PoolAssumption, Zenon DEF PoolTypeOK
<1> HIDE DEF Channel
<1>2. Head(channels) \in Channel /\ Tail(channels) \in Seq(Channel)
  BY <1>1
<1>3. Len(Tail(channels)) = Len(channels) - 1 /\ Len(channels) \in Nat
  BY <1>1
<1> QED
  BY <1>1, <1>2, <1>3

(* The receive of drain and close leaves a pool.                           *)
LEMMA TakeAndCloseType ==
  ASSUME PoolTypeOK, TakeAndClose, UNCHANGED panicked
  PROVE  PoolTypeOK'
<1>1. chans' \in [Conns -> Int]
  BY ReceiveType, CloseChannelType, Zenon DEF TakeAndClose
<1>2. channels' \in Seq(Channel) /\ Len(channels') <= PoolSize
  BY ReceiveType, Zenon DEF TakeAndClose
<1> QED
  BY <1>1, <1>2, Zenon DEF PoolTypeOK, TakeAndClose, Conns, Channel

(* A send that waits for room never exceeds the capacity.                  *)
LEMMA PutType ==
  ASSUME PoolTypeOK, NEW ch \in Channel, HasRoom, Put(ch)
  PROVE  channels' \in Seq(Channel) /\ Len(channels') <= PoolSize
<1>1. channels \in Seq(Channel) /\ PoolSize \in Nat
  BY PoolAssumption, Zenon DEF PoolTypeOK
<1>2. channels' \in Seq(Channel) /\ Len(channels') = Len(channels) + 1
  BY <1>1 DEF Put
<1> QED
  BY <1>1, <1>2 DEF HasRoom

(* Each outcome of the select of returnCh leaves a pool.                   *)
LEMMA ReturnSelectType ==
  ASSUME PoolTypeOK, NEW ch \in Channel, ReturnSelect(ch),
         UNCHANGED <<conn, poolClosed, chanClosed>>
  PROVE  PoolTypeOK'
<1>1. chans' \in [Conns -> Int]
  BY CloseChannelType, Zenon DEF ReturnSelect, Discard, PoolTypeOK
<1>2. channels' \in Seq(Channel) /\ Len(channels') <= PoolSize
  BY PutType, Zenon DEF ReturnSelect, PoolTypeOK
<1> QED
  BY <1>1, <1>2, Zenon DEF PoolTypeOK, ReturnSelect, Conns, Channel

-----------------------------------------------------------------------------
(* Type correctness.                                                       *)

(* What an action leaves alone keeps its type: the pool,                   *)
LEMMA PoolFrame ==
  ASSUME PoolTypeOK, UNCHANGED poolVars, UNCHANGED amqpVars, UNCHANGED panicked
  PROVE  PoolTypeOK'
BY Zenon DEF PoolTypeOK, poolVars, amqpVars

(* The fields of Client and the progress of Close, left alone.             *)
LEMMA ClientFrame ==
  ASSUME ClientTypeOK, UNCHANGED clientVars, UNCHANGED kpc, UNCHANGED faults
  PROVE  ClientTypeOK'
BY Zenon DEF ClientTypeOK, clientVars, faults

(* The loops, left alone.                                                  *)
LEMMA LoopFrame ==
  ASSUME LoopTypes, UNCHANGED loopVars
  PROVE  LoopTypes'
BY Zenon DEF LoopTypes, LoopTypeOK, loopVars

(* The handlers, left alone.                                               *)
LEMMA HandlerFrame ==
  ASSUME HandlerTypeOK, UNCHANGED handlerVars
  PROVE  HandlerTypeOK'
BY Zenon DEF HandlerTypeOK, handlerVars

(* The publishers, left alone.                                             *)
LEMMA PublisherFrame ==
  ASSUME PublisherTypes, UNCHANGED pubVars
  PROVE  PublisherTypes'
BY Zenon DEF PublisherTypes, PublisherTypeOK, pubVars

(* Connections that close, and the handlers they wake.                     *)
LEMMA CloseConnectionsType ==
  ASSUME PoolTypeOK, HandlerTypeOK, NEW C, CloseConnections(C)
  PROVE  /\ UNCHANGED poolVars /\ UNCHANGED panicked => PoolTypeOK'
         /\ UNCHANGED hconn => HandlerTypeOK'
BY DEF PoolTypeOK, HandlerTypeOK, HandlerPC, CloseConnections, poolVars

(* Handlers that return.                                                   *)
LEMMA EndHandlersType ==
  ASSUME HandlerTypeOK, NEW H, EndHandlers(H)
  PROVE  HandlerTypeOK'
BY PoolAssumption DEF HandlerTypeOK, HandlerPC, EndHandlers

(* A loop moves on without touching the locals of connect.                 *)
LEMMA LoopMoves ==
  ASSUME LoopTypes, NEW l \in Loops, NEW to \in LoopPC,
         pc' = [pc EXCEPT ![l] = to], UNCHANGED <<pubConn, consConn, filled>>,
         to \in {"dialCons", "assign", "drain", "fill", "send"} =>
           pubConn[l] \in Conns,
         to \in {"assign", "drain", "fill", "send"} => consConn[l] \in Conns
  PROVE  LoopTypes'
<1>1. LoopTypeOK'
  BY Zenon DEF LoopTypes, LoopTypeOK
<1>2. \A m \in Loops : pc'[m] = IF m = l THEN to ELSE pc[m]
  BY Zenon DEF LoopTypes, LoopTypeOK
<1> QED
  BY <1>1, <1>2, Zenon DEF LoopTypes

(* connect is over, and its locals with it.                                *)
LEMMA LoopEnds ==
  ASSUME LoopTypes, NEW l \in Loops, NEW to \in {"failed", "backoff", "connected"},
         pc' = [pc EXCEPT ![l] = to], pubConn' = [pubConn EXCEPT ![l] = 0],
         consConn' = [consConn EXCEPT ![l] = 0], filled' = [filled EXCEPT ![l] = 0]
  PROVE  LoopTypes'
<1>1. LoopTypeOK'
  BY PoolAssumption DEF LoopTypes, LoopTypeOK, LoopPC, InConnect
<1>2. \A m \in Loops : /\ pc'[m] = IF m = l THEN to ELSE pc[m]
                       /\ m # l => pubConn'[m] = pubConn[m] /\ consConn'[m] = consConn[m]
  BY Zenon DEF LoopTypes, LoopTypeOK
<1> QED
  BY <1>1, <1>2, Zenon DEF LoopTypes

(* The error paths of connect.                                             *)
LEMMA LoopFails ==
  ASSUME LoopTypes, NEW l \in Loops, NEW C, ConnectFails(l, C)
  PROVE  LoopTypes'
BY LoopEnds, Zenon DEF ConnectFails, AfterError

(* A publisher moves on with what it holds.                                *)
LEMMA PublisherMoves ==
  ASSUME PublisherTypes, NEW p \in Publishers, NEW from,
         NEW to \in {"idle", "retry", "get", "recv", "hold", "ret", "put"},
         PublisherAt(p, from, to), UNCHANGED held,
         to \in {"hold", "ret", "put"} => held[p] \in Channel
  PROVE  PublisherTypes'
BY Zenon DEF PublisherTypes, PublisherTypeOK, PublisherAt

(* A publisher moves on with another channel, or with none.                *)
LEMMA PublisherTakes ==
  ASSUME PublisherTypes, NEW p \in Publishers, NEW from,
         NEW to \in {"idle", "retry", "get", "recv", "hold", "ret", "put"},
         NEW ch \in Channel \cup {NoChannel},
         PublisherAt(p, from, to), held' = [held EXCEPT ![p] = ch],
         to \in {"hold", "ret", "put"} => ch \in Channel
  PROVE  PublisherTypes'
BY Zenon DEF PublisherTypes, PublisherTypeOK, PublisherAt

(* The count of failures stays within its bound.                           *)
LEMMA FailureType ==
  ASSUME ClientTypeOK, Failure
  PROVE  losses' \in 0..MaxLosses /\ errors' \in 0..MaxErrors
BY ClientAssumption DEF ClientTypeOK, Failure

(* Every step keeps the type.                                              *)
LEMMA TypeStep == TypeInv /\ [Next]_vars => TypeInv'
<1> SUFFICES ASSUME TypeInv, [Next]_vars PROVE TypeInv'
  OBVIOUS
<1>0. PoolTypeOK /\ ClientTypeOK /\ LoopTypes /\ HandlerTypeOK /\ PublisherTypes
  BY Zenon DEF TypeInv
<1>1. ASSUME NEW l \in Loops, ConnectStart(l) PROVE TypeInv'
  <2>1. PoolTypeOK' /\ HandlerTypeOK' /\ PublisherTypes'
    BY <1>0, <1>1, PoolFrame, HandlerFrame, PublisherFrame, Zenon DEF ConnectStart
  <2>2. ClientTypeOK'
    BY <1>0, <1>1, Zenon DEF ConnectStart, ClientTypeOK, faults
  <2>3. LoopTypes'
    BY <1>0, <1>1, LoopMoves, Zenon DEF ConnectStart, LoopPC, InConnect
  <2> QED
    BY <2>1, <2>2, <2>3, Zenon DEF TypeInv
<1>2. ASSUME NEW l \in Loops, DialPublisher(l) PROVE TypeInv'
  <2>1. ClientTypeOK' /\ HandlerTypeOK' /\ PublisherTypes'
    BY <1>0, <1>2, ClientFrame, HandlerFrame, PublisherFrame, Zenon DEF DialPublisher
  <2>2. PoolTypeOK'
    BY <1>0, <1>2, Zenon DEF DialPublisher, Dialled, PoolTypeOK, poolVars
  <2>3. LoopTypes'
    <3>1. PICK c \in Conns : pubConn' = [pubConn EXCEPT ![l] = c]
      BY <1>2, Zenon DEF DialPublisher
    <3>2. pc' \in [Loops -> LoopPC]
      BY <1>0, <1>2, Zenon DEF DialPublisher, LoopTypes, LoopTypeOK, LoopPC, InConnect
    <3>3. pubConn' \in [Loops -> 0..MaxConns]
      BY <1>0, <3>1, PoolAssumption DEF LoopTypes, LoopTypeOK, Conns
    <3>4. LoopTypeOK'
      BY <1>0, <1>2, <3>2, <3>3, Zenon DEF DialPublisher, LoopTypes, LoopTypeOK
    <3>5. \A m \in Loops : IF m = l THEN pc'[m] = "dialCons" /\ pubConn'[m] = c
                                     ELSE pc'[m] = pc[m] /\ pubConn'[m] = pubConn[m]
      BY <1>0, <1>2, <3>1, Zenon DEF DialPublisher, LoopTypes, LoopTypeOK
    <3> QED
      BY <1>0, <1>2, <3>4, <3>5, Zenon DEF DialPublisher, LoopTypes
  <2> QED
    BY <2>1, <2>2, <2>3, Zenon DEF TypeInv
<1>3. ASSUME NEW l \in Loops, DialConsumer(l) PROVE TypeInv'
  <2>1. ClientTypeOK' /\ HandlerTypeOK' /\ PublisherTypes'
    BY <1>0, <1>3, ClientFrame, HandlerFrame, PublisherFrame, Zenon DEF DialConsumer
  <2>2. PoolTypeOK'
    BY <1>0, <1>3, Zenon DEF DialConsumer, Dialled, PoolTypeOK, poolVars
  <2>3. LoopTypes'
    <3>1. PICK c \in Conns : consConn' = [consConn EXCEPT ![l] = c]
      BY <1>3, Zenon DEF DialConsumer
    <3>2. pc' \in [Loops -> LoopPC]
      BY <1>0, <1>3, Zenon DEF DialConsumer, LoopTypes, LoopTypeOK, LoopPC, InConnect
    <3>3. consConn' \in [Loops -> 0..MaxConns]
      BY <1>0, <3>1, PoolAssumption DEF LoopTypes, LoopTypeOK, Conns
    <3>4. LoopTypeOK'
      BY <1>0, <1>3, <3>2, <3>3, Zenon DEF DialConsumer, LoopTypes, LoopTypeOK
    <3>5. \A m \in Loops : IF m = l THEN pc'[m] = "assign" /\ consConn'[m] = c
                                     ELSE pc'[m] = pc[m] /\ consConn'[m] = consConn[m]
      BY <1>0, <1>3, <3>1, Zenon DEF DialConsumer, LoopTypes, LoopTypeOK
    <3> QED
      BY <1>0, <1>3, <3>4, <3>5, Zenon DEF DialConsumer, LoopTypes
  <2> QED
    BY <2>1, <2>2, <2>3, Zenon DEF TypeInv
<1>4. ASSUME NEW l \in Loops, DialPublisherFails(l) PROVE TypeInv'
  <2>1. PublisherTypes'
    BY <1>0, <1>4, PublisherFrame, Zenon DEF DialPublisherFails, ConnectFails
  <2>2. PoolTypeOK'
    BY <1>0, <1>4, CloseConnectionsType, Zenon DEF DialPublisherFails, ConnectFails
  <2>3. ClientTypeOK'
    <3>1. losses' \in 0..MaxLosses /\ errors' \in 0..MaxErrors
      BY <1>0, <1>4, FailureType, Zenon DEF DialPublisherFails
    <3> QED
      BY <1>0, <1>4, <3>1, Zenon
      DEF DialPublisherFails, ConnectFails, ClientTypeOK, clientVars
  <2>4. LoopTypes'
    BY <1>0, <1>4, LoopFails, Zenon DEF DialPublisherFails
  <2>5. HandlerTypeOK'
    BY <1>0, <1>4, CloseConnectionsType, Zenon DEF DialPublisherFails, ConnectFails
  <2> QED
    BY <2>1, <2>2, <2>3, <2>4, <2>5, Zenon DEF TypeInv
<1>5. ASSUME NEW l \in Loops, DialConsumerFails(l) PROVE TypeInv'
  <2>1. PublisherTypes'
    BY <1>0, <1>5, PublisherFrame, Zenon DEF DialConsumerFails, ConnectFails
  <2>2. PoolTypeOK'
    BY <1>0, <1>5, CloseConnectionsType, Zenon DEF DialConsumerFails, ConnectFails
  <2>3. ClientTypeOK'
    <3>1. losses' \in 0..MaxLosses /\ errors' \in 0..MaxErrors
      BY <1>0, <1>5, FailureType, Zenon DEF DialConsumerFails
    <3> QED
      BY <1>0, <1>5, <3>1, Zenon
      DEF DialConsumerFails, ConnectFails, ClientTypeOK, clientVars
  <2>4. LoopTypes'
    BY <1>0, <1>5, LoopFails, Zenon DEF DialConsumerFails
  <2>5. HandlerTypeOK'
    BY <1>0, <1>5, CloseConnectionsType, Zenon DEF DialConsumerFails, ConnectFails
  <2> QED
    BY <2>1, <2>2, <2>3, <2>4, <2>5, Zenon DEF TypeInv
<1>6. ASSUME NEW l \in Loops, AssignConnections(l) PROVE TypeInv'
  <2>1. PoolTypeOK' /\ HandlerTypeOK' /\ PublisherTypes'
    BY <1>0, <1>6, PoolFrame, HandlerFrame, PublisherFrame, Zenon DEF AssignConnections
  <2>2. ClientTypeOK'
    BY <1>0, <1>6, Zenon
    DEF AssignConnections, ClientTypeOK, LoopTypes, LoopTypeOK, faults
  <2>3. LoopTypes'
    <3>1. pubConn[l] \in Conns /\ consConn[l] \in Conns
      BY <1>0, <1>6, Zenon DEF AssignConnections, LoopTypes
    <3> QED
      BY <1>0, <1>6, <3>1, LoopMoves, Zenon
      DEF AssignConnections, LoopPC, InConnect
  <2> QED
    BY <2>1, <2>2, <2>3, Zenon DEF TypeInv
<1>7. ASSUME NEW l \in Loops, ConnectDrains(l) PROVE TypeInv'
  <2>1. ClientTypeOK' /\ LoopTypes' /\ HandlerTypeOK' /\ PublisherTypes'
    BY <1>0, <1>7, ClientFrame, LoopFrame, HandlerFrame, PublisherFrame, Zenon
    DEF ConnectDrains
  <2>2. PoolTypeOK'
    BY <1>0, <1>7, TakeAndCloseType, Zenon DEF ConnectDrains
  <2> QED
    BY <2>1, <2>2, Zenon DEF TypeInv
<1>8. ASSUME NEW l \in Loops, ConnectDrained(l) PROVE TypeInv'
  <2>1. PoolTypeOK' /\ ClientTypeOK' /\ HandlerTypeOK' /\ PublisherTypes'
    BY <1>0, <1>8, PoolFrame, ClientFrame, HandlerFrame, PublisherFrame, Zenon
    DEF ConnectDrained
  <2>2. LoopTypes'
    <3>1. pubConn[l] \in Conns /\ consConn[l] \in Conns
      BY <1>0, <1>8, Zenon DEF ConnectDrained, LoopTypes
    <3> QED
      BY <1>0, <1>8, <3>1, LoopMoves, Zenon DEF ConnectDrained, LoopPC, InConnect
  <2> QED
    BY <2>1, <2>2, Zenon DEF TypeInv
<1>9. ASSUME NEW l \in Loops, FillOpens(l) PROVE TypeInv'
  <2>1. ClientTypeOK' /\ HandlerTypeOK' /\ PublisherTypes'
    BY <1>0, <1>9, ClientFrame, HandlerFrame, PublisherFrame, Zenon DEF FillOpens
  <2>2. PoolTypeOK'
    <3>1. pubConn[l] \in Conns
      BY <1>0, <1>9, Zenon DEF FillOpens, LoopTypes
    <3>2. chans' \in [Conns -> Int]
      BY <1>0, <1>9, <3>1, OpenChannelType, Zenon DEF FillOpens
    <3> QED
      BY <1>0, <1>9, <3>2, Zenon DEF FillOpens, PoolTypeOK, poolVars
  <2>3. LoopTypes'
    <3>1. pubConn[l] \in Conns /\ consConn[l] \in Conns
      BY <1>0, <1>9, Zenon DEF FillOpens, LoopTypes
    <3> QED
      BY <1>0, <1>9, <3>1, LoopMoves, Zenon DEF FillOpens, LoopPC, InConnect
  <2> QED
    BY <2>1, <2>2, <2>3, Zenon DEF TypeInv
<1>10. ASSUME NEW l \in Loops, FillFails(l) PROVE TypeInv'
  <2>1. PublisherTypes'
    BY <1>0, <1>10, PublisherFrame, Zenon DEF FillFails, ConnectFails
  <2>2. PoolTypeOK'
    BY <1>0, <1>10, CloseConnectionsType, Zenon DEF FillFails, ConnectFails
  <2>3. ClientTypeOK'
    <3>1. losses' \in 0..MaxLosses /\ errors' \in 0..MaxErrors
      BY <1>0, <1>10, FailureType, Zenon DEF FillFails, ClientTypeOK, faults
    <3> QED
      BY <1>0, <1>10, <3>1, Zenon DEF FillFails, ConnectFails, ClientTypeOK, clientVars
  <2>4. LoopTypes'
    BY <1>0, <1>10, LoopFails, Zenon DEF FillFails
  <2>5. HandlerTypeOK'
    BY <1>0, <1>10, CloseConnectionsType, Zenon DEF FillFails, ConnectFails
  <2> QED
    BY <2>1, <2>2, <2>3, <2>4, <2>5, Zenon DEF TypeInv
<1>11. ASSUME NEW l \in Loops, FillSends(l) PROVE TypeInv'
  <2>1. ClientTypeOK' /\ HandlerTypeOK' /\ PublisherTypes'
    BY <1>0, <1>11, ClientFrame, HandlerFrame, PublisherFrame, Zenon DEF FillSends
  <2>2. PoolTypeOK'
    <3>1. [conn |-> pubConn[l], up |-> TRUE] \in Channel
      BY <1>0, <1>11, Zenon DEF FillSends, LoopTypes, Channel
    <3>2. channels' \in Seq(Channel) /\ Len(channels') <= PoolSize
      <4>1. CASE Put([conn |-> pubConn[l], up |-> TRUE]) /\ HasRoom
        BY <1>0, <3>1, <4>1, PutType, Zenon
      <4>2. CASE UNCHANGED channels
        BY <1>0, <4>2, Zenon DEF PoolTypeOK
      <4> QED
        BY <1>11, <4>1, <4>2, Zenon DEF FillSends
    <3> QED
      BY <1>0, <1>11, <3>2, Zenon DEF FillSends, PoolTypeOK, amqpVars
  <2>3. LoopTypes'
    <3>1. CASE UNCHANGED <<pc, filled>>
      BY <1>0, <1>11, <3>1, LoopFrame, Zenon DEF FillSends, loopVars
    <3>2. CASE filled' = [filled EXCEPT ![l] = @ + 1] /\ pc' = [pc EXCEPT ![l] = "fill"]
      <4>1. pc' \in [Loops -> LoopPC]
        BY <1>0, <3>2, Zenon DEF LoopTypes, LoopTypeOK, LoopPC, InConnect
      <4>2. filled' \in [Loops -> Nat]
        BY <1>0, <3>2 DEF LoopTypes, LoopTypeOK
      <4>3. \A m \in Loops : pc'[m] = IF m = l THEN "fill" ELSE pc[m]
        BY <1>0, <3>2, Zenon DEF LoopTypes, LoopTypeOK
      <4> QED
        BY <1>0, <1>11, <4>1, <4>2, <4>3, Zenon DEF FillSends, LoopTypes, LoopTypeOK
    <3> QED
      BY <1>11, <3>1, <3>2, Zenon DEF FillSends
  <2> QED
    BY <2>1, <2>2, <2>3, Zenon DEF TypeInv
<1>12. ASSUME NEW l \in Loops, FillReturns(l) PROVE TypeInv'
  <2>1. PoolTypeOK' /\ ClientTypeOK' /\ HandlerTypeOK' /\ PublisherTypes'
    BY <1>0, <1>12, PoolFrame, ClientFrame, HandlerFrame, PublisherFrame, Zenon
    DEF FillReturns
  <2>2. LoopTypes'
    BY <1>0, <1>12, LoopEnds, Zenon DEF FillReturns
  <2> QED
    BY <2>1, <2>2, Zenon DEF TypeInv
<1>13. ASSUME NEW l \in Loops, SetConnected(l) PROVE TypeInv'
  <2>1. PoolTypeOK' /\ HandlerTypeOK' /\ PublisherTypes'
    BY <1>0, <1>13, PoolFrame, HandlerFrame, PublisherFrame, Zenon DEF SetConnected
  <2>2. ClientTypeOK'
    BY <1>0, <1>13, Zenon DEF SetConnected, ClientTypeOK, faults
  <2>3. LoopTypes'
    BY <1>0, <1>13, LoopMoves, Zenon DEF SetConnected, LoopPC, InConnect
  <2> QED
    BY <2>1, <2>2, <2>3, Zenon DEF TypeInv
<1>14. ASSUME NEW l \in Loops, SetupPublisherHandler(l) PROVE TypeInv'
  <2>1. PoolTypeOK' /\ ClientTypeOK' /\ PublisherTypes'
    BY <1>0, <1>14, PoolFrame, ClientFrame, PublisherFrame, Zenon
    DEF SetupPublisherHandler
  <2>2. LoopTypes'
    BY <1>0, <1>14, LoopMoves, Zenon DEF SetupPublisherHandler, LoopPC, InConnect
  <2>3. HandlerTypeOK'
    BY <1>0, <1>14, Zenon
    DEF SetupPublisherHandler, StartHandler, ClientTypeOK, HandlerTypeOK,
        HandlerPC
  <2> QED
    BY <2>1, <2>2, <2>3, Zenon DEF TypeInv
<1>15. ASSUME NEW l \in Loops, SetupConsumerHandler(l) PROVE TypeInv'
  <2>1. PoolTypeOK' /\ ClientTypeOK' /\ PublisherTypes'
    BY <1>0, <1>15, PoolFrame, ClientFrame, PublisherFrame, Zenon
    DEF SetupConsumerHandler
  <2>2. LoopTypes'
    BY <1>0, <1>15, LoopMoves, Zenon
    DEF SetupConsumerHandler, LoopPC, InConnect, Ended
  <2>3. HandlerTypeOK'
    BY <1>0, <1>15, Zenon
    DEF SetupConsumerHandler, StartHandler, ClientTypeOK, HandlerTypeOK, HandlerPC
  <2> QED
    BY <2>1, <2>2, <2>3, Zenon DEF TypeInv
<1>16. ASSUME NEW l \in Loops, BackoffClosed(l) PROVE TypeInv'
  <2>1. PoolTypeOK' /\ HandlerTypeOK' /\ PublisherTypes'
    BY <1>0, <1>16, PoolFrame, HandlerFrame, PublisherFrame, Zenon DEF BackoffClosed
  <2>2. ClientTypeOK'
    BY <1>0, <1>16, Zenon DEF BackoffClosed, ClientTypeOK, faults
  <2>3. LoopTypes'
    BY <1>0, <1>16, LoopMoves, Zenon DEF BackoffClosed, LoopPC, InConnect
  <2> QED
    BY <2>1, <2>2, <2>3, Zenon DEF TypeInv
<1>17. ASSUME NEW l \in Loops, BackoffElapsed(l) PROVE TypeInv'
  <2>1. PoolTypeOK' /\ HandlerTypeOK' /\ PublisherTypes'
    BY <1>0, <1>17, PoolFrame, HandlerFrame, PublisherFrame, Zenon DEF BackoffElapsed
  <2>2. ClientTypeOK'
    BY <1>0, <1>17, Zenon DEF BackoffElapsed, ClientTypeOK, faults
  <2>3. LoopTypes'
    <3>1. \E to \in {"idle", "connect"} : pc' = [pc EXCEPT ![l] = to]
      BY <1>17, Zenon DEF BackoffElapsed
    <3>2. UNCHANGED <<pubConn, consConn, filled>>
      BY <1>17, Zenon DEF BackoffElapsed
    <3> QED
      BY <1>0, <3>1, <3>2, LoopMoves, Zenon DEF LoopPC, InConnect
  <2> QED
    BY <2>1, <2>2, <2>3, Zenon DEF TypeInv
<1>18. ASSUME NEW h \in Handlers, HandlerSelects(h) PROVE TypeInv'
  <2>1. PoolTypeOK' /\ ClientTypeOK' /\ LoopTypes' /\ PublisherTypes'
    BY <1>0, <1>18, PoolFrame, ClientFrame, LoopFrame, PublisherFrame, Zenon
    DEF HandlerSelects
  <2>2. HandlerTypeOK'
    <3>1. CASE EndHandlers({h})
      BY <1>0, <3>1, EndHandlersType, Zenon
    <3>2. CASE \E to \in {"drain", "wait"} :
                 hpc' = [hpc EXCEPT ![h] = to] /\ UNCHANGED hconn
      BY <1>0, <3>2, Zenon DEF HandlerTypeOK, HandlerPC
    <3> QED
      BY <1>18, <3>1, <3>2, Zenon DEF HandlerSelects, OnAlreadyClosed
  <2> QED
    BY <2>1, <2>2, Zenon DEF TypeInv
<1>19. ASSUME NEW h \in Handlers, HandlerDrains(h) PROVE TypeInv'
  <2>1. ClientTypeOK' /\ LoopTypes' /\ HandlerTypeOK' /\ PublisherTypes'
    BY <1>0, <1>19, ClientFrame, LoopFrame, HandlerFrame, PublisherFrame, Zenon
    DEF HandlerDrains
  <2>2. PoolTypeOK'
    BY <1>0, <1>19, TakeAndCloseType, Zenon DEF HandlerDrains
  <2> QED
    BY <2>1, <2>2, Zenon DEF TypeInv
<1>20. ASSUME NEW h \in Handlers, HandlerDrained(h) PROVE TypeInv'
  <2>1. PoolTypeOK' /\ ClientTypeOK' /\ LoopTypes' /\ PublisherTypes'
    BY <1>0, <1>20, PoolFrame, ClientFrame, LoopFrame, PublisherFrame, Zenon
    DEF HandlerDrained
  <2>2. HandlerTypeOK'
    BY <1>0, <1>20, Zenon DEF HandlerDrained, HandlerTypeOK, HandlerPC
  <2> QED
    BY <2>1, <2>2, Zenon DEF TypeInv
<1>21. ASSUME NEW h \in Handlers, TriggerReconnect(h) PROVE TypeInv'
  <2>1. PoolTypeOK' /\ PublisherTypes'
    BY <1>0, <1>21, PoolFrame, PublisherFrame, Zenon DEF TriggerReconnect
  <2>2. ClientTypeOK'
    BY <1>0, <1>21, Zenon DEF TriggerReconnect, ClientTypeOK, faults
  <2>3. LoopTypes'
    <3>1. UNCHANGED <<pubConn, consConn, filled>>
      BY <1>21, Zenon DEF TriggerReconnect
    <3>2. CASE UNCHANGED pc
      BY <1>0, <3>1, <3>2, LoopFrame, Zenon DEF loopVars
    <3>3. CASE \E l \in Loops : pc' = [pc EXCEPT ![l] = "backoff"]
      BY <1>0, <3>1, <3>3, LoopMoves, Zenon DEF LoopPC, InConnect
    <3> QED
      BY <1>21, <3>2, <3>3, Zenon DEF TriggerReconnect
  <2>4. HandlerTypeOK'
    BY <1>0, <1>21, EndHandlersType, Zenon DEF TriggerReconnect
  <2> QED
    BY <2>1, <2>2, <2>3, <2>4, Zenon DEF TypeInv
<1>22. ASSUME NEW p \in Publishers, PublishStart(p) PROVE TypeInv'
  <2>1. PoolTypeOK' /\ ClientTypeOK' /\ LoopTypes' /\ HandlerTypeOK'
    BY <1>0, <1>22, PoolFrame, ClientFrame, LoopFrame, HandlerFrame, Zenon
    DEF PublishStart, NonPublisherVars
  <2>2. PublisherTypes'
    BY <1>0, <1>22, PublisherMoves, Zenon DEF PublishStart
  <2> QED
    BY <2>1, <2>2, Zenon DEF TypeInv
<1>23. ASSUME NEW p \in Publishers, PublishRetry(p) PROVE TypeInv'
  <2>1. PoolTypeOK' /\ ClientTypeOK' /\ LoopTypes' /\ HandlerTypeOK'
    BY <1>0, <1>23, PoolFrame, ClientFrame, LoopFrame, HandlerFrame, Zenon
    DEF PublishRetry, NonPublisherVars
  <2>2. PublisherTypes'
    BY <1>0, <1>23, PublisherMoves, Zenon DEF PublishRetry
  <2> QED
    BY <2>1, <2>2, Zenon DEF TypeInv
<1>24. ASSUME NEW p \in Publishers, PublishCancelled(p) PROVE TypeInv'
  <2>1. PoolTypeOK' /\ ClientTypeOK' /\ LoopTypes' /\ HandlerTypeOK'
    BY <1>0, <1>24, PoolFrame, ClientFrame, LoopFrame, HandlerFrame, Zenon
    DEF PublishCancelled, NonPublisherVars
  <2>2. PublisherTypes'
    BY <1>0, <1>24, PublisherMoves, Zenon DEF PublishCancelled
  <2> QED
    BY <2>1, <2>2, Zenon DEF TypeInv
<1>25. ASSUME NEW p \in Publishers, GetChecks(p) PROVE TypeInv'
  <2>1. PoolTypeOK' /\ ClientTypeOK' /\ LoopTypes' /\ HandlerTypeOK'
    BY <1>0, <1>25, PoolFrame, ClientFrame, LoopFrame, HandlerFrame, Zenon
    DEF GetChecks, NonPublisherVars
  <2>2. PublisherTypes'
    BY <1>0, <1>25, PublisherMoves, Zenon DEF GetChecks
  <2> QED
    BY <2>1, <2>2, Zenon DEF TypeInv
<1>26. ASSUME NEW p \in Publishers, GetReceives(p) PROVE TypeInv'
  <2>1. ClientTypeOK' /\ LoopTypes' /\ HandlerTypeOK'
    BY <1>0, <1>26, ClientFrame, LoopFrame, HandlerFrame, Zenon
    DEF GetReceives, NonPublisherVars
  <2>2. PoolTypeOK'
    <3>1. channels' \in Seq(Channel) /\ Len(channels') <= PoolSize
      BY <1>0, <1>26, ReceiveType, Zenon DEF GetReceives, PoolTypeOK
    <3> QED
      BY <1>0, <1>26, <3>1, Zenon DEF GetReceives, PoolTypeOK, amqpVars
  <2>3. PublisherTypes'
    <3>1. CASE /\ channels # <<>>
                /\ PublisherAt(p, "recv", "hold")
                /\ held' = [held EXCEPT ![p] = Head(channels)]
      BY <1>0, <3>1, ReceiveType, PublisherTakes, Zenon
    <3>2. CASE PublisherAt(p, "recv", "idle") /\ UNCHANGED held
      BY <1>0, <3>2, PublisherMoves, Zenon
    <3> QED
      BY <1>26, <3>1, <3>2, Zenon DEF GetReceives
  <2> QED
    BY <2>1, <2>2, <2>3, Zenon DEF TypeInv
<1>27. ASSUME NEW p \in Publishers, Publish(p) PROVE TypeInv'
  <2>1. LoopTypes' /\ HandlerTypeOK'
    BY <1>0, <1>27, LoopFrame, HandlerFrame, Zenon DEF Publish, NonPublisherVars
  <2>2. PoolTypeOK'
    <3>1. held[p] \in Channel
      BY <1>0, <1>27, Zenon DEF Publish, PublisherAt, PublisherTypes
    <3>2. chans' \in [Conns -> Int]
      BY <1>0, <1>27, <3>1, CloseChannelType, Zenon DEF Publish, PoolTypeOK
    <3> QED
      BY <1>0, <1>27, <3>2, Zenon DEF Publish, PoolTypeOK, poolVars
  <2>3. ClientTypeOK'
    <3>1. losses' \in 0..MaxLosses /\ errors' \in 0..MaxErrors
      BY <1>0, <1>27, FailureType, Zenon DEF Publish, ClientTypeOK, faults
    <3> QED
      BY <1>0, <1>27, <3>1, Zenon DEF Publish, ClientTypeOK, NonPublisherVars, clientVars
  <2>4. PublisherTypes'
    <3>1. held[p] \in Channel
      BY <1>0, <1>27, Zenon DEF Publish, PublisherAt, PublisherTypes
    <3>2. CASE UNCHANGED held
      BY <1>0, <1>27, <3>1, <3>2, PublisherMoves, Zenon DEF Publish
    <3>3. CASE held' = [held EXCEPT ![p].up = FALSE]
      <4>1. [held[p] EXCEPT !.up = FALSE] \in Channel
        BY <3>1, Zenon DEF Channel
      <4> QED
        BY <1>0, <1>27, <3>3, <4>1, PublisherTakes, Zenon DEF Publish
    <3> QED
      BY <1>27, <3>2, <3>3, Zenon DEF Publish
  <2> QED
    BY <2>1, <2>2, <2>3, <2>4, Zenon DEF TypeInv
<1>28. ASSUME NEW p \in Publishers, ReturnChecks(p) PROVE TypeInv'
  <2>1. ClientTypeOK' /\ LoopTypes' /\ HandlerTypeOK'
    BY <1>0, <1>28, ClientFrame, LoopFrame, HandlerFrame, Zenon
    DEF ReturnChecks, NonPublisherVars
  <2>2. PoolTypeOK'
    <3>1. held[p] \in Channel
      BY <1>0, <1>28, Zenon DEF ReturnChecks, PublisherAt, PublisherTypes
    <3>2. chans' \in [Conns -> Int]
      BY <1>0, <1>28, <3>1, CloseChannelType, Zenon DEF ReturnChecks, PoolTypeOK
    <3> QED
      BY <1>0, <1>28, <3>2, Zenon DEF ReturnChecks, PoolTypeOK, poolVars
  <2>3. PublisherTypes'
    <3>1. CASE PublisherAt(p, "ret", "idle") /\ held' = [held EXCEPT ![p] = NoChannel]
      BY <1>0, <3>1, PublisherTakes, Zenon
    <3>2. CASE PublisherAt(p, "ret", "put") /\ UNCHANGED held
      <4>1. held[p] \in Channel
        BY <1>0, <3>2, Zenon DEF PublisherAt, PublisherTypes
      <4> QED
        BY <1>0, <3>2, <4>1, PublisherMoves, Zenon
    <3> QED
      BY <1>28, <3>1, <3>2, Zenon DEF ReturnChecks
  <2> QED
    BY <2>1, <2>2, <2>3, Zenon DEF TypeInv
<1>29. ASSUME NEW p \in Publishers, ReturnSelects(p) PROVE TypeInv'
  <2>1. ClientTypeOK' /\ LoopTypes' /\ HandlerTypeOK'
    BY <1>0, <1>29, ClientFrame, LoopFrame, HandlerFrame, Zenon
    DEF ReturnSelects, NonPublisherVars
  <2>2. PoolTypeOK'
    <3>1. held[p] \in Channel
      BY <1>0, <1>29, Zenon DEF ReturnSelects, PublisherAt, PublisherTypes
    <3> QED
      BY <1>0, <1>29, <3>1, ReturnSelectType, Zenon DEF ReturnSelects
  <2>3. PublisherTypes'
    BY <1>0, <1>29, PublisherTakes, Zenon DEF ReturnSelects
  <2> QED
    BY <2>1, <2>2, <2>3, Zenon DEF TypeInv
<1>30. ASSUME CloseStart PROVE TypeInv'
  <2>1. PoolTypeOK' /\ LoopTypes' /\ HandlerTypeOK' /\ PublisherTypes'
    BY <1>0, <1>30, PoolFrame, LoopFrame, HandlerFrame, PublisherFrame, Zenon
    DEF CloseStart
  <2>2. ClientTypeOK'
    BY <1>0, <1>30, Zenon DEF CloseStart, ClientTypeOK, faults
  <2> QED
    BY <2>1, <2>2, Zenon DEF TypeInv
<1>31. ASSUME CloseSignal PROVE TypeInv'
  <2>1. PoolTypeOK' /\ LoopTypes' /\ PublisherTypes'
    BY <1>0, <1>31, PoolFrame, LoopFrame, PublisherFrame, Zenon DEF CloseSignal
  <2>2. ClientTypeOK'
    BY <1>0, <1>31, Zenon DEF CloseSignal, ClientTypeOK, faults
  <2>3. HandlerTypeOK'
    BY <1>0, <1>31, EndHandlersType, Zenon DEF CloseSignal
  <2> QED
    BY <2>1, <2>2, <2>3, Zenon DEF TypeInv
<1>32. ASSUME ClosePoolFlag PROVE TypeInv'
  <2>1. LoopTypes' /\ HandlerTypeOK' /\ PublisherTypes'
    BY <1>0, <1>32, LoopFrame, HandlerFrame, PublisherFrame, Zenon DEF ClosePoolFlag
  <2>2. PoolTypeOK'
    BY <1>0, <1>32, Zenon DEF ClosePoolFlag, CloseChannels, PoolTypeOK, amqpVars
  <2>3. ClientTypeOK'
    BY <1>0, <1>32, Zenon DEF ClosePoolFlag, ClientTypeOK, clientVars, faults
  <2> QED
    BY <2>1, <2>2, <2>3, Zenon DEF TypeInv
<1>33. ASSUME ClosePoolChannel PROVE TypeInv'
  <2>1. LoopTypes' /\ HandlerTypeOK' /\ PublisherTypes'
    BY <1>0, <1>33, LoopFrame, HandlerFrame, PublisherFrame, Zenon DEF ClosePoolChannel
  <2>2. PoolTypeOK'
    BY <1>0, <1>33, Zenon DEF ClosePoolChannel, CloseChannels, PoolTypeOK, amqpVars
  <2>3. ClientTypeOK'
    BY <1>0, <1>33, Zenon DEF ClosePoolChannel, ClientTypeOK, clientVars, faults
  <2> QED
    BY <2>1, <2>2, <2>3, Zenon DEF TypeInv
<1>34. ASSUME ClosePoolItems PROVE TypeInv'
  <2>1. LoopTypes' /\ HandlerTypeOK' /\ PublisherTypes'
    BY <1>0, <1>34, LoopFrame, HandlerFrame, PublisherFrame, Zenon DEF ClosePoolItems
  <2>2. PoolTypeOK'
    BY <1>0, <1>34, TakeAndCloseType, PoolFrame, Zenon DEF ClosePoolItems
  <2>3. ClientTypeOK'
    BY <1>0, <1>34, Zenon DEF ClosePoolItems, ClientTypeOK, clientVars, faults
  <2> QED
    BY <2>1, <2>2, <2>3, Zenon DEF TypeInv
<1>35. ASSUME CloseCurrent PROVE TypeInv'
  <2>1. LoopTypes' /\ PublisherTypes'
    BY <1>0, <1>35, LoopFrame, PublisherFrame, Zenon DEF CloseCurrent
  <2>2. PoolTypeOK'
    BY <1>0, <1>35, CloseConnectionsType, Zenon DEF CloseCurrent
  <2>3. ClientTypeOK'
    BY <1>0, <1>35, Zenon DEF CloseCurrent, ClientTypeOK, clientVars, faults
  <2>4. HandlerTypeOK'
    BY <1>0, <1>35, CloseConnectionsType, Zenon DEF CloseCurrent
  <2> QED
    BY <2>1, <2>2, <2>3, <2>4, Zenon DEF TypeInv
<1>36. ASSUME LoseConnections PROVE TypeInv'
  <2>1. LoopTypes' /\ PublisherTypes'
    BY <1>0, <1>36, LoopFrame, PublisherFrame, Zenon DEF LoseConnections
  <2>2. PoolTypeOK'
    BY <1>0, <1>36, CloseConnectionsType, Zenon DEF LoseConnections
  <2>3. ClientTypeOK'
    BY <1>0, <1>36, ClientAssumption DEF LoseConnections, ClientTypeOK, clientVars
  <2>4. HandlerTypeOK'
    BY <1>0, <1>36, CloseConnectionsType, Zenon DEF LoseConnections
  <2> QED
    BY <2>1, <2>2, <2>3, <2>4, Zenon DEF TypeInv
<1>37. ASSUME PooledChannelDies PROVE TypeInv'
  <2>1. LoopTypes' /\ HandlerTypeOK' /\ PublisherTypes'
    BY <1>0, <1>37, LoopFrame, HandlerFrame, PublisherFrame, Zenon
    DEF PooledChannelDies, NonPublisherVars
  <2>2. PoolTypeOK'
    <3>1. PICK i \in DOMAIN channels :
             /\ CloseChannel(channels[i])
             /\ channels' = [channels EXCEPT ![i].up = FALSE]
      BY <1>37, Zenon DEF PooledChannelDies
    <3>2. channels \in Seq(Channel)
      BY <1>0, Zenon DEF PoolTypeOK
    <3>3. channels[i] \in Channel
      BY <3>2
    <3>4. [channels[i] EXCEPT !.up = FALSE] \in Channel
      BY <3>3, Zenon DEF Channel
    <3>5. chans' \in [Conns -> Int]
      BY <1>0, <3>1, <3>3, CloseChannelType, Zenon
    <3>6. channels' \in Seq(Channel) /\ Len(channels') = Len(channels)
      BY <3>1, <3>2, <3>4
    <3> QED
      BY <1>0, <1>37, <3>5, <3>6, Zenon DEF PooledChannelDies, PoolTypeOK
  <2>3. ClientTypeOK'
    <3>1. losses' \in 0..MaxLosses /\ errors' \in 0..MaxErrors
      BY <1>0, <1>37, FailureType, Zenon DEF PooledChannelDies
    <3> QED
      BY <1>0, <1>37, <3>1, Zenon
      DEF PooledChannelDies, ClientTypeOK, NonPublisherVars, clientVars
  <2> QED
    BY <2>1, <2>2, <2>3, Zenon DEF TypeInv
<1>38. CASE UNCHANGED vars
  BY <1>0, <1>38, PoolFrame, ClientFrame, LoopFrame, HandlerFrame, PublisherFrame, Zenon
  DEF vars, TypeInv, poolVars, amqpVars, clientVars, loopVars, handlerVars,
      pubVars, faults
<1> QED
  BY <1>1, <1>2, <1>3, <1>4, <1>5, <1>6, <1>7, <1>8, <1>9, <1>10, <1>11,
     <1>12, <1>13, <1>14, <1>15, <1>16, <1>17, <1>18, <1>19, <1>20, <1>21, <1>22,
     <1>23, <1>24, <1>25, <1>26, <1>27, <1>28, <1>29, <1>30, <1>31, <1>32, <1>33,
     <1>34, <1>35, <1>36, <1>37, <1>38, Zenon
  DEF Next, LoopStep, HandlerStep, CloseStep, PublishStep

-----------------------------------------------------------------------------
(* Who connects, and who watches.                                          *)

(* While the state is Connected or Disconnected, which is when             *)
(* triggerReconnect may start a loop, nobody is connecting.                *)
Exclusive ==
  state \in {"Connected", "Disconnected"} => \A l \in Loops : pc[l] \notin InConnect

(* Somebody is responsible for the state Connecting.                       *)
ConnectingHasLoop ==
  state = "Connecting" =>
    pc[Boot] = "failed" \/ \E l \in Loops : pc[l] \in InConnect

CloseIsKnown == (state = "Closing" \/ closeChan) => Closing

(* Until connect has returned to NewClient nothing else is running.        *)
BootAlone ==
  pc[Boot] \in InConnect \cup {"failed"} =>
    /\ state = "Connecting" /\ ~Closing
    /\ \A h \in Handlers : hpc[h] = "none"
    /\ \A l \in Loops \ {Boot} : pc[l] = "idle"

(* What Control is about.                                                  *)
controlVars == <<pc, state, closeChan, kpc, hpc>>

Control ==
  SingleConnector /\ Exclusive /\ ConnectingHasLoop /\ CloseIsKnown /\ BootAlone

(* The client has had connections since connect first assigned them, a     *)
(* handler watches one, and a parked handler's connection is open.         *)
PointersSet ==
  pc[Boot] \notin {"dialPub", "dialCons", "assign", "failed"} =>
    publisherConn \in Conns /\ consumerConn \in Conns

WatchedConns == \A h \in Handlers : hpc[h] # "none" => hconn[h] \in Conns

ParkedOnOpen == \A h \in Handlers : hpc[h] = "wait" => conn[hconn[h]] = "open"

(* Somebody watches the current connection of kind k, or is about to.      *)
Watched(k) ==
  \E l \in Loops :
    \/ pc[l] = "setupPub"
    \/ k = "consumer" /\ pc[l] = "setupCons"
    \/ hpc[<<l, k>>] # "none" /\ hconn[<<l, k>>] = Current(k)

EverWatched ==
  \/ Closing
  \/ pc[Boot] = "failed"
  \/ \E l \in Loops : pc[l] \in InConnect
  \/ \A k \in Kinds : Watched(k)

Watch == PointersSet /\ WatchedConns /\ ParkedOnOpen /\ EverWatched

-----------------------------------------------------------------------------
(* Every step keeps the connecting part of connect to one goroutine.       *)
LEMMA ControlStep == TypeInv /\ Control /\ [Next]_vars => Control'
<1> SUFFICES ASSUME TypeInv, Control, [Next]_vars PROVE Control'
  OBVIOUS
<1>0. /\ pc \in [Loops -> LoopPC] /\ hpc \in [Handlers -> HandlerPC]
      /\ Boot \in Loops
  BY ClientAssumption
  DEF TypeInv, LoopTypes, LoopTypeOK, HandlerTypeOK, Loops, Boot
<1> USE DEF Control, SingleConnector, Exclusive, ConnectingHasLoop, CloseIsKnown,
        BootAlone, Closing, LoopPC, InConnect, clientVars, loopVars, handlerVars
<1>1. ASSUME NEW l \in Loops, ConnectStart(l) PROVE Control'
  BY <1>0, <1>1 DEF ConnectStart
<1>2. ASSUME NEW l \in Loops, DialPublisher(l) PROVE Control'
  BY <1>0, <1>2 DEF DialPublisher
<1>3. ASSUME NEW l \in Loops, DialConsumer(l) PROVE Control'
  BY <1>0, <1>3 DEF DialConsumer
<1>4. ASSUME NEW l \in Loops, DialPublisherFails(l) PROVE Control'
  BY <1>0, <1>4 DEF DialPublisherFails, ConnectFails, CloseConnections, AfterError
<1>5. ASSUME NEW l \in Loops, DialConsumerFails(l) PROVE Control'
  BY <1>0, <1>5 DEF DialConsumerFails, ConnectFails, CloseConnections, AfterError
<1>6. ASSUME NEW l \in Loops, AssignConnections(l) PROVE Control'
  BY <1>0, <1>6 DEF AssignConnections
<1>7. ASSUME NEW l \in Loops, ConnectDrains(l)
      PROVE  UNCHANGED controlVars
  BY <1>7, Zenon DEF ConnectDrains, controlVars, NonPublisherVars
<1>8. ASSUME NEW l \in Loops, ConnectDrained(l) PROVE Control'
  BY <1>0, <1>8 DEF ConnectDrained
<1>9. ASSUME NEW l \in Loops, FillOpens(l) PROVE Control'
  BY <1>0, <1>9 DEF FillOpens
<1>10. ASSUME NEW l \in Loops, FillFails(l) PROVE Control'
  BY <1>0, <1>10 DEF FillFails, ConnectFails, CloseConnections, AfterError
<1>11. ASSUME NEW l \in Loops, FillSends(l) PROVE Control'
  BY <1>0, <1>11 DEF FillSends
<1>12. ASSUME NEW l \in Loops, FillReturns(l) PROVE Control'
  BY <1>0, <1>12, Zenon DEF FillReturns
<1>13. ASSUME NEW l \in Loops, SetConnected(l) PROVE Control'
  BY <1>0, <1>13, Zenon DEF SetConnected
<1>14. ASSUME NEW l \in Loops, SetupPublisherHandler(l) PROVE Control'
  BY <1>0, <1>14, Zenon DEF SetupPublisherHandler, StartHandler
<1>15. ASSUME NEW l \in Loops, SetupConsumerHandler(l) PROVE Control'
  BY <1>0, <1>15 DEF SetupConsumerHandler, StartHandler, Ended
<1>16. ASSUME NEW l \in Loops, BackoffClosed(l) PROVE Control'
  BY <1>0, <1>16, Zenon DEF BackoffClosed
<1>17. ASSUME NEW l \in Loops, BackoffElapsed(l) PROVE Control'
  BY <1>0, <1>17 DEF BackoffElapsed
<1>18. ASSUME NEW h \in Handlers, HandlerSelects(h) PROVE Control'
  BY <1>0, <1>18, Zenon DEF HandlerSelects, EndHandlers, OnAlreadyClosed
<1>19. ASSUME NEW h \in Handlers, HandlerDrains(h)
      PROVE  UNCHANGED controlVars
  BY <1>19, Zenon DEF HandlerDrains, controlVars, NonPublisherVars
<1>20. ASSUME NEW h \in Handlers, HandlerDrained(h) PROVE Control'
  BY <1>0, <1>20, Zenon DEF HandlerDrained
<1>21. ASSUME NEW h \in Handlers, TriggerReconnect(h) PROVE Control'
  BY <1>0, <1>21 DEF TriggerReconnect, EndHandlers, FreeLoop, MayReconnect
<1>22. ASSUME NEW p \in Publishers, PublishStart(p)
      PROVE  UNCHANGED controlVars
  BY <1>22, Zenon DEF PublishStart, controlVars, NonPublisherVars
<1>23. ASSUME NEW p \in Publishers, PublishRetry(p)
      PROVE  UNCHANGED controlVars
  BY <1>23, Zenon DEF PublishRetry, controlVars, NonPublisherVars
<1>24. ASSUME NEW p \in Publishers, PublishCancelled(p)
      PROVE  UNCHANGED controlVars
  BY <1>24, Zenon DEF PublishCancelled, controlVars, NonPublisherVars
<1>25. ASSUME NEW p \in Publishers, GetChecks(p)
      PROVE  UNCHANGED controlVars
  BY <1>25, Zenon DEF GetChecks, controlVars, NonPublisherVars
<1>26. ASSUME NEW p \in Publishers, GetReceives(p)
      PROVE  UNCHANGED controlVars
  BY <1>26, Zenon DEF GetReceives, controlVars, NonPublisherVars
<1>27. ASSUME NEW p \in Publishers, Publish(p)
      PROVE  UNCHANGED controlVars
  BY <1>27, Zenon DEF Publish, controlVars, NonPublisherVars
<1>28. ASSUME NEW p \in Publishers, ReturnChecks(p)
      PROVE  UNCHANGED controlVars
  BY <1>28, Zenon DEF ReturnChecks, controlVars, NonPublisherVars
<1>29. ASSUME NEW p \in Publishers, ReturnSelects(p)
      PROVE  UNCHANGED controlVars
  BY <1>29, Zenon DEF ReturnSelects, controlVars, NonPublisherVars
<1>30. ASSUME CloseStart PROVE Control'
  BY <1>0, <1>30, Zenon DEF CloseStart, Ready
<1>31. ASSUME CloseSignal PROVE Control'
  BY <1>0, <1>31, Zenon DEF CloseSignal, EndHandlers
<1>32. ASSUME ClosePoolFlag PROVE Control'
  BY <1>0, <1>32, Zenon DEF ClosePoolFlag
<1>33. ASSUME ClosePoolChannel PROVE Control'
  BY <1>0, <1>33, Zenon DEF ClosePoolChannel
<1>34. ASSUME ClosePoolItems PROVE Control'
  BY <1>0, <1>34, Zenon DEF ClosePoolItems
<1>35. ASSUME CloseCurrent PROVE Control'
  BY <1>0, <1>35, Zenon DEF CloseCurrent, CloseConnections
<1>36. ASSUME LoseConnections PROVE Control'
  BY <1>0, <1>36, SMTT(20) DEF LoseConnections, CloseConnections
<1>37. ASSUME PooledChannelDies
      PROVE  UNCHANGED controlVars
  BY <1>37, Zenon DEF PooledChannelDies, controlVars, NonPublisherVars
<1>38. ASSUME UNCHANGED controlVars PROVE Control'
  BY <1>38, Zenon DEF controlVars
<1> HIDE DEF Control
<1> QED
  BY Zenon, <1>1, <1>2, <1>3, <1>4, <1>5, <1>6, <1>7, <1>8, <1>9, <1>10, <1>11,
     <1>12, <1>13, <1>14, <1>15, <1>16, <1>17, <1>18, <1>19, <1>20, <1>21, <1>22,
     <1>23, <1>24, <1>25, <1>26, <1>27, <1>28, <1>29, <1>30, <1>31, <1>32, <1>33,
     <1>34, <1>35, <1>36, <1>37, <1>38
  DEF Next, LoopStep, HandlerStep, CloseStep, PublishStep, vars, controlVars
(* As long as no handler returns, what was watched stays watched.          *)
LEMMA WatchersStay ==
  ASSUME EverWatched, UNCHANGED <<pc, publisherConn, consumerConn, hconn, kpc>>,
         \A h \in Handlers : hpc[h] # "none" => hpc'[h] # "none"
  PROVE  EverWatched'
<1>1. CASE \A k \in Kinds : Watched(k)
  <2> SUFFICES ASSUME NEW k \in Kinds PROVE Watched(k)'
    BY Zenon DEF EverWatched
  <2>1. PICK l \in Loops : \/ pc[l] = "setupPub"
                           \/ k = "consumer" /\ pc[l] = "setupCons"
                           \/ hpc[<<l, k>>] # "none" /\ hconn[<<l, k>>] = Current(k)
    BY <1>1, Zenon DEF Watched
  <2> QED
    BY <2>1, Zenon DEF Watched, Current, Handlers
<1>2. CASE ~(\A k \in Kinds : Watched(k))
  BY <1>2, Zenon DEF EverWatched, Closing
<1> QED
  BY <1>1, <1>2, Zenon

(* Every step keeps somebody watching each current connection.             *)
LEMMA WatchStep == TypeInv /\ Control /\ Watch /\ [Next]_vars => Watch'
<1> SUFFICES ASSUME TypeInv, Control, Watch, [Next]_vars PROVE Watch'
  OBVIOUS
<1>0. /\ state \in {"Disconnected", "Connecting", "Connected", "Closing"}
      /\ pc \in [Loops -> LoopPC]
      /\ hpc \in [Handlers -> HandlerPC] /\ hconn \in [Handlers -> 0..MaxConns]
      /\ conn \in [Conns -> {"open", "closed"}]
      /\ \A l \in Loops : pc[l] = "assign" => pubConn[l] \in Conns /\ consConn[l] \in Conns
      /\ Boot \in Loops
  BY ClientAssumption
  DEF TypeInv, PoolTypeOK, ClientTypeOK, LoopTypes, LoopTypeOK, HandlerTypeOK,
      Loops, Boot
<1>c. BootAlone /\ CloseIsKnown /\ ConnectingHasLoop
  BY Zenon DEF Control
<1>w. PointersSet /\ WatchedConns /\ ParkedOnOpen /\ EverWatched
  BY Zenon DEF Watch
<1> USE DEF clientVars, loopVars, handlerVars, amqpVars
<1>f. ASSUME UNCHANGED <<pc, publisherConn, consumerConn, hpc, hconn, conn>>,
             Closing => Closing'
      PROVE  Watch'
  BY <1>w, <1>f, Zenon
  DEF PointersSet, WatchedConns, ParkedOnOpen, EverWatched, Watched, Current,
      Watch
<1>k. ASSUME NEW l \in Loops, NEW to \in InConnect, pc' = [pc EXCEPT ![l] = to],
             UNCHANGED <<hpc, hconn>>, PointersSet',
             \A c \in Conns : conn[c] = "open" => conn'[c] = "open"
      PROVE  Watch'
  <2>1. WatchedConns' /\ ParkedOnOpen'
    BY <1>w, <1>k, Zenon DEF WatchedConns, ParkedOnOpen
  <2>2. EverWatched'
    BY <1>0, <1>k, Zenon DEF EverWatched
  <2> QED
    BY <1>k, <2>1, <2>2, Zenon DEF Watch
<1>1. ASSUME NEW l \in Loops, ConnectStart(l) PROVE Watch'
  <2>1. PointersSet'
    BY <1>0, <1>w, <1>1, Zenon DEF ConnectStart, PointersSet
  <2> QED
    BY <1>k, <1>1, <2>1, Zenon DEF ConnectStart, InConnect
<1>2. ASSUME NEW l \in Loops, DialPublisher(l) PROVE Watch'
  <2>1. PointersSet'
    BY <1>0, <1>w, <1>2, Zenon DEF DialPublisher, PointersSet
  <2>2. \A c \in Conns : conn[c] = "open" => conn'[c] = "open"
    BY <1>0, <1>2, Zenon DEF DialPublisher, Dialled
  <2> QED
    BY <1>k, <1>2, <2>1, <2>2, Zenon DEF DialPublisher, InConnect
<1>3. ASSUME NEW l \in Loops, DialConsumer(l) PROVE Watch'
  <2>1. PointersSet'
    BY <1>0, <1>w, <1>3, Zenon DEF DialConsumer, PointersSet
  <2>2. \A c \in Conns : conn[c] = "open" => conn'[c] = "open"
    BY <1>0, <1>3, Zenon DEF DialConsumer, Dialled
  <2> QED
    BY <1>k, <1>3, <2>1, <2>2, Zenon DEF DialConsumer, InConnect
<1>4. ASSUME NEW l \in Loops, DialPublisherFails(l) PROVE Watch'
  <2>1. PointersSet'
    BY <1>0, <1>4, <1>w, Zenon
    DEF DialPublisherFails, PointersSet, ConnectFails, AfterError
  <2>2. WatchedConns'
    BY <1>0, <1>4, <1>w, Zenon
    DEF DialPublisherFails, WatchedConns, ConnectFails, CloseConnections
  <2>3. ParkedOnOpen'
    BY <1>0, <1>4, <1>w, Zenon
    DEF DialPublisherFails, ParkedOnOpen, WatchedConns, ConnectFails,
        CloseConnections
  <2>4. EverWatched'
    BY <1>0, <1>4, <1>w, Zenon
    DEF DialPublisherFails, EverWatched, Closing, InConnect, ConnectFails,
        AfterError
  <2> QED
    BY <2>1, <2>2, <2>3, <2>4, Zenon DEF Watch
<1>5. ASSUME NEW l \in Loops, DialConsumerFails(l) PROVE Watch'
  <2>1. PointersSet'
    BY <1>0, <1>5, <1>w, Zenon
    DEF DialConsumerFails, PointersSet, ConnectFails, AfterError
  <2>2. WatchedConns'
    BY <1>0, <1>5, <1>w, Zenon
    DEF DialConsumerFails, WatchedConns, ConnectFails, CloseConnections
  <2>3. ParkedOnOpen'
    BY <1>0, <1>5, <1>w, Zenon
    DEF DialConsumerFails, ParkedOnOpen, WatchedConns, ConnectFails,
        CloseConnections
  <2>4. EverWatched'
    BY <1>0, <1>5, <1>w, Zenon
    DEF DialConsumerFails, EverWatched, Closing, InConnect, ConnectFails,
        AfterError
  <2> QED
    BY <2>1, <2>2, <2>3, <2>4, Zenon DEF Watch
<1>6. ASSUME NEW l \in Loops, AssignConnections(l) PROVE Watch'
  <2>1. PointersSet'
    BY <1>0, <1>w, <1>6, <1>c, Zenon
    DEF AssignConnections, PointersSet, BootAlone, InConnect
  <2> QED
    BY <1>k, <1>6, <2>1, Zenon DEF AssignConnections, InConnect
<1>7. ASSUME NEW l \in Loops, ConnectDrains(l) PROVE Watch'
  BY <1>f, <1>7, Zenon
  DEF ConnectDrains, clientVars, loopVars, handlerVars, amqpVars,
      NonPublisherVars, TakeAndClose, Closing
<1>8. ASSUME NEW l \in Loops, ConnectDrained(l) PROVE Watch'
  <2>1. PointersSet'
    BY <1>0, <1>w, <1>8, Zenon DEF ConnectDrained, PointersSet
  <2> QED
    BY <1>k, <1>8, <2>1, Zenon DEF ConnectDrained, InConnect
<1>9. ASSUME NEW l \in Loops, FillOpens(l) PROVE Watch'
  <2>1. PointersSet'
    BY <1>0, <1>w, <1>9, Zenon DEF FillOpens, PointersSet
  <2> QED
    BY <1>k, <1>9, <2>1, Zenon DEF FillOpens, InConnect
<1>10. ASSUME NEW l \in Loops, FillFails(l) PROVE Watch'
  <2>1. PointersSet'
    BY <1>0, <1>10, <1>w, Zenon DEF FillFails, PointersSet, ConnectFails, AfterError
  <2>2. WatchedConns'
    BY <1>0, <1>10, <1>w, Zenon
    DEF FillFails, WatchedConns, ConnectFails, CloseConnections
  <2>3. ParkedOnOpen'
    BY <1>0, <1>10, <1>w, Zenon
    DEF FillFails, ParkedOnOpen, WatchedConns, ConnectFails, CloseConnections
  <2>4. EverWatched'
    BY <1>0, <1>10, <1>w, Zenon
    DEF FillFails, EverWatched, Closing, InConnect, ConnectFails, AfterError
  <2> QED
    BY <2>1, <2>2, <2>3, <2>4, Zenon DEF Watch
<1>11. ASSUME NEW l \in Loops, FillSends(l) PROVE Watch'
  <2>1. CASE UNCHANGED pc
    BY <1>f, <1>11, <2>1, Zenon DEF FillSends, Closing
  <2>2. CASE pc' = [pc EXCEPT ![l] = "fill"]
    <3>1. PointersSet'
      BY <1>0, <1>w, <1>11, <2>2, Zenon DEF FillSends, PointersSet
    <3> QED
      BY <1>k, <1>11, <2>2, <3>1, Zenon DEF FillSends, InConnect
  <2> QED
    BY <1>11, <2>1, <2>2, Zenon DEF FillSends
<1>12. ASSUME NEW l \in Loops, FillReturns(l) PROVE Watch'
  <2>1. PointersSet'
    BY <1>0, <1>w, <1>12, Zenon DEF FillReturns, PointersSet
  <2> QED
    BY <1>k, <1>12, <2>1, Zenon DEF FillReturns, InConnect
<1>13. ASSUME NEW l \in Loops, SetConnected(l) PROVE Watch'
  <2>1. PointersSet'
    BY <1>0, <1>13, <1>w, Zenon DEF SetConnected, PointersSet
  <2>2. WatchedConns'
    BY <1>0, <1>13, <1>w, Zenon DEF SetConnected, WatchedConns
  <2>3. ParkedOnOpen'
    BY <1>0, <1>13, <1>w, Zenon DEF SetConnected, ParkedOnOpen, WatchedConns
  <2>4. EverWatched'
    BY <1>0, <1>13, <1>w, Zenon
    DEF SetConnected, EverWatched, Watched, Current, Kinds, Handlers, Closing,
        InConnect
  <2> QED
    BY <2>1, <2>2, <2>3, <2>4, Zenon DEF Watch
<1>14. ASSUME NEW l \in Loops, SetupPublisherHandler(l) PROVE Watch'
  <2>1. PointersSet'
    BY <1>0, <1>14, <1>w, <1>c, Zenon
    DEF SetupPublisherHandler, PointersSet, BootAlone, InConnect
  <2>2. WatchedConns'
    BY <1>0, <1>14, <1>w, <1>c, Zenon
    DEF SetupPublisherHandler, WatchedConns, PointersSet, BootAlone, InConnect,
        StartHandler
  <2>3. ParkedOnOpen'
    BY <1>0, <1>14, <1>w, Zenon
    DEF SetupPublisherHandler, ParkedOnOpen, WatchedConns, StartHandler
  <2>4. EverWatched'
    BY <1>0, <1>14, <1>w, SMTT(20)
    DEF SetupPublisherHandler, EverWatched, Watched, Current, Kinds, Handlers,
        Closing, InConnect, StartHandler
  <2> QED
    BY <2>1, <2>2, <2>3, <2>4, Zenon DEF Watch
<1>15. ASSUME NEW l \in Loops, SetupConsumerHandler(l) PROVE Watch'
  <2>1. PointersSet'
    BY <1>0, <1>15, <1>w, <1>c, Zenon
    DEF SetupConsumerHandler, PointersSet, BootAlone, InConnect, Ended
  <2>2. WatchedConns'
    BY <1>0, <1>15, <1>w, <1>c, Zenon
    DEF SetupConsumerHandler, WatchedConns, PointersSet, BootAlone, InConnect,
        StartHandler
  <2>3. ParkedOnOpen'
    BY <1>0, <1>15, <1>w, Zenon
    DEF SetupConsumerHandler, ParkedOnOpen, WatchedConns, StartHandler
  <2>4. EverWatched'
    <3>1. CASE \E m \in Loops : pc[m] \in InConnect
      BY <1>0, <1>15, <3>1, Zenon DEF SetupConsumerHandler, EverWatched, InConnect
    <3>2. CASE \A k \in Kinds : Watched(k)
      <4>1. Watched("consumer")'
        BY <1>0, <1>15, Zenon
        DEF SetupConsumerHandler, StartHandler, Watched, Current, Handlers, Kinds
      <4>2. PICK m \in Loops : \/ pc[m] = "setupPub"
                              \/ /\ hpc[<<m, "publisher">>] # "none"
                                 /\ hconn[<<m, "publisher">>] = publisherConn
        BY <3>2, Zenon DEF Watched, Current, Kinds
      <4>3. Watched("publisher")'
        <5>1. /\ hpc'[<<m, "publisher">>] = hpc[<<m, "publisher">>]
              /\ hconn'[<<m, "publisher">>] = hconn[<<m, "publisher">>]
              /\ UNCHANGED publisherConn
          BY <1>0, <1>15, Zenon DEF SetupConsumerHandler, StartHandler, Handlers, Kinds
        <5>2. pc[m] = "setupPub" => pc'[m] = "setupPub"
          BY <1>0, <1>15, Zenon DEF SetupConsumerHandler
        <5> QED
          BY <4>2, <5>1, <5>2, Zenon DEF Watched, Current
      <4> QED
        BY <4>1, <4>3, Zenon DEF EverWatched, Kinds
    <3>3. CASE Closing \/ pc[Boot] = "failed"
      BY <1>0, <1>15, <3>3, Zenon DEF SetupConsumerHandler, EverWatched, Closing
    <3> QED
      BY <1>w, <3>1, <3>2, <3>3, Zenon DEF EverWatched
  <2> QED
    BY <2>1, <2>2, <2>3, <2>4, Zenon DEF Watch
<1>16. ASSUME NEW l \in Loops, BackoffClosed(l) PROVE Watch'
  <2>1. PointersSet'
    BY <1>0, <1>16, <1>w, Zenon DEF BackoffClosed, PointersSet
  <2>2. WatchedConns'
    BY <1>0, <1>16, <1>w, Zenon DEF BackoffClosed, WatchedConns
  <2>3. ParkedOnOpen'
    BY <1>0, <1>16, <1>w, Zenon DEF BackoffClosed, ParkedOnOpen, WatchedConns
  <2>4. EverWatched'
    BY <1>0, <1>16, <1>w, <1>c, Zenon
    DEF BackoffClosed, EverWatched, Closing, InConnect, CloseIsKnown
  <2> QED
    BY <2>1, <2>2, <2>3, <2>4, Zenon DEF Watch
<1>17. ASSUME NEW l \in Loops, BackoffElapsed(l) PROVE Watch'
  <2>1. PointersSet'
    BY <1>0, <1>17, <1>w, Zenon DEF BackoffElapsed, PointersSet
  <2>2. WatchedConns'
    BY <1>0, <1>17, <1>w, Zenon DEF BackoffElapsed, WatchedConns
  <2>3. ParkedOnOpen'
    BY <1>0, <1>17, <1>w, Zenon DEF BackoffElapsed, ParkedOnOpen, WatchedConns
  <2>4. EverWatched'
    BY <1>0, <1>17, <1>w, <1>c, Zenon
    DEF BackoffElapsed, EverWatched, Closing, InConnect, CloseIsKnown
  <2> QED
    BY <2>1, <2>2, <2>3, <2>4, Zenon DEF Watch
<1>18. ASSUME NEW h \in Handlers, HandlerSelects(h) PROVE Watch'
  <2>1. PointersSet'
    BY <1>0, <1>18, <1>w, Zenon DEF HandlerSelects, PointersSet
  <2>2. WatchedConns'
    BY <1>0, <1>18, <1>w, Zenon
    DEF HandlerSelects, WatchedConns, EndHandlers, OnAlreadyClosed
  <2>3. ParkedOnOpen'
    BY <1>0, <1>18, <1>w, Zenon
    DEF HandlerSelects, ParkedOnOpen, WatchedConns, EndHandlers, OnAlreadyClosed
  <2>4. EverWatched'
    <3>1. CASE closeChan
      BY <1>c, <1>18, <3>1, Zenon
      DEF HandlerSelects, CloseIsKnown, EverWatched, Closing
    <3>2. CASE ~closeChan
      <4>1. UNCHANGED <<pc, publisherConn, consumerConn, hconn, kpc>>
        BY <1>18, <3>2, Zenon DEF HandlerSelects, OnAlreadyClosed
      <4>2. \A g \in Handlers : hpc[g] # "none" => hpc'[g] # "none"
        BY <1>0, <1>18, <3>2, Zenon DEF HandlerSelects, OnAlreadyClosed
      <4> QED
        BY <4>1, <4>2, <1>w, WatchersStay, Zenon
    <3> QED
      BY <3>1, <3>2, Zenon
  <2> QED
    BY <2>1, <2>2, <2>3, <2>4, Zenon DEF Watch
<1>19. ASSUME NEW h \in Handlers, HandlerDrains(h) PROVE Watch'
  BY <1>f, <1>19, Zenon
  DEF HandlerDrains, clientVars, loopVars, handlerVars, amqpVars,
      NonPublisherVars, TakeAndClose, Closing
<1>20. ASSUME NEW h \in Handlers, HandlerDrained(h) PROVE Watch'
  <2>1. PointersSet'
    BY <1>0, <1>20, <1>w, Zenon DEF HandlerDrained, PointersSet
  <2>2. WatchedConns'
    BY <1>0, <1>20, <1>w, Zenon DEF HandlerDrained, WatchedConns
  <2>3. ParkedOnOpen'
    BY <1>0, <1>20, <1>w, Zenon DEF HandlerDrained, ParkedOnOpen, WatchedConns
  <2>4. EverWatched'
    <3>1. UNCHANGED <<pc, publisherConn, consumerConn, hconn, kpc>>
      BY <1>20, Zenon DEF HandlerDrained
    <3>2. \A g \in Handlers : hpc[g] # "none" => hpc'[g] # "none"
      BY <1>0, <1>20, Zenon DEF HandlerDrained
    <3> QED
      BY <1>w, <3>1, <3>2, WatchersStay , Zenon
  <2> QED
    BY <2>1, <2>2, <2>3, <2>4, Zenon DEF Watch
<1>21. ASSUME NEW h \in Handlers, TriggerReconnect(h) PROVE Watch'
  <2>1. PointersSet'
    BY <1>0, <1>21, <1>w, <1>c, Zenon
    DEF TriggerReconnect, PointersSet, BootAlone, InConnect, FreeLoop
  <2>2. WatchedConns'
    BY <1>0, <1>21, <1>w, <1>c, Zenon
    DEF TriggerReconnect, WatchedConns, PointersSet, BootAlone, InConnect,
        EndHandlers
  <2>3. ParkedOnOpen'
    BY <1>0, <1>21, <1>w, Zenon
    DEF TriggerReconnect, ParkedOnOpen, WatchedConns, EndHandlers
  <2>4. EverWatched'
    <3>1. CASE MayReconnect
      <4>1. PICK l \in Loops : pc' = [pc EXCEPT ![l] = "backoff"]
        BY <1>21, <3>1, Zenon DEF TriggerReconnect
      <4>2. pc'[l] \in InConnect
        BY <1>0, <4>1, Zenon DEF InConnect
      <4> QED
        BY <4>2, Zenon DEF EverWatched
    <3>2. CASE ~MayReconnect
      <4>1. state \in {"Connecting", "Closing"}
        BY <1>0, <3>2, Zenon DEF MayReconnect
      <4>2. UNCHANGED <<pc, kpc>>
        BY <1>21, <3>2, Zenon DEF TriggerReconnect
      <4> QED
        BY <1>c, <4>1, <4>2, Zenon
        DEF EverWatched, CloseIsKnown, ConnectingHasLoop, Closing
    <3> QED
      BY <3>1, <3>2, Zenon
  <2> QED
    BY <2>1, <2>2, <2>3, <2>4, Zenon DEF Watch
<1>22. ASSUME NEW p \in Publishers, PublishStart(p) PROVE Watch'
  BY <1>f, <1>22, Zenon
  DEF PublishStart, clientVars, loopVars, handlerVars, amqpVars,
      NonPublisherVars, TakeAndClose, Closing
<1>23. ASSUME NEW p \in Publishers, PublishRetry(p) PROVE Watch'
  BY <1>f, <1>23, Zenon
  DEF PublishRetry, clientVars, loopVars, handlerVars, amqpVars,
      NonPublisherVars, TakeAndClose, Closing
<1>24. ASSUME NEW p \in Publishers, PublishCancelled(p) PROVE Watch'
  BY <1>f, <1>24, Zenon
  DEF PublishCancelled, clientVars, loopVars, handlerVars, amqpVars,
      NonPublisherVars, TakeAndClose, Closing
<1>25. ASSUME NEW p \in Publishers, GetChecks(p) PROVE Watch'
  BY <1>f, <1>25, Zenon
  DEF GetChecks, clientVars, loopVars, handlerVars, amqpVars, NonPublisherVars,
      TakeAndClose, Closing
<1>26. ASSUME NEW p \in Publishers, GetReceives(p) PROVE Watch'
  BY <1>f, <1>26, Zenon
  DEF GetReceives, clientVars, loopVars, handlerVars, amqpVars,
      NonPublisherVars, TakeAndClose, Closing
<1>27. ASSUME NEW p \in Publishers, Publish(p) PROVE Watch'
  BY <1>f, <1>27, Zenon
  DEF Publish, clientVars, loopVars, handlerVars, amqpVars, NonPublisherVars,
      TakeAndClose, Closing
<1>28. ASSUME NEW p \in Publishers, ReturnChecks(p) PROVE Watch'
  BY <1>f, <1>28, Zenon
  DEF ReturnChecks, clientVars, loopVars, handlerVars, amqpVars,
      NonPublisherVars, TakeAndClose, Closing
<1>29. ASSUME NEW p \in Publishers, ReturnSelects(p) PROVE Watch'
  BY <1>f, <1>29, Zenon
  DEF ReturnSelects, clientVars, loopVars, handlerVars, amqpVars,
      NonPublisherVars, TakeAndClose, Closing
<1>30. ASSUME CloseStart PROVE Watch'
  <2>1. PointersSet'
    BY <1>0, <1>30, <1>w, Zenon DEF CloseStart, PointersSet
  <2>2. WatchedConns'
    BY <1>0, <1>30, <1>w, Zenon DEF CloseStart, WatchedConns
  <2>3. ParkedOnOpen'
    BY <1>0, <1>30, <1>w, Zenon DEF CloseStart, ParkedOnOpen, WatchedConns
  <2>4. EverWatched'
    BY <1>0, <1>30, <1>w, Zenon DEF CloseStart, EverWatched, Closing, InConnect
  <2> QED
    BY <2>1, <2>2, <2>3, <2>4, Zenon DEF Watch
<1>31. ASSUME CloseSignal PROVE Watch'
  <2>1. PointersSet'
    BY <1>0, <1>31, <1>w, Zenon DEF CloseSignal, PointersSet
  <2>2. WatchedConns'
    BY <1>0, <1>31, <1>w, Zenon DEF CloseSignal, WatchedConns, EndHandlers
  <2>3. ParkedOnOpen'
    BY <1>0, <1>31, <1>w, Zenon DEF CloseSignal, ParkedOnOpen, WatchedConns, EndHandlers
  <2>4. EverWatched'
    BY <1>0, <1>31, <1>w, Zenon
    DEF CloseSignal, EverWatched, Closing, InConnect, EndHandlers
  <2> QED
    BY <2>1, <2>2, <2>3, <2>4, Zenon DEF Watch
<1>32. ASSUME ClosePoolFlag PROVE Watch'
  BY <1>f, <1>32, Zenon
  DEF ClosePoolFlag, clientVars, loopVars, handlerVars, amqpVars,
      NonPublisherVars, TakeAndClose, Closing
<1>33. ASSUME ClosePoolChannel PROVE Watch'
  BY <1>f, <1>33, Zenon
  DEF ClosePoolChannel, clientVars, loopVars, handlerVars, amqpVars,
      NonPublisherVars, TakeAndClose, Closing
<1>34. ASSUME ClosePoolItems PROVE Watch'
  BY <1>f, <1>34, Zenon
  DEF ClosePoolItems, clientVars, loopVars, handlerVars, amqpVars,
      NonPublisherVars, TakeAndClose, Closing
<1>35. ASSUME CloseCurrent PROVE Watch'
  <2>1. PointersSet'
    BY <1>0, <1>35, <1>w, Zenon DEF CloseCurrent, PointersSet
  <2>2. WatchedConns'
    BY <1>0, <1>35, <1>w, Zenon DEF CloseCurrent, WatchedConns, CloseConnections
  <2>3. ParkedOnOpen'
    BY <1>0, <1>35, <1>w, Zenon
    DEF CloseCurrent, ParkedOnOpen, WatchedConns, CloseConnections
  <2>4. EverWatched'
    BY <1>0, <1>35, <1>w, Zenon
    DEF CloseCurrent, EverWatched, Closing, InConnect, CloseConnections
  <2> QED
    BY <2>1, <2>2, <2>3, <2>4, Zenon DEF Watch
<1>36. ASSUME LoseConnections PROVE Watch'
  <2>1. PointersSet'
    BY <1>0, <1>36, <1>w, Zenon DEF LoseConnections, PointersSet
  <2>2. WatchedConns'
    BY <1>0, <1>36, <1>w, Zenon DEF LoseConnections, WatchedConns, CloseConnections
  <2>3. ParkedOnOpen'
    BY <1>0, <1>36, <1>w, SMTT(20)
    DEF LoseConnections, ParkedOnOpen, WatchedConns, CloseConnections
  <2>4. EverWatched'
    <3>1. UNCHANGED <<pc, publisherConn, consumerConn, hconn, kpc>>
      BY <1>36, Zenon DEF LoseConnections
    <3>2. \A g \in Handlers : hpc[g] # "none" => hpc'[g] # "none"
      BY <1>0, <1>36, Zenon DEF LoseConnections, CloseConnections
    <3> QED
      BY <3>1, <3>2, <1>w, WatchersStay, Zenon
  <2> QED
    BY <2>1, <2>2, <2>3, <2>4, Zenon DEF Watch
<1>37. ASSUME PooledChannelDies PROVE Watch'
  BY <1>f, <1>37, Zenon
  DEF PooledChannelDies, clientVars, loopVars, handlerVars, amqpVars,
      NonPublisherVars, TakeAndClose, Closing
<1>38. CASE UNCHANGED vars
  BY <1>f, <1>38, Zenon DEF vars, Closing
<1> QED
  BY <1>1, <1>2, <1>3, <1>4, <1>5, <1>6, <1>7, <1>8, <1>9, <1>10, <1>11,
     <1>12, <1>13, <1>14, <1>15, <1>16, <1>17, <1>18, <1>19, <1>20, <1>21, <1>22,
     <1>23, <1>24, <1>25, <1>26, <1>27, <1>28, <1>29, <1>30, <1>31, <1>32, <1>33,
     <1>34, <1>35, <1>36, <1>37, <1>38
  DEF Next, LoopStep, HandlerStep, CloseStep, PublishStep, vars

-----------------------------------------------------------------------------
(* The theorems.                                                           *)
IInv == TypeInv /\ Control /\ Watch

(* The state NewClient starts from satisfies the invariant.                *)
LEMMA InitIInv == Init => IInv
<1> SUFFICES ASSUME Init PROVE IInv
  OBVIOUS
<1>1. TypeInv
  <2>1. PoolTypeOK
    <3>1. channels \in Seq(Channel) /\ Len(channels) <= PoolSize
      BY PoolAssumption DEF Init, PoolInit
    <3>2. conn \in [Conns -> {"open", "closed"}] /\ chans \in [Conns -> Int]
      BY DEF Init, PoolInit
    <3>3. poolClosed \in BOOLEAN /\ chanClosed \in BOOLEAN /\ panicked \in BOOLEAN
      BY Zenon DEF Init, PoolInit
    <3> QED
      BY <3>1, <3>2, <3>3, Zenon DEF PoolTypeOK
  <2>2. LoopTypes
    BY PoolAssumption DEF Init, LoopTypes, LoopTypeOK, LoopPC, InConnect
  <2>3. ClientTypeOK
    <3>1. closeChan \in BOOLEAN
      BY Zenon DEF Init
    <3> QED
      BY <3>1, PoolAssumption, ClientAssumption DEF Init, ClientTypeOK
  <2>4. HandlerTypeOK
    BY PoolAssumption DEF Init, HandlerTypeOK, HandlerPC
  <2>5. PublisherTypes
    BY Zenon DEF Init, PublisherTypes, PublisherTypeOK
  <2> QED
    BY <2>1, <2>2, <2>3, <2>4, <2>5, Zenon DEF TypeInv
<1>2. Boot \in Loops
  BY ClientAssumption DEF Boot, Loops
<1>3. Control
  BY <1>2, Zenon DEF Init, Control, SingleConnector, Exclusive, ConnectingHasLoop,
          CloseIsKnown, BootAlone, Closing, InConnect
<1>4. Watch
  BY <1>2, Zenon
  DEF Init, Watch, PointersSet, WatchedConns, ParkedOnOpen, EverWatched, InConnect
<1> QED
  BY <1>1, <1>3, <1>4, Zenon DEF IInv

(* The inductive invariant holds in every reachable state of a client, for *)
(* any number of publishers, any pool size and any number of failures.     *)
THEOREM Invariance == Spec => []IInv
<1>1. IInv /\ [Next]_vars => IInv'
  BY TypeStep, ControlStep, WatchStep, Zenon DEF IInv
<1> QED
  BY InitIInv, <1>1, PTL DEF Spec

(* Every variable keeps its type, and the pool never holds more channels   *)
(* than its capacity.                                                      *)
THEOREM TypeCorrect == Spec => []TypeOK
<1>1. IInv => TypeOK
  BY Zenon DEF IInv, TypeInv, TypeOK, LoopTypes, PublisherTypes
<1> QED
  BY Invariance, <1>1, PTL

(* At most one goroutine at a time is connecting: the compare-and-swap of  *)
(* triggerReconnect is enough, whatever handlers are left over from older  *)
(* connections and wherever Close interferes.                              *)
THEOREM OneConnector == Spec => []SingleConnector
<1>1. IInv => SingleConnector
  BY Zenon DEF IInv, Control
<1> QED
  BY Invariance, <1>1, PTL

(* A connection that is lost while the client is connected always has a    *)
(* goroutine on its way to triggerReconnect.                               *)
THEOREM LossNoticed == Spec => []LossIsNoticed
<1>1. IInv => LossIsNoticed
  <2> SUFFICES ASSUME IInv, state = "Connected", ~Closing, NEW k \in Kinds,
                      conn[Current(k)] # "open"
               PROVE  \E l \in Loops :
                        \/ pc[l] \in {"setupPub", "setupCons"}
                        \/ /\ hconn[<<l, k>>] = Current(k)
                           /\ hpc[<<l, k>>] \in {"start", "drain", "trigger"}
    BY Zenon DEF LossIsNoticed
  <2>1. \A l \in Loops : pc[l] \notin InConnect
    BY Zenon DEF IInv, Control, Exclusive
  <2>2. pc[Boot] # "failed"
    BY Zenon DEF IInv, Control, BootAlone
  <2>3. PICK l \in Loops :
          \/ pc[l] = "setupPub"
          \/ k = "consumer" /\ pc[l] = "setupCons"
          \/ hpc[<<l, k>>] # "none" /\ hconn[<<l, k>>] = Current(k)
    BY <2>1, <2>2, Zenon DEF IInv, Watch, EverWatched, Watched
  <2>4. <<l, k>> \in Handlers
    BY Zenon DEF Handlers
  <2>5. hpc[<<l, k>>] \in HandlerPC
    BY <2>4, Zenon DEF IInv, TypeInv, HandlerTypeOK
  <2>6. hpc[<<l, k>>] = "wait" => conn[hconn[<<l, k>>]] = "open"
    BY <2>4, Zenon DEF IInv, Watch, ParkedOnOpen
  <2> QED
    BY <2>3, <2>5, <2>6, Zenon DEF HandlerPC
<1> QED
  BY Invariance, <1>1, PTL

-----------------------------------------------------------------------------
(* The client gives up only when it is closed.                             *)
Stopped == state \in {"Disconnected", "Closing"} => Closing

(* Somebody takes care of the connections: the client is connected, or a   *)
(* goroutine is connecting it.                                             *)
Attended ==
  \/ Closing
  \/ pc[Boot] = "failed"
  \/ state = "Connected"
  \/ state = "Connecting" /\ \E l \in Loops : pc[l] \in InConnect

(* StateDisconnected is stored only after Close was called.                *)
LEMMA StoppedStep == Control /\ Stopped /\ [Next]_vars => Stopped'
<1> SUFFICES ASSUME Control, Stopped, [Next]_vars PROVE Stopped'
  OBVIOUS
<1>1. ASSUME Closing, UNCHANGED kpc PROVE Stopped'
  BY <1>1, Zenon DEF Stopped, Closing
<1>2. ASSUME UNCHANGED <<kpc, state>> PROVE Stopped'
  BY <1>2, Zenon DEF Stopped, Closing
<1>3. ASSUME NEW l \in Loops, LoopStep(l) PROVE Stopped'
  <2>1. CASE ConnectStart(l) \/ SetConnected(l)
    BY <2>1, Zenon DEF ConnectStart, SetConnected, Stopped
  <2>2. CASE BackoffClosed(l) \/ BackoffElapsed(l)
    <3>1. kpc' = kpc /\ (state' = state \/ closeChan \/ state = "Closing")
      BY <2>2, Zenon DEF BackoffClosed, BackoffElapsed
    <3> QED
      BY <1>1, <1>2, <3>1, Zenon DEF Control, CloseIsKnown
  <2>3. CASE ~(ConnectStart(l) \/ SetConnected(l) \/ BackoffClosed(l) \/ BackoffElapsed(l))
    <3>1. UNCHANGED <<kpc, state>>
      BY <1>3, <2>3, Zenon
      DEF LoopStep, DialPublisher, DialConsumer, DialPublisherFails, DialConsumerFails,
          AssignConnections, ConnectDrains, ConnectDrained, FillOpens, FillFails, FillSends,
          FillReturns, SetupPublisherHandler, SetupConsumerHandler, ConnectFails, clientVars
    <3> QED
      BY <1>2, <3>1, Zenon
  <2> QED
    BY <2>1, <2>2, <2>3, Zenon
<1>4. ASSUME NEW h \in Handlers, HandlerStep(h) PROVE Stopped'
  <2>1. CASE TriggerReconnect(h)
    <3>1. kpc' = kpc /\ (state' = state \/ state' = "Connecting")
      BY <2>1, Zenon DEF TriggerReconnect
    <3> QED
      BY <1>2, <3>1, Zenon DEF Stopped
  <2>2. CASE HandlerSelects(h) \/ HandlerDrains(h) \/ HandlerDrained(h)
    BY <1>2, <2>2, Zenon DEF HandlerSelects, HandlerDrains, HandlerDrained, clientVars
  <2> QED
    BY <1>4, <2>1, <2>2, Zenon DEF HandlerStep
<1>5. CASE CloseStart \/ CloseStep
  <2>1. kpc' # "idle"
    BY <1>5, Zenon
    DEF CloseStart, CloseStep, CloseSignal, ClosePoolFlag, ClosePoolChannel, ClosePoolItems,
        CloseCurrent
  <2> QED
    BY <2>1, Zenon DEF Stopped, Closing
<1>6. ASSUME \/ LoseConnections \/ PooledChannelDies \/ UNCHANGED vars
             \/ \E p \in Publishers :
                  \/ PublishStart(p) \/ PublishCancelled(p) \/ Publish(p) \/ PublishStep(p)
      PROVE  UNCHANGED <<kpc, state>>
  BY <1>6, Zenon
  DEF LoseConnections, PooledChannelDies, PublishStart, PublishCancelled, Publish, PublishStep,
      PublishRetry, GetChecks, GetReceives, ReturnChecks, ReturnSelects, NonPublisherVars,
      clientVars, vars
<1> QED
  BY <1>2, <1>3, <1>4, <1>5, <1>6, Zenon DEF Next

(* Reconnection is never abandoned: unless NewClient failed or Close was   *)
(* called, a client that is not connected has a goroutine in connect or    *)
(* about to retry it, whatever dials and channels have failed.             *)
THEOREM NeverAbandoned == Spec => []Attended
<1>1. Init => Stopped
  BY Zenon DEF Init, Stopped
<1>2. IInv /\ Stopped /\ [Next]_vars => Stopped'
  BY StoppedStep, Zenon DEF IInv
<1>3. IInv /\ Stopped => Attended
  BY Zenon DEF IInv, TypeInv, ClientTypeOK, Control, ConnectingHasLoop, Stopped, Attended
<1> QED
  BY Invariance, <1>1, <1>2, <1>3, PTL DEF Spec
=============================================================================
