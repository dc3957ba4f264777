------------------------- MODULE ChannelPoolProofs --------------------------
(***************************************************************************)
(* The channel pool under the client, for any finite set of publishers,    *)
(* any pool size and any bounds: ChannelsBounded, ClosedPoolStaysEmpty and *)
(* NoChannelLeak.                                                          *)
(***************************************************************************)
EXTENDS RabbitClientProofs, FiniteSetTheorems

(* A new connection carries no more channels than fill has opened on it.   *)
Dialling == {"dialCons", "assign", "drain"}
FillInv(l) ==
  /\ filled[l] \in 0..PoolSize
  /\ pc[l] \notin {"fill", "send"} => filled[l] = 0
  /\ pc[l] = "send" => filled[l] < PoolSize
  /\ pc[l] \in Dialling \cup {"fill"} => chans[pubConn[l]] <= filled[l]
  /\ pc[l] = "send" => chans[pubConn[l]] <= filled[l] + 1

(* A connection that is not open has no channels.                          *)
ConnInv(c) == chans[c] <= PoolSize /\ (conn[c] # "open" => chans[c] <= 0)

Bounds == (\A l \in Loops : FillInv(l)) /\ (\A c \in Conns : ConnInv(c))

-----------------------------------------------------------------------------
(* Nothing is opened: a connection's channels are closed one at a time, or *)
(* all of them with the connection.                                        *)
NoGrowth ==
  \A c \in Conns :
    /\ chans'[c] <= chans[c] \/ chans'[c] <= 0
    /\ \/ conn'[c] = "open"
       \/ conn[c] # "open" /\ chans'[c] = chans[c]
       \/ chans'[c] <= 0

(* Loop l stays where it is.                                               *)
Stays(l) == pc'[l] = pc[l] /\ pubConn'[l] = pubConn[l] /\ filled'[l] = filled[l]

(* Where nothing is opened, connections keep their bound,                  *)
LEMMA ConnsKeep ==
  ASSUME TypeInv, TypeInv', Bounds, NoGrowth, NEW c \in Conns
  PROVE  ConnInv(c)'
<1>1. chans[c] \in Int /\ chans'[c] \in Int /\ PoolSize \in Nat
  BY PoolAssumption, Zenon DEF TypeInv, PoolTypeOK
<1> QED
  BY <1>1 DEF Bounds, ConnInv, NoGrowth

(* and so does a loop that stays where it is.                              *)
LEMMA LoopKeeps ==
  ASSUME TypeInv, TypeInv', Bounds, NoGrowth, NEW l \in Loops, Stays(l)
  PROVE  FillInv(l)'
<1>1. CASE pc[l] \in Dialling \cup {"fill", "send"}
  <2>1. pubConn[l] \in Conns
    BY <1>1, Zenon DEF TypeInv, LoopTypes, Dialling
  <2>2. /\ chans[pubConn[l]] \in Int /\ chans'[pubConn[l]] \in Int
        /\ filled[l] \in Nat
    BY <2>1, Zenon DEF TypeInv, PoolTypeOK, LoopTypes, LoopTypeOK
  <2>3. chans'[pubConn[l]] <= chans[pubConn[l]] \/ chans'[pubConn[l]] <= 0
    BY <2>1, Zenon DEF NoGrowth
  <2> QED
    BY <2>2, <2>3 DEF Bounds, FillInv, Stays
<1>2. CASE pc[l] \notin Dialling \cup {"fill", "send"}
  BY <1>2, Zenon DEF Bounds, FillInv, Stays
<1> QED
  BY <1>1, <1>2, Zenon

(* A step that opens nothing and moves no loop, or one.                    *)
LEMMA BoundsShrink ==
  ASSUME TypeInv, TypeInv', Bounds, NoGrowth, \A l \in Loops : Stays(l) \/ FillInv(l)'
  PROVE  Bounds'
<1>1. \A l \in Loops : FillInv(l)'
  BY LoopKeeps, Zenon
<1>2. \A c \in Conns : ConnInv(c)'
  BY ConnsKeep, Zenon
<1> QED
  BY <1>1, <1>2, Zenon DEF Bounds

(* ch.Close opens nothing,                                                 *)
LEMMA CloseChannelShrinks ==
  ASSUME TypeInv, NEW ch \in Channel, CloseChannel(ch), conn' = conn
  PROVE  NoGrowth
<1>1. chans \in [Conns -> Int] /\ ch.conn \in Conns
  BY Zenon DEF TypeInv, PoolTypeOK, Channel
<1>2. \/ chans' = chans
      \/ conn[ch.conn] = "open" /\ chans' = [chans EXCEPT ![ch.conn] = @ - 1]
  BY Zenon DEF CloseChannel, IsClosed
<1> QED
  BY <1>1, <1>2 DEF NoGrowth

(* nor does a receive of drain or close,                                   *)
LEMMA TakeShrinks == TypeInv /\ TakeAndClose => NoGrowth
<1> SUFFICES ASSUME TypeInv, TakeAndClose PROVE NoGrowth
  OBVIOUS
<1>1. Head(channels) \in Channel
  BY ReceiveType, Zenon DEF TypeInv, TakeAndClose
<1> QED
  BY <1>1, CloseChannelShrinks, Zenon DEF TakeAndClose

(* nor the end of some connections,                                        *)
LEMMA ConnectionsShrink ==
  ASSUME TypeInv, NEW C, CloseConnections(C)
  PROVE  NoGrowth
BY DEF TypeInv, PoolTypeOK, CloseConnections, NoGrowth

(* nor a step that leaves the channels alone.                              *)
LEMMA NothingGrows ==
  ASSUME TypeInv, chans' = chans, \A c \in Conns : conn'[c] = "open" \/ conn'[c] = conn[c]
  PROVE  NoGrowth
BY DEF TypeInv, PoolTypeOK, NoGrowth

(* Every step keeps the channels of a connection within the pool size.     *)
LEMMA BoundsStep == TypeInv /\ TypeInv' /\ Control /\ Bounds /\ [Next]_vars => Bounds'
<1> SUFFICES ASSUME TypeInv, TypeInv', Control, Bounds, [Next]_vars PROVE Bounds'
  OBVIOUS
<1>0. /\ pc \in [Loops -> LoopPC] /\ filled \in [Loops -> Nat]
      /\ pubConn \in [Loops -> 0..MaxConns] /\ PoolSize \in Nat
      /\ conn \in [Conns -> {"open", "closed"}] /\ chans \in [Conns -> Int]
      /\ \A l \in Loops : FillInv(l)
  BY PoolAssumption, Zenon DEF TypeInv, PoolTypeOK, LoopTypes, LoopTypeOK, Bounds
<1> USE DEF amqpVars, loopVars
<1>1. ASSUME UNCHANGED <<pc, pubConn, filled>>, NoGrowth PROVE Bounds'
  BY <1>1, BoundsShrink, Zenon DEF Stays
<1>2. ASSUME NEW l \in Loops, NEW to, pc' = [pc EXCEPT ![l] = to], chans' = chans,
             UNCHANGED <<conn, pubConn, filled>>,
             \/ to \notin Dialling \cup {"fill", "send"} /\ pc[l] \notin {"fill", "send"}
             \/ pc[l] \in Dialling /\ to \in Dialling \cup {"fill"}
      PROVE  Bounds'
  <2>1. \A k \in Loops : Stays(k) \/ FillInv(k)'
    BY <1>0, <1>2, Zenon DEF FillInv, Stays, Dialling
  <2>2. NoGrowth
    BY <1>2, NothingGrows, Zenon
  <2> QED
    BY <2>1, <2>2, BoundsShrink, Zenon
<1>3. ASSUME NEW l \in Loops, NEW C, ConnectFails(l, C) PROVE Bounds'
  <2>1. \A k \in Loops : Stays(k) \/ FillInv(k)'
    BY <1>0, <1>3 DEF ConnectFails, AfterError, FillInv, Stays, Dialling
  <2>2. NoGrowth
    BY <1>3, ConnectionsShrink, Zenon DEF ConnectFails
  <2> QED
    BY <2>1, <2>2, BoundsShrink, Zenon
<1>4. ASSUME NEW l \in Loops, DialPublisher(l) PROVE Bounds'
  <2>1. PICK c \in Conns : Dialled(c) /\ pubConn' = [pubConn EXCEPT ![l] = c]
    BY <1>4, Zenon DEF DialPublisher
  <2>2. chans[c] <= 0
    BY <2>1 DEF Dialled, Unused, Bounds, ConnInv
  <2>3. \A k \in Loops : Stays(k) \/ FillInv(k)'
    BY <1>0, <1>4, <2>1, <2>2, Zenon DEF DialPublisher, FillInv, Stays, Dialling
  <2>4. NoGrowth
    BY <1>0, <1>4, <2>1, NothingGrows DEF DialPublisher, Dialled
  <2> QED
    BY <2>3, <2>4, BoundsShrink, Zenon
<1>5. ASSUME NEW l \in Loops, DialConsumer(l) PROVE Bounds'
  <2>1. \A k \in Loops : Stays(k) \/ FillInv(k)'
    BY <1>0, <1>5 DEF DialConsumer, FillInv, Stays, Dialling
  <2>2. NoGrowth
    BY <1>0, <1>5, NothingGrows DEF DialConsumer, Dialled
  <2> QED
    BY <2>1, <2>2, BoundsShrink
<1>6. ASSUME NEW l \in Loops, FillOpens(l) PROVE Bounds'
  <2>1. pubConn[l] \in Conns
    BY <1>6 DEF FillOpens, TypeInv, LoopTypes
  <2>2. /\ chans[pubConn[l]] <= filled[l] /\ filled[l] < PoolSize
        /\ conn' = conn /\ conn[pubConn[l]] = "open"
        /\ chans' = [chans EXCEPT ![pubConn[l]] = @ + 1]
    BY <1>0, <1>6 DEF FillOpens, FillMore, OpenChannel, FillInv
  <2>3. \A c \in Conns : ConnInv(c)'
    BY <1>0, <2>1, <2>2 DEF Bounds, ConnInv
  <2>4. FillInv(l)'
    BY <1>0, <1>6, <2>1, <2>2 DEF FillOpens, FillInv, Dialling
  <2>5. ASSUME NEW k \in Loops, k # l PROVE FillInv(k)'
    <3>1. pc[k] \notin InConnect
      BY <1>6, <2>5, Zenon DEF FillOpens, Control, SingleConnector, InConnect
    <3> QED
      BY <1>0, <1>6, <2>5, <3>1, Zenon DEF FillOpens, FillInv, InConnect, Dialling
  <2> QED
    BY <2>3, <2>4, <2>5 DEF Bounds
<1>7. ASSUME NEW l \in Loops, FillSends(l) PROVE Bounds'
  <2>1. \A k \in Loops : Stays(k) \/ FillInv(k)'
    <3>1. CASE UNCHANGED <<pc, filled>>
      BY <1>7, <3>1, Zenon DEF FillSends, Stays
    <3>2. CASE /\ filled' = [filled EXCEPT ![l] = @ + 1]
               /\ pc' = [pc EXCEPT ![l] = "fill"]
      BY <1>0, <1>7, <3>2 DEF FillSends, FillInv, Stays, Dialling
    <3> QED
      BY <1>7, <3>1, <3>2, Zenon DEF FillSends
  <2>2. NoGrowth
    BY <1>7, NothingGrows, Zenon DEF FillSends
  <2> QED
    BY <2>1, <2>2, BoundsShrink
<1>8. ASSUME NEW l \in Loops, FillReturns(l) PROVE Bounds'
  <2>1. \A k \in Loops : Stays(k) \/ FillInv(k)'
    BY <1>0, <1>8 DEF FillReturns, FillInv, Stays, Dialling
  <2>2. NoGrowth
    BY <1>8, NothingGrows, Zenon DEF FillReturns
  <2> QED
    BY <2>1, <2>2, BoundsShrink
<1>9. ASSUME NEW l \in Loops, LoopStep(l) PROVE Bounds'
  <2>1. CASE ConnectStart(l) \/ AssignConnections(l) \/ ConnectDrained(l)
    BY <1>2, <2>1, Zenon DEF ConnectStart, AssignConnections, ConnectDrained, Dialling
  <2>2. CASE SetConnected(l) \/ SetupPublisherHandler(l) \/ SetupConsumerHandler(l)
    BY <1>2, <2>2, Zenon
    DEF SetConnected, SetupPublisherHandler, SetupConsumerHandler, Ended, Dialling
  <2>3. CASE BackoffClosed(l) \/ BackoffElapsed(l)
    BY <1>2, <2>3, Zenon DEF BackoffClosed, BackoffElapsed, Dialling
  <2>4. CASE DialPublisherFails(l) \/ DialConsumerFails(l) \/ FillFails(l)
    BY <1>3, <2>4, Zenon DEF DialPublisherFails, DialConsumerFails, FillFails
  <2>5. CASE ConnectDrains(l)
    BY <1>1, <2>5, TakeShrinks, Zenon DEF ConnectDrains
  <2> QED
    BY <1>9, <1>4, <1>5, <1>6, <1>7, <1>8, <2>1, <2>2, <2>3, <2>4, <2>5, Zenon DEF LoopStep
<1>10. ASSUME NEW h \in Handlers, HandlerStep(h) PROVE Bounds'
  <2>1. CASE HandlerSelects(h) \/ HandlerDrained(h)
    BY <1>1, <2>1, NothingGrows, Zenon DEF HandlerSelects, HandlerDrained
  <2>2. CASE HandlerDrains(h)
    BY <1>1, <2>2, TakeShrinks, Zenon DEF HandlerDrains
  <2>3. CASE TriggerReconnect(h)
    <3>1. CASE UNCHANGED pc
      BY <1>1, <2>3, <3>1, NothingGrows, Zenon DEF TriggerReconnect
    <3>2. CASE \E l \in Loops : pc[l] = "idle" /\ pc' = [pc EXCEPT ![l] = "backoff"]
      BY <1>2, <2>3, <3>2, Zenon DEF TriggerReconnect, Dialling
    <3> QED
      BY <2>3, <3>1, <3>2, Zenon DEF TriggerReconnect, FreeLoop
  <2> QED
    BY <1>10, <2>1, <2>2, <2>3, Zenon DEF HandlerStep
<1>11. ASSUME CloseStart \/ CloseStep PROVE Bounds'
  <2>1. CASE CloseStart \/ CloseSignal \/ ClosePoolFlag \/ ClosePoolChannel
    BY <1>1, <2>1, NothingGrows, Zenon
    DEF CloseStart, CloseSignal, ClosePoolFlag, ClosePoolChannel
  <2>2. CASE ClosePoolItems
    BY <1>1, <2>2, TakeShrinks, NothingGrows, Zenon DEF ClosePoolItems
  <2>3. CASE CloseCurrent
    BY <1>1, <2>3, ConnectionsShrink, Zenon DEF CloseCurrent
  <2> QED
    BY <1>11, <2>1, <2>2, <2>3, Zenon DEF CloseStep
<1>12. ASSUME NEW p \in Publishers,
              \/ PublishStart(p) \/ PublishCancelled(p) \/ Publish(p) \/ PublishStep(p)
      PROVE  Bounds'
  <2>1. UNCHANGED <<pc, pubConn, filled, conn>>
    BY <1>12, Zenon
    DEF PublishStart, PublishCancelled, Publish, PublishStep, PublishRetry, GetChecks,
        GetReceives, ReturnChecks, ReturnSelects, NonPublisherVars
  <2>2. chans' = chans \/ (held[p] \in Channel /\ CloseChannel(held[p]))
    <3>1. CASE Publish(p)
      BY <3>1, Zenon DEF Publish, PublisherAt, TypeInv, PublisherTypes
    <3>2. CASE ReturnChecks(p)
      BY <3>2, Zenon DEF ReturnChecks, PublisherAt, TypeInv, PublisherTypes
    <3>3. CASE ReturnSelects(p)
      BY <3>3, Zenon
      DEF ReturnSelects, ReturnSelect, Discard, PublisherAt, TypeInv, PublisherTypes
    <3>4. CASE \/ PublishStart(p) \/ PublishCancelled(p) \/ PublishRetry(p)
               \/ GetChecks(p) \/ GetReceives(p)
      BY <3>4, Zenon DEF PublishStart, PublishCancelled, PublishRetry, GetChecks, GetReceives
    <3> QED
      BY <1>12, <3>1, <3>2, <3>3, <3>4, Zenon DEF PublishStep
  <2> QED
    BY <1>1, <2>1, <2>2, CloseChannelShrinks, NothingGrows, Zenon
<1>13. ASSUME PooledChannelDies PROVE Bounds'
  <2>1. PICK i \in DOMAIN channels : CloseChannel(channels[i]) /\ conn' = conn
    BY <1>13, Zenon DEF PooledChannelDies
  <2>2. channels[i] \in Channel
    BY <2>1 DEF TypeInv, PoolTypeOK
  <2> QED
    BY <1>1, <1>13, <2>1, <2>2, CloseChannelShrinks, Zenon DEF PooledChannelDies, NonPublisherVars
<1>14. ASSUME LoseConnections PROVE Bounds'
  BY <1>1, <1>14, ConnectionsShrink, Zenon DEF LoseConnections
<1>15. CASE UNCHANGED vars
  BY <1>1, <1>15, NothingGrows, Zenon DEF vars
<1> QED
  BY <1>9, <1>10, <1>11, <1>12, <1>13, <1>14, <1>15, Zenon DEF Next

(* No connection ever carries more publisher channels than the pool size,  *)
(* however fills, returns, losses and reconnections interleave.            *)
THEOREM ChannelsWithinPool == Spec => []ChannelsBounded
<1>1. Init => Bounds
  BY PoolAssumption
  DEF Init, PoolInit, Bounds, FillInv, ConnInv, Dialling
<1>2. IInv /\ IInv' /\ Bounds /\ [Next]_vars => Bounds'
  BY BoundsStep, Zenon DEF IInv
<1>3. Bounds => ChannelsBounded
  BY Zenon DEF Bounds, ConnInv, ChannelsBounded
<1> QED
  BY Invariance, <1>1, <1>2, <1>3, PTL DEF Spec

-----------------------------------------------------------------------------
(* Closing the pool: close has run by the time its items are taken out,    *)
(* and in the end there are none.                                          *)
Shut ==
  /\ kpc \in {"poolDrain", "conns", "done"} => chanClosed
  /\ kpc \in {"conns", "done"} => channels = <<>>

(* What every step but those of Close does to the pool: only a pool that   *)
(* is not closed, or not empty, changes.                                   *)
PoolUse ==
  /\ kpc' = kpc /\ chanClosed' = chanClosed
  /\ channels' = channels \/ channels # <<>> \/ ~chanClosed

(* A step that uses the pool in this way keeps it shut.                    *)
LEMMA PoolUseKeepsShut == Shut /\ PoolUse => Shut'
BY DEF Shut, PoolUse

(* No step opens the pool again, or puts anything into it.                 *)
LEMMA ShutStep == TypeInv /\ Shut /\ [Next]_vars => Shut'
<1> SUFFICES ASSUME TypeInv, Shut, [Next]_vars PROVE Shut'
  OBVIOUS
<1> USE DEF poolVars, NonPublisherVars
<1>1. ASSUME NEW l \in Loops, LoopStep(l) PROVE PoolUse
  <2>1. CASE ConnectStart(l) \/ DialPublisher(l) \/ DialConsumer(l) \/ AssignConnections(l)
    BY <2>1, Zenon DEF PoolUse, ConnectStart, DialPublisher, DialConsumer, AssignConnections
  <2>2. CASE DialPublisherFails(l) \/ DialConsumerFails(l) \/ FillFails(l)
    BY <2>2, Zenon DEF PoolUse, DialPublisherFails, DialConsumerFails, FillFails, ConnectFails
  <2>3. CASE ConnectDrains(l) \/ FillSends(l)
    BY <2>3, Zenon DEF PoolUse, ConnectDrains, TakeAndClose, FillSends
  <2>4. CASE ConnectDrained(l) \/ FillOpens(l) \/ FillReturns(l) \/ SetConnected(l)
    BY <2>4, Zenon DEF PoolUse, ConnectDrained, FillOpens, FillReturns, SetConnected
  <2>5. CASE \/ SetupPublisherHandler(l) \/ SetupConsumerHandler(l)
             \/ BackoffClosed(l) \/ BackoffElapsed(l)
    BY <2>5, Zenon DEF PoolUse, SetupPublisherHandler, SetupConsumerHandler, BackoffClosed,
       BackoffElapsed
  <2>6. QED BY <1>1, <2>1, <2>2, <2>3, <2>4, <2>5, Zenon DEF LoopStep
<1>2. ASSUME NEW h \in Handlers, HandlerStep(h) PROVE PoolUse
  BY <1>2, Zenon DEF HandlerStep, PoolUse, HandlerSelects, HandlerDrains, HandlerDrained,
     TriggerReconnect, TakeAndClose
<1>3. ASSUME NEW p \in Publishers,
             \/ PublishStart(p) \/ PublishCancelled(p) \/ Publish(p) \/ PublishStep(p)
      PROVE  PoolUse
  BY <1>3, Zenon DEF PoolUse, PublishStart, PublishCancelled, Publish, PublishStep, PublishRetry,
     GetChecks, GetReceives, ReturnChecks, ReturnSelects, ReturnSelect
<1>4. ASSUME PooledChannelDies PROVE PoolUse
  <2>1. channels \in Seq(Channel) BY Zenon DEF TypeInv, PoolTypeOK
  <2>2. DOMAIN channels # {} BY <1>4, Zenon DEF PooledChannelDies
  <2>3. channels # <<>> BY <2>2
  <2>4. QED BY <1>4, <2>3, Zenon DEF PooledChannelDies, PoolUse
<1>5. CASE LoseConnections BY <1>5, PoolUseKeepsShut, Zenon DEF LoseConnections, PoolUse
<1>6. CASE CloseStart \/ CloseStep
  BY <1>6, Zenon DEF Shut, CloseStart, CloseStep, CloseSignal, ClosePoolFlag, ClosePoolChannel,
     CloseChannels, ClosePoolItems, CloseCurrent, TakeAndClose
<1>7. CASE UNCHANGED vars BY <1>7, Zenon DEF vars, Shut
<1>8. QED BY <1>1, <1>2, <1>3, <1>4, <1>5, <1>6, <1>7, PoolUseKeepsShut, Zenon DEF Next

(* A pool that Close has emptied stays empty, whatever returns, fills and  *)
(* drains were under way.                                                  *)
THEOREM PoolStaysEmpty == Spec => []ClosedPoolStaysEmpty
<1>1. Init => Shut BY Zenon DEF Init, Shut
<1>2. IInv => TypeInv BY Zenon DEF IInv
<1>3. Shut => ClosedPoolStaysEmpty BY Zenon DEF Shut, ClosedPoolStaysEmpty
<1>4. QED BY Invariance, ShutStep, <1>1, <1>2, <1>3, PTL DEF Spec

-----------------------------------------------------------------------------
(* What a step does with channels: every step that does not crash the      *)
(* program is of one of the kinds below.                                   *)

(* No loop starts or ends a send in this step.                             *)
SameSends ==
  \A l \in Loops : \/ pc'[l] = pc[l] /\ pubConn'[l] = pubConn[l]
                   \/ pc[l] # "send" /\ pc'[l] # "send"

(* Publisher p exchanges what it holds for ch.                             *)
Exchanges(p, ch) ==
  /\ held'[p] = ch /\ \A q \in Publishers \ {p} : held'[q] = held[q]
  /\ UNCHANGED <<conn, pc, pubConn>>

(* Nothing moves; connections end; one is dialled; drain or close receives;*)
(* a channel of the pool dies;                                             *)
Frame == UNCHANGED <<chans, channels, held, conn>> /\ SameSends
Ends  == (\E C : CloseConnections(C)) /\ UNCHANGED <<channels, held>> /\ SameSends
Dials == (\E d \in Conns : Dialled(d)) /\ UNCHANGED <<chans, channels, held>> /\ SameSends
Takes == TakeAndClose /\ UNCHANGED <<held, pc, pubConn>>
Dies  ==
  /\ \E i \in DOMAIN channels :
       CloseChannel(channels[i]) /\ channels' = [channels EXCEPT ![i].up = FALSE]
  /\ UNCHANGED <<held, pc, pubConn, conn>>

(* get receives a channel, or a closed one that it discards;               *)
Gets(p) ==
  /\ channels # <<>> /\ channels' = Tail(channels) /\ chans' = chans
  /\ held[p] = NoChannel /\ Exchanges(p, Head(channels))
Skips ==
  /\ channels # <<>> /\ channels' = Tail(channels) /\ IsClosed(Head(channels))
  /\ UNCHANGED <<chans, held, conn, pc, pubConn>>

(* returnCh puts one back; a publisher's channel is closed, by the broker  *)
(* or by returnCh.                                                         *)
Returns(p) ==
  /\ held[p] \in Channel /\ channels' = Append(channels, held[p]) /\ chans' = chans
  /\ Exchanges(p, NoChannel)
Drops(p) ==
  /\ held[p] \in Channel /\ channels' = channels
  /\ CloseChannel(held[p]) \/ (IsClosed(held[p]) /\ chans' = chans)
  /\ Exchanges(p, NoChannel) \/ Exchanges(p, [held[p] EXCEPT !.up = FALSE])

MovesChannels ==
  \/ Frame \/ Ends \/ Dials \/ Takes \/ Dies \/ Skips
  \/ \E l \in Loops : FillOpens(l) \/ FillSends(l)
  \/ \E p \in Publishers : Gets(p) \/ Returns(p) \/ Drops(p)

(* Who is not between get and returnCh holds nothing.                      *)
HeldInv == \A p \in Publishers : ppc[p] \notin {"hold", "ret", "put"} => held[p] = NoChannel

(* A publisher holds nothing outside get, publish and return.              *)
LEMMA HeldStep == TypeInv /\ HeldInv /\ [Next]_vars => HeldInv'
<1> SUFFICES ASSUME TypeInv, HeldInv, [Next]_vars PROVE HeldInv'
  OBVIOUS
<1>0. /\ held \in [Publishers -> Channel \cup {NoChannel}]
      /\ ppc \in [Publishers -> {"idle", "retry", "get", "recv", "hold", "ret", "put"}]
  BY Zenon DEF TypeInv, PublisherTypes, PublisherTypeOK
<1>1. CASE UNCHANGED <<ppc, held>>
  BY <1>1, Zenon DEF HeldInv
<1>2. ASSUME NEW p \in Publishers,
             \/ PublishStart(p) \/ PublishCancelled(p) \/ Publish(p) \/ PublishStep(p)
      PROVE  HeldInv'
  <2>1. CASE PublishStart(p) \/ PublishCancelled(p) \/ PublishRetry(p) \/ GetChecks(p)
    BY <1>0, <2>1, Zenon
    DEF HeldInv, PublishStart, PublishCancelled, PublishRetry, GetChecks, PublisherAt
  <2>2. CASE GetReceives(p)
    BY <1>0, <2>2, Zenon DEF HeldInv, GetReceives, PublisherAt
  <2>3. CASE Publish(p)
    BY <1>0, <2>3, Zenon DEF HeldInv, Publish, PublisherAt
  <2>4. CASE ReturnChecks(p)
    BY <1>0, <2>4, Zenon DEF HeldInv, ReturnChecks, PublisherAt
  <2>5. CASE ReturnSelects(p)
    BY <1>0, <2>5, Zenon DEF HeldInv, ReturnSelects, PublisherAt
  <2> QED
    BY <1>2, <2>1, <2>2, <2>3, <2>4, <2>5, Zenon DEF PublishStep
<1>3. ASSUME NEW l \in Loops, LoopStep(l) PROVE UNCHANGED <<ppc, held>>
  BY <1>3, Zenon
  DEF LoopStep, ConnectStart, DialPublisher, DialConsumer, DialPublisherFails,
      DialConsumerFails, AssignConnections, ConnectDrains, ConnectDrained, FillOpens,
      FillFails, FillSends, FillReturns, SetConnected, SetupPublisherHandler,
      SetupConsumerHandler, BackoffClosed, BackoffElapsed, ConnectFails, pubVars
<1>4. ASSUME NEW h \in Handlers, HandlerStep(h) PROVE UNCHANGED <<ppc, held>>
  BY <1>4, Zenon
  DEF HandlerStep, HandlerSelects, HandlerDrains, HandlerDrained, TriggerReconnect, pubVars
<1>5. CASE CloseStart \/ CloseStep \/ LoseConnections \/ PooledChannelDies
  <2>1. UNCHANGED <<ppc, held>>
    BY <1>5, Zenon
    DEF CloseStart, CloseStep, CloseSignal, ClosePoolFlag, ClosePoolChannel,
        ClosePoolItems, CloseCurrent, LoseConnections, PooledChannelDies, pubVars
  <2> QED
    BY <1>1, <2>1, Zenon
<1>6. CASE UNCHANGED vars
  BY <1>1, <1>6, Zenon DEF vars, pubVars
<1> QED
  BY <1>1, <1>2, <1>3, <1>4, <1>5, <1>6, Zenon DEF Next

(* The steps of publishers.                                                *)
LEMMA PublisherMovesChannels ==
  ASSUME TypeInv, HeldInv, NEW p \in Publishers, ~panicked',
         \/ PublishStart(p) \/ PublishCancelled(p) \/ Publish(p) \/ PublishStep(p)
  PROVE  MovesChannels
<1>0. /\ held \in [Publishers -> Channel \cup {NoChannel}]
      /\ ppc[p] \in {"hold", "ret", "put"} => held[p] \in Channel
      /\ ppc[p] \notin {"hold", "ret", "put"} => held[p] = NoChannel
  BY Zenon DEF TypeInv, PublisherTypes, PublisherTypeOK, HeldInv
<1>1. UNCHANGED <<pc, pubConn, conn>>
  BY Zenon DEF PublishStart, PublishCancelled, PublishStep, PublishRetry, GetChecks, GetReceives,
     Publish, ReturnChecks, ReturnSelects, NonPublisherVars, loopVars, amqpVars
<1>2. ASSUME NEW ch, held' = [held EXCEPT ![p] = ch] PROVE Exchanges(p, ch)
  BY <1>0, <1>1, <1>2, Zenon DEF Exchanges
<1>3. ASSUME UNCHANGED <<held, chans, channels>> PROVE MovesChannels
  BY <1>1, <1>3, Zenon DEF MovesChannels, Frame, SameSends
<1>4. CASE PublishStart(p) \/ PublishCancelled(p) \/ PublishRetry(p) \/ GetChecks(p)
  BY <1>3, <1>4, Zenon
  DEF PublishStart, PublishCancelled, PublishRetry, GetChecks, NonPublisherVars, poolVars,
      amqpVars
<1>5. CASE GetReceives(p)
  <2>1. chans' = chans /\ held[p] = NoChannel
    BY <1>0, <1>5, Zenon DEF GetReceives, PublisherAt, amqpVars
  <2>2. CASE channels = <<>>
    BY <1>3, <1>5, <2>1, <2>2, Zenon DEF GetReceives
  <2>3. CASE channels # <<>> /\ held' = [held EXCEPT ![p] = Head(channels)]
    <3>1. channels' = Tail(channels)
      BY <1>5, <2>3, Zenon DEF GetReceives
    <3>2. Gets(p)
      BY <1>2, <2>1, <2>3, <3>1, Zenon DEF Gets
    <3> QED
      BY <3>2, Zenon DEF MovesChannels
  <2>4. CASE channels # <<>> /\ IsClosed(Head(channels)) /\ held' = held
    BY <1>1, <1>5, <2>1, <2>4, Zenon DEF GetReceives, MovesChannels, Skips
  <2> QED
    BY <1>5, <2>2, <2>3, <2>4, Zenon DEF GetReceives
<1>6. CASE Publish(p)
  <2>1. held[p] \in Channel /\ channels' = channels
    BY <1>0, <1>6, Zenon DEF Publish, PublisherAt, poolVars
  <2>2. CASE UNCHANGED <<held, chans>>
    BY <1>3, <2>1, <2>2, Zenon
  <2>3. CASE CloseChannel(held[p]) /\ held' = [held EXCEPT ![p].up = FALSE]
    <3>1. held' = [held EXCEPT ![p] = [held[p] EXCEPT !.up = FALSE]]
      BY <2>3, Zenon
    <3>2. Drops(p)
      BY <1>2, <2>1, <2>3, <3>1, Zenon DEF Drops
    <3> QED
      BY <3>2, Zenon DEF MovesChannels
  <2> QED
    BY <1>6, <2>2, <2>3, Zenon DEF Publish
<1>7. CASE ReturnChecks(p)
  <2>1. held[p] \in Channel /\ channels' = channels
    BY <1>0, <1>7, Zenon DEF ReturnChecks, PublisherAt, poolVars
  <2>2. CASE UNCHANGED <<held, chans>>
    BY <1>3, <2>1, <2>2, Zenon
  <2>3. CASE /\ held' = [held EXCEPT ![p] = NoChannel]
             /\ CloseChannel(held[p]) \/ (IsClosed(held[p]) /\ chans' = chans)
    <3>1. Drops(p)
      BY <1>2, <2>1, <2>3, Zenon DEF Drops
    <3> QED
      BY <3>1, Zenon DEF MovesChannels
  <2> QED
    BY <1>7, <2>2, <2>3, Zenon DEF ReturnChecks
<1>8. CASE ReturnSelects(p)
  <2>1. held[p] \in Channel /\ Exchanges(p, NoChannel)
    BY <1>0, <1>2, <1>8, Zenon DEF ReturnSelects, PublisherAt
  <2>2. CASE channels' = channels /\ CloseChannel(held[p])
    BY <2>1, <2>2, Zenon DEF Drops, MovesChannels
  <2>3. CASE channels' = Append(channels, held[p]) /\ chans' = chans
    BY <2>1, <2>3, Zenon DEF Returns, MovesChannels
  <2> QED
    BY <1>8, <2>2, <2>3, Zenon DEF ReturnSelects, ReturnSelect, Put, Discard
<1> QED
  BY <1>4, <1>5, <1>6, <1>7, <1>8, Zenon DEF PublishStep

(* The steps of the reconnect loops.                                       *)
LEMMA LoopMovesChannels ==
  ASSUME TypeInv, NEW l \in Loops, LoopStep(l)
  PROVE  MovesChannels
<1> USE DEF poolVars, amqpVars, pubVars, loopVars
<1>0. pc \in [Loops -> LoopPC] /\ pubConn \in [Loops -> 0..MaxConns]
  BY Zenon DEF TypeInv, LoopTypes, LoopTypeOK
<1>1. CASE \/ ConnectStart(l) \/ AssignConnections(l) \/ ConnectDrained(l)
           \/ FillReturns(l) \/ SetConnected(l)
  <2>1. Frame
    BY <1>0, <1>1, Zenon
    DEF Frame, SameSends, ConnectStart, AssignConnections, ConnectDrained, FillReturns,
        SetConnected
  <2> QED
    BY <2>1, Zenon DEF MovesChannels
<1>2. CASE \/ SetupPublisherHandler(l) \/ SetupConsumerHandler(l)
           \/ BackoffClosed(l) \/ BackoffElapsed(l)
  <2>1. Frame
    BY <1>0, <1>2, Zenon
    DEF Frame, SameSends, SetupPublisherHandler, SetupConsumerHandler, BackoffClosed,
        BackoffElapsed, Ended
  <2> QED
    BY <2>1, Zenon DEF MovesChannels
<1>3. CASE DialPublisher(l) \/ DialConsumer(l)
  <2>1. Dials
    BY <1>0, <1>3, Zenon DEF Dials, SameSends, DialPublisher, DialConsumer
  <2> QED
    BY <2>1, Zenon DEF MovesChannels
<1>4. CASE DialPublisherFails(l) \/ DialConsumerFails(l) \/ FillFails(l)
  <2>1. PICK C : ConnectFails(l, C)
    BY <1>4, Zenon DEF DialPublisherFails, DialConsumerFails, FillFails
  <2>2. pc[l] # "send"
    BY <1>4, Zenon DEF DialPublisherFails, DialConsumerFails, FillFails
  <2>3. Ends
    BY <1>0, <2>1, <2>2, Zenon DEF Ends, SameSends, ConnectFails, AfterError
  <2> QED
    BY <2>3, Zenon DEF MovesChannels
<1>5. CASE ConnectDrains(l)
  BY <1>5, Zenon DEF ConnectDrains, Takes, MovesChannels
<1>6. CASE FillOpens(l) \/ FillSends(l)
  BY <1>6, Zenon DEF MovesChannels
<1> QED
  BY <1>1, <1>2, <1>3, <1>4, <1>5, <1>6, Zenon DEF LoopStep

(* The steps of the handlers.                                              *)
LEMMA HandlerMovesChannels ==
  ASSUME TypeInv, NEW h \in Handlers, HandlerStep(h)
  PROVE  MovesChannels
<1> USE DEF poolVars, amqpVars, pubVars, loopVars
<1>0. pc \in [Loops -> LoopPC]
  BY Zenon DEF TypeInv, LoopTypes, LoopTypeOK
<1>1. CASE HandlerSelects(h) \/ HandlerDrained(h)
  BY <1>1, Zenon DEF MovesChannels, Frame, SameSends, HandlerSelects, HandlerDrained
<1>2. CASE HandlerDrains(h)
  BY <1>2, Zenon DEF MovesChannels, Takes, HandlerDrains
<1>3. CASE TriggerReconnect(h)
  <2>1. Frame
    BY <1>0, <1>3, Zenon DEF Frame, SameSends, TriggerReconnect, FreeLoop
  <2> QED
    BY <2>1, Zenon DEF MovesChannels
<1> QED
  BY <1>1, <1>2, <1>3, Zenon DEF HandlerStep

(* Every step that does not crash the program is of one of the kinds.      *)
LEMMA StepMovesChannels ==
  ASSUME TypeInv, HeldInv, [Next]_vars, ~panicked'
  PROVE  MovesChannels
<1> USE DEF poolVars, amqpVars, pubVars, loopVars
<1>1. CASE CloseStart \/ CloseSignal \/ ClosePoolFlag \/ ClosePoolChannel
  BY <1>1, Zenon
  DEF MovesChannels, Frame, SameSends, CloseStart, CloseSignal, ClosePoolFlag, ClosePoolChannel
<1>2. CASE ClosePoolItems
  <2>1. CASE TakeAndClose
    BY <1>2, <2>1, Zenon DEF MovesChannels, Takes, ClosePoolItems
  <2>2. CASE UNCHANGED <<poolVars, amqpVars>>
    BY <1>2, <2>2, Zenon DEF MovesChannels, Frame, SameSends, ClosePoolItems
  <2> QED
    BY <1>2, <2>1, <2>2, Zenon DEF ClosePoolItems
<1>3. CASE CloseCurrent \/ LoseConnections
  <2>1. Ends
    BY <1>3, Zenon DEF Ends, SameSends, CloseCurrent, LoseConnections
  <2> QED
    BY <2>1, Zenon DEF MovesChannels
<1>4. CASE PooledChannelDies
  <2>1. Dies
    BY <1>4, Zenon DEF Dies, PooledChannelDies, NonPublisherVars
  <2> QED
    BY <2>1, Zenon DEF MovesChannels
<1>5. CASE UNCHANGED vars
  BY <1>5, Zenon DEF MovesChannels, Frame, SameSends, vars
<1> QED
  BY <1>1, <1>2, <1>3, <1>4, <1>5, LoopMovesChannels, HandlerMovesChannels,
     PublisherMovesChannels, Zenon DEF Next, CloseStep

-----------------------------------------------------------------------------
(* Counting the channels of a set K that are in the pool and with          *)
(* publishers, and the loops that have one of connection c in hand.        *)
Pooled(items, K) == {i \in DOMAIN items : items[i] \in K}
Borrowed(hd, K)  == {p \in Publishers : hd[p] \in K}
Filling(at, pb, cn, c) == {l \in Loops : at[l] = "send" /\ pb[l] = c /\ cn[c] = "open"}

(* The open channels of connection c.                                      *)
Live(cn, c) == {ch \in Channel : ch.conn = c /\ ch.up /\ cn[c] = "open"}

(* What a publisher holds when it holds nothing is no channel.             *)
LEMMA NoChannelIsNone == NoChannel \notin Channel /\ \A c \in Conns : NoChannel.conn # c
BY PoolAssumption DEF NoChannel, Channel, Conns

(* What a channel counts for in K.                                         *)
Weight(K, ch) == IF ch \in K THEN 1 ELSE 0

(* A count that was m loses out, gains in and is n.                        *)
Changes(n, m, out, in) == n = m - out + in

(* An element leaves a finite set, or joins it, or is replaced in it.      *)
LEMMA SetChange ==
  ASSUME NEW S, IsFiniteSet(S), NEW e, NEW R, NEW out, NEW in,
         out = IF e \in S THEN 1 ELSE 0,
         \/ in = 1 /\ R = S \cup {e}
         \/ in = 0 /\ R = S \ {e}
  PROVE  Changes(Cardinality(R), Cardinality(S), out, in)
<1>1. Cardinality(S) \in Nat
  BY FS_CardinalityType, Zenon
<1>2. /\ Cardinality(S \cup {e}) = IF e \in S THEN Cardinality(S) ELSE Cardinality(S) + 1
      /\ Cardinality(S \ {e}) = IF e \in S THEN Cardinality(S) - 1 ELSE Cardinality(S)
  BY FS_AddElement, FS_RemoveElement, Zenon
<1>3. CASE in = 1 /\ R = S \cup {e}
  BY <1>1, <1>2, <1>3 DEF Changes
<1>4. CASE in = 0 /\ R = S \ {e}
  BY <1>1, <1>2, <1>4 DEF Changes
<1> QED
  BY <1>3, <1>4, Zenon

(* Without its first element, a set of positions moves down by one.        *)
LEMMA ShiftDown ==
  ASSUME NEW n \in Nat, NEW S \in SUBSET (1..(n + 1))
  PROVE  LET T == {i \in 1..n : i + 1 \in S}
         IN  IsFiniteSet(S) /\ Cardinality(S \ {1}) = Cardinality(T)
<1> DEFINE T == {i \in 1..n : i + 1 \in S}
           f == [i \in T |-> i + 1]
<1>1. IsFiniteSet(1..(n + 1)) /\ IsFiniteSet(1..n)
  BY FS_Interval
<1>2. IsFiniteSet(S) /\ IsFiniteSet(T)
  BY <1>1, FS_Subset, Zenon
<1>3. f \in Bijection(T, S \ {1})
  <2>1. f \in [T -> S \ {1}]
    OBVIOUS
  <2>2. \A i, j \in T : f[i] = f[j] => i = j
    OBVIOUS
  <2>3. \A s \in S \ {1} : \E i \in T : f[i] = s
    <3> SUFFICES ASSUME NEW s \in S \ {1} PROVE \E i \in T : f[i] = s
      OBVIOUS
    <3>1. s - 1 \in T /\ f[s - 1] = s
      OBVIOUS
    <3> QED
      BY <3>1, Zenon
  <2> QED
    BY <2>1, <2>2, <2>3, Zenon DEF Bijection, Injection, Surjection, IsInjective
<1> QED
  BY <1>2, <1>3, FS_Bijection DEF ExistsBijection

(* Positions in the pool can be counted.                                   *)
LEMMA PooledCount ==
  ASSUME NEW items \in Seq(Channel), NEW K
  PROVE  IsFiniteSet(Pooled(items, K))
<1>1. IsFiniteSet(1..Len(items)) /\ DOMAIN items = 1..Len(items)
  BY FS_Interval
<1> QED
  BY <1>1, FS_Subset, Zenon DEF Pooled

(* Taking the first item out of the pool.                                  *)
LEMMA TailCount ==
  ASSUME NEW items \in Seq(Channel), items # <<>>, NEW K
  PROVE  Changes(Cardinality(Pooled(Tail(items), K)), Cardinality(Pooled(items, K)),
                 Weight(K, Head(items)), 0)
<1> DEFINE S == Pooled(items, K)
           n == Len(items) - 1
           T == {i \in 1..n : i + 1 \in S}
<1>1. n \in Nat /\ DOMAIN items = 1..(n + 1) /\ DOMAIN Tail(items) = 1..n
  OBVIOUS
<1>2. \A i \in 1..n : Tail(items)[i] = items[i + 1]
  OBVIOUS
<1>3. S \in SUBSET (1..(n + 1))
  BY <1>1, Zenon DEF Pooled
<1>4. Pooled(Tail(items), K) = T
  BY <1>1, <1>2 DEF Pooled
<1>5. Weight(K, Head(items)) = IF 1 \in S THEN 1 ELSE 0
  BY <1>1 DEF Pooled, Weight
<1> HIDE DEF S, n
<1>6. IsFiniteSet(S) /\ Cardinality(S \ {1}) = Cardinality(T)
  BY <1>1, <1>3, ShiftDown, Zenon
<1>7. Changes(Cardinality(S \ {1}), Cardinality(S), Weight(K, Head(items)), 0)
  BY <1>5, <1>6, SetChange, Zenon
<1> QED
  BY <1>4, <1>6, <1>7, Zenon DEF S

(* Putting an item into the pool.                                          *)
LEMMA AppendCount ==
  ASSUME NEW items \in Seq(Channel), NEW ch \in Channel, NEW K
  PROVE  Changes(Cardinality(Pooled(Append(items, ch), K)),
                 Cardinality(Pooled(items, K)), 0, Weight(K, ch))
<1> DEFINE n == Len(items) + 1
           S == Pooled(items, K)
           R == Pooled(Append(items, ch), K)
<1>1. /\ n \in Nat /\ DOMAIN items = 1..(n - 1) /\ DOMAIN Append(items, ch) = 1..n
      /\ \A i \in 1..(n - 1) : Append(items, ch)[i] = items[i]
      /\ Append(items, ch)[n] = ch
  OBVIOUS
<1>2. n \notin S
  BY <1>1 DEF Pooled
<1>3. \/ Weight(K, ch) = 1 /\ R = S \cup {n}
      \/ Weight(K, ch) = 0 /\ R = S \ {n}
  BY <1>1 DEF Pooled, Weight
<1>4. IsFiniteSet(S)
  BY PooledCount, Zenon
<1> HIDE DEF S, R, n
<1>5. Changes(Cardinality(R), Cardinality(S), 0, Weight(K, ch))
  BY <1>2, <1>3, <1>4, SetChange, Zenon
<1> QED
  BY <1>5, Zenon DEF S, R

(* Replacing one item of the pool.                                         *)
LEMMA ReplaceCount ==
  ASSUME NEW items \in Seq(Channel), NEW i \in DOMAIN items, NEW ch, NEW K,
         NEW next, DOMAIN next = DOMAIN items, next[i] = ch,
         \A j \in DOMAIN items \ {i} : next[j] = items[j]
  PROVE  Changes(Cardinality(Pooled(next, K)), Cardinality(Pooled(items, K)),
                 Weight(K, items[i]), Weight(K, ch))
<1> DEFINE S == Pooled(items, K)
           R == Pooled(next, K)
<1>1. \/ Weight(K, ch) = 1 /\ R = S \cup {i}
      \/ Weight(K, ch) = 0 /\ R = S \ {i}
  BY DEF Pooled, Weight
<1>2. Weight(K, items[i]) = IF i \in S THEN 1 ELSE 0
  BY Zenon DEF Pooled, Weight
<1>3. IsFiniteSet(S)
  BY PooledCount, Zenon
<1> HIDE DEF S, R
<1>4. Changes(Cardinality(R), Cardinality(S), Weight(K, items[i]), Weight(K, ch))
  BY <1>1, <1>2, <1>3, SetChange, Zenon
<1> QED
  BY <1>4, Zenon DEF S, R

(* A publisher exchanging what it holds.                                   *)
LEMMA HeldCount ==
  ASSUME NEW hd, NEW p \in Publishers, NEW ch, NEW K,
         NEW next, next[p] = ch, \A q \in Publishers \ {p} : next[q] = hd[q]
  PROVE  Changes(Cardinality(Borrowed(next, K)), Cardinality(Borrowed(hd, K)),
                 Weight(K, hd[p]), Weight(K, ch))
<1> DEFINE S == Borrowed(hd, K)
           R == Borrowed(next, K)
<1>1. \/ Weight(K, ch) = 1 /\ R = S \cup {p}
      \/ Weight(K, ch) = 0 /\ R = S \ {p}
  BY DEF Borrowed, Weight
<1>2. Weight(K, hd[p]) = IF p \in S THEN 1 ELSE 0
  BY Zenon DEF Borrowed, Weight
<1>3. IsFiniteSet(S)
  BY ClientAssumption, FS_Subset, Zenon DEF Borrowed
<1> HIDE DEF S, R
<1>4. Changes(Cardinality(R), Cardinality(S), Weight(K, hd[p]), Weight(K, ch))
  BY <1>1, <1>2, <1>3, SetChange, Zenon
<1> QED
  BY <1>4, Zenon DEF S, R

(* A loop that is, or is no longer, in the hands of fill.                  *)
LEMMA FillCount ==
  ASSUME NEW at, NEW au, NEW pb, NEW cn, NEW c, NEW l \in Loops, NEW out, NEW in,
         \A k \in Loops \ {l} : au[k] = at[k],
         out = IF l \in Filling(at, pb, cn, c) THEN 1 ELSE 0,
         in = IF l \in Filling(au, pb, cn, c) THEN 1 ELSE 0
  PROVE  Changes(Cardinality(Filling(au, pb, cn, c)), Cardinality(Filling(at, pb, cn, c)),
                 out, in)
<1> DEFINE S == Filling(at, pb, cn, c)
           R == Filling(au, pb, cn, c)
<1>1. R = IF l \in R THEN S \cup {l} ELSE S \ {l}
  BY Zenon DEF Filling
<1>2. IsFiniteSet(Loops)
  BY ClientAssumption, FS_Interval DEF Loops
<1>3. IsFiniteSet(S)
  BY <1>2, FS_Subset, Zenon DEF Filling
<1>4. \/ in = 1 /\ R = S \cup {l}
      \/ in = 0 /\ R = S \ {l}
  BY <1>1, Zenon
<1> HIDE DEF S, R
<1>5. out = IF l \in S THEN 1 ELSE 0
  BY Zenon DEF S
<1>6. Changes(Cardinality(R), Cardinality(S), out, in)
  BY <1>3, <1>4, <1>5, SetChange, Zenon
<1> QED
  BY <1>6, Zenon DEF S, R

(* ch.Close takes a live channel off its connection and nothing else.      *)
LEMMA CloseCount ==
  ASSUME chans \in [Conns -> Int], NEW ch \in Channel, CloseChannel(ch), NEW c \in Conns
  PROVE  Changes(chans'[c], chans[c], Weight(Live(conn, c), ch), 0)
<1>1. IsClosed(ch) <=> ch \notin Live(conn, ch.conn)
  BY Zenon DEF IsClosed, Live
<1>2. ch \in Live(conn, c) => c = ch.conn
  BY Zenon DEF Live
<1>3. ch.conn \in Conns
  BY Zenon DEF Channel
<1> QED
  BY <1>1, <1>2, <1>3 DEF CloseChannel, Weight, Changes

-----------------------------------------------------------------------------
(* The channels of c that are in the pool, borrowed, and in fill's hands.  *)
InPool(c) == Cardinality(Pooled(channels, Live(conn, c)))
Lent(c)   == Cardinality(Borrowed(held, Live(conn, c)))
InFill(c) == Cardinality(Filling(pc, pubConn, conn, c))

Balance(c) == chans[c] = InPool(c) + Lent(c) + InFill(c)

Balanced == HeldInv /\ (~panicked => \A c \in Conns : Balance(c))

(* The balance is what NoChannelLeak says.                                 *)
LEMMA BalanceIsNoLeak == TypeInv /\ Balanced => NoChannelLeak
<1> SUFFICES ASSUME TypeInv, Balanced, ~panicked, NEW c \in Conns
             PROVE  chans[c] = Referenced(c)
  BY Zenon DEF NoChannelLeak
<1>0. /\ \A i \in DOMAIN channels : channels[i] \in Channel
      /\ \A p \in Publishers : held[p] \in Channel \cup {NoChannel}
  BY DEF TypeInv, PoolTypeOK, PublisherTypes, PublisherTypeOK
<1>1. \A ch \in Channel \cup {NoChannel} : ch \in Live(conn, c) <=> ch.conn = c /\ ~IsClosed(ch)
  BY NoChannelIsNone, Zenon DEF Live, IsClosed
<1>2. /\ Pooled(channels, Live(conn, c))
           = {i \in DOMAIN channels : channels[i].conn = c /\ ~IsClosed(channels[i])}
      /\ Borrowed(held, Live(conn, c))
           = {p \in Publishers : held[p].conn = c /\ ~IsClosed(held[p])}
  BY <1>0, <1>1, Zenon DEF Pooled, Borrowed
<1> QED
  BY <1>2, Zenon DEF Balanced, Balance, InPool, Lent, InFill, Referenced, Filling

(* The three sets can be counted.                                          *)
LEMMA Countable ==
  ASSUME TypeInv, NEW c
  PROVE  InPool(c) \in Nat /\ Lent(c) \in Nat /\ InFill(c) \in Nat
<1>1. channels \in Seq(Channel)
  BY Zenon DEF TypeInv, PoolTypeOK
<1>2. IsFiniteSet(Borrowed(held, Live(conn, c)))
  BY ClientAssumption, FS_Subset, Zenon DEF Borrowed
<1>3. IsFiniteSet(Loops)
  BY ClientAssumption, FS_Interval DEF Loops
<1>4. IsFiniteSet(Filling(pc, pubConn, conn, c))
  BY <1>3, FS_Subset, Zenon DEF Filling
<1> QED
  BY <1>1, <1>2, <1>4, PooledCount, FS_CardinalityType, Zenon DEF InPool, Lent, InFill

(* What a channel counts for is a number.                                  *)
LEMMA WeightType == ASSUME NEW K, NEW ch PROVE Weight(K, ch) \in Nat
BY Zenon DEF Weight

(* Nothing that counts changes.                                            *)
LEMMA BalanceSame ==
  ASSUME NEW c, Balance(c), chans'[c] = chans[c], InPool(c)' = InPool(c),
         Lent(c)' = Lent(c), InFill(c)' = InFill(c)
  PROVE  Balance(c)'
BY Zenon DEF Balance

(* A channel that counts for w is closed, is opened, or moves.             *)
LEMMA BalanceMoves ==
  ASSUME TypeInv, NEW c, Balance(c), NEW w \in Nat,
         \/ /\ Changes(chans'[c], chans[c], w, 0)
            /\ \/ Changes(InPool(c)', InPool(c), w, 0) /\ Lent(c)' = Lent(c)
               \/ InPool(c)' = InPool(c) /\ Changes(Lent(c)', Lent(c), w, 0)
            /\ InFill(c)' = InFill(c)
         \/ /\ chans'[c] = chans[c]
            /\ \/ Changes(InPool(c)', InPool(c), w, 0) /\ Changes(Lent(c)', Lent(c), 0, w)
               \/ Changes(InPool(c)', InPool(c), 0, w) /\ Changes(Lent(c)', Lent(c), w, 0)
            /\ InFill(c)' = InFill(c)
         \/ /\ Lent(c)' = Lent(c)
            /\ \/ /\ chans'[c] = chans[c] /\ Changes(InPool(c)', InPool(c), 0, w)
                  /\ Changes(InFill(c)', InFill(c), w, 0)
               \/ /\ Changes(chans'[c], chans[c], 0, w) /\ InPool(c)' = InPool(c)
                  /\ Changes(InFill(c)', InFill(c), 0, w)
  PROVE  Balance(c)'
<1>1. InPool(c) \in Nat /\ Lent(c) \in Nat /\ InFill(c) \in Nat
  BY Countable, Zenon
<1> QED
  BY <1>1 DEF Balance, Changes

(* A connection that is not open has no live channel.                      *)
LEMMA ClosedIsEmpty ==
  ASSUME NEW items, NEW hd, NEW at, NEW pb, NEW cn, NEW c, cn[c] # "open"
  PROVE  /\ Cardinality(Pooled(items, Live(cn, c))) = 0
         /\ Cardinality(Borrowed(hd, Live(cn, c))) = 0
         /\ Cardinality(Filling(at, pb, cn, c)) = 0
<1>1. /\ Pooled(items, Live(cn, c)) = {} /\ Borrowed(hd, Live(cn, c)) = {}
      /\ Filling(at, pb, cn, c) = {}
  BY Zenon DEF Pooled, Borrowed, Filling, Live
<1> QED
  BY <1>1, FS_EmptySet, Zenon

(* A loop that neither is nor was in the hands of fill does not count.     *)
LEMMA SameFilling ==
  ASSUME NEW at, NEW au, NEW pb, NEW pd, NEW cn, NEW c,
         \A l \in Loops : \/ at[l] = au[l] /\ pb[l] = pd[l]
                          \/ at[l] # "send" /\ au[l] # "send"
  PROVE  Filling(at, pb, cn, c) = Filling(au, pd, cn, c)
BY Zenon DEF Filling

(* Who leaves pool, borrowers and fill alone changes no count of a         *)
(* connection that stays as it is.                                         *)
LEMMA SameCounts ==
  ASSUME NEW c, conn'[c] = conn[c], UNCHANGED <<channels, held>>, SameSends
  PROVE  InPool(c)' = InPool(c) /\ Lent(c)' = Lent(c) /\ InFill(c)' = InFill(c)
<1>1. Filling(pc', pubConn', conn', c) = Filling(pc, pubConn, conn', c)
  BY SameFilling DEF SameSends
<1>2. /\ Live(conn', c) = Live(conn, c)
      /\ Filling(pc, pubConn, conn', c) = Filling(pc, pubConn, conn, c)
  BY Zenon DEF Live, Filling
<1> QED
  BY <1>1, <1>2, Zenon DEF InPool, Lent, InFill

(* A step that changes neither the pool, nor what is held, nor what is     *)
(* being filled.                                                           *)
LEMMA BalanceFrame ==
  ASSUME NEW c \in Conns, Balance(c), UNCHANGED <<chans, channels, held, conn>>,
         SameSends
  PROVE  Balance(c)'
BY SameCounts, BalanceSame, Zenon

(* Connections that end take all their channels with them.                 *)
LEMMA BalanceEnds ==
  ASSUME NEW C, CloseConnections(C), NEW c \in Conns, Balance(c),
         UNCHANGED <<channels, held>>,
         SameSends
  PROVE  Balance(c)'
<1>1. CASE c \in C
  <2>1. conn'[c] # "open" /\ chans'[c] = 0
    BY <1>1, Zenon DEF CloseConnections
  <2>2. InPool(c)' = 0 /\ Lent(c)' = 0 /\ InFill(c)' = 0
    BY <2>1, ClosedIsEmpty, Zenon DEF InPool, Lent, InFill
  <2> QED
    BY <2>1, <2>2 DEF Balance
<1>2. CASE c \notin C
  <2>1. conn'[c] = conn[c] /\ chans'[c] = chans[c]
    BY <1>2, Zenon DEF CloseConnections
  <2> QED
    BY <2>1, SameCounts, BalanceSame, Zenon
<1> QED
  BY <1>1, <1>2

(* One receive of drain or of close.                                       *)
LEMMA BalanceTake ==
  ASSUME TypeInv, TakeAndClose, NEW c \in Conns, Balance(c),
         UNCHANGED <<held, pc, pubConn>>
  PROVE  Balance(c)'
<1> DEFINE w == Weight(Live(conn, c), Head(channels))
<1>1. /\ channels \in Seq(Channel) /\ channels # <<>> /\ Head(channels) \in Channel
      /\ chans \in [Conns -> Int]
  BY ReceiveType, Zenon DEF TypeInv, PoolTypeOK, TakeAndClose
<1>2. channels' = Tail(channels) /\ conn' = conn /\ CloseChannel(Head(channels))
  BY Zenon DEF TakeAndClose
<1>3. w \in Nat /\ Changes(chans'[c], chans[c], w, 0)
  BY <1>1, <1>2, CloseCount, WeightType, Zenon
<1>4. Changes(InPool(c)', InPool(c), w, 0)
  BY <1>1, <1>2, TailCount, Zenon DEF InPool
<1>5. Lent(c)' = Lent(c) /\ InFill(c)' = InFill(c)
  BY <1>2, Zenon DEF Lent, InFill
<1> QED
  BY <1>3, <1>4, <1>5, BalanceMoves, Zenon

(* A dial: nobody has a channel of the connection it uses.                 *)
LEMMA BalanceDial ==
  ASSUME TypeInv, NEW d \in Conns, Dialled(d), NEW c \in Conns, Balance(c),
         UNCHANGED <<chans, channels, held>>,
         SameSends
  PROVE  Balance(c)'
<1>1. conn \in [Conns -> {"open", "closed"}]
  BY Zenon DEF TypeInv, PoolTypeOK
<1>2. CASE c = d
  <2>1. Unused(c) /\ conn[c] # "open"
    BY <1>2, Zenon DEF Dialled, Unused
  <2>2. InPool(c) = 0 /\ Lent(c) = 0 /\ InFill(c) = 0
    BY <2>1, ClosedIsEmpty, Zenon DEF InPool, Lent, InFill
  <2>3. Filling(pc', pubConn', conn', c) = Filling(pc, pubConn, conn', c)
    BY SameFilling DEF SameSends
  <2>4. /\ Pooled(channels, Live(conn', c)) = {} /\ Borrowed(held, Live(conn', c)) = {}
        /\ Filling(pc, pubConn, conn', c) = {}
    BY <2>1, Zenon DEF Unused, Pooled, Borrowed, Filling, Live
  <2>5. InPool(c)' = 0 /\ Lent(c)' = 0 /\ InFill(c)' = 0
    BY <2>3, <2>4, FS_EmptySet, Zenon DEF InPool, Lent, InFill
  <2> QED
    BY <2>2, <2>5, BalanceSame, Zenon
<1>3. CASE c # d
  <2>1. conn'[c] = conn[c]
    BY <1>1, <1>3, Zenon DEF Dialled
  <2> QED
    BY <2>1, SameCounts, BalanceSame, Zenon
<1> QED
  BY <1>2, <1>3, Zenon

(* fill: the channel it opens is in its hands until it is in the pool.     *)
LEMMA BalanceFill ==
  ASSUME TypeInv, NEW l \in Loops, FillOpens(l) \/ (FillSends(l) /\ ~panicked'),
         NEW c \in Conns, Balance(c)
  PROVE  Balance(c)'
<1> DEFINE ch == [conn |-> pubConn[l], up |-> TRUE]
           w == Weight(Live(conn, c), ch)
<1>0. /\ pc \in [Loops -> LoopPC] /\ chans \in [Conns -> Int]
      /\ channels \in Seq(Channel)
      /\ pc[l] \in {"fill", "send"} => pubConn[l] \in Conns
  BY Zenon DEF TypeInv, PoolTypeOK, LoopTypes, LoopTypeOK
<1>1. w \in Nat
  BY WeightType, Zenon
<1>2. ASSUME pubConn[l] \in Conns
      PROVE  /\ ch \in Channel
             /\ w = IF pubConn[l] = c /\ conn[c] = "open" THEN 1 ELSE 0
  <2>1. ch \in Channel /\ ch.conn = pubConn[l] /\ ch.up
    BY <1>2 DEF Channel
  <2> HIDE DEF ch
  <2> QED
    BY <2>1, Zenon DEF Weight, Live
<1> HIDE DEF ch, w
<1>3. CASE FillOpens(l)
  <2>1. /\ pc[l] = "fill" /\ pc' = [pc EXCEPT ![l] = "send"] /\ conn[pubConn[l]] = "open"
        /\ chans' = [chans EXCEPT ![pubConn[l]] = @ + 1]
        /\ UNCHANGED <<channels, held, conn, pubConn>>
    BY <1>3, Zenon DEF FillOpens, OpenChannel, poolVars, pubVars
  <2>2. /\ 0 = IF l \in Filling(pc, pubConn, conn, c) THEN 1 ELSE 0
        /\ w = IF l \in Filling(pc', pubConn, conn, c) THEN 1 ELSE 0
        /\ \A k \in Loops \ {l} : pc'[k] = pc[k]
    BY <1>0, <1>2, <2>1, Zenon DEF Filling
  <2>3. Changes(chans'[c], chans[c], 0, w)
    BY <1>0, <1>2, <2>1 DEF Changes
  <2>4. Changes(InFill(c)', InFill(c), 0, w)
    BY <2>1, <2>2, FillCount, Zenon DEF InFill
  <2>5. InPool(c)' = InPool(c) /\ Lent(c)' = Lent(c)
    BY <2>1, Zenon DEF InPool, Lent
  <2> QED
    BY <1>1, <2>3, <2>4, <2>5, BalanceMoves, Zenon
<1>4. CASE FillSends(l) /\ ~panicked'
  <2>1. /\ pc[l] = "send" /\ pc' = [pc EXCEPT ![l] = "fill"]
        /\ channels' = Append(channels, ch)
        /\ UNCHANGED <<chans, held, conn, pubConn>>
    BY <1>4, Zenon DEF FillSends, Put, amqpVars, pubVars, ch
  <2>2. ch \in Channel
    BY <1>0, <1>2, <2>1, Zenon
  <2>3. /\ w = IF l \in Filling(pc, pubConn, conn, c) THEN 1 ELSE 0
        /\ 0 = IF l \in Filling(pc', pubConn, conn, c) THEN 1 ELSE 0
        /\ \A k \in Loops \ {l} : pc'[k] = pc[k]
    BY <1>0, <1>2, <2>1, Zenon DEF Filling
  <2>4. Changes(InPool(c)', InPool(c), 0, w)
    BY <1>0, <2>1, <2>2, AppendCount, Zenon DEF InPool, w
  <2>5. Changes(InFill(c)', InFill(c), w, 0)
    BY <2>1, <2>3, FillCount, Zenon DEF InFill
  <2>6. chans'[c] = chans[c] /\ Lent(c)' = Lent(c)
    BY <2>1, Zenon DEF Lent
  <2> QED
    BY <1>1, <2>4, <2>5, <2>6, BalanceMoves, Zenon
<1> QED
  BY <1>3, <1>4, Zenon

(* NoChannel counts for nothing, and neither does a closed channel.        *)
LEMMA NotLive ==
  ASSUME NEW c \in Conns
  PROVE  /\ Weight(Live(conn, c), NoChannel) = 0
         /\ \A ch \in Channel : IsClosed(ch) => Weight(Live(conn, c), ch) = 0
<1>1. NoChannel \notin Live(conn, c)
  BY Zenon DEF Live, NoChannel, Conns
<1>2. \A ch \in Channel : IsClosed(ch) => ch \notin Live(conn, c)
  BY Zenon DEF Live, IsClosed
<1> QED
  BY <1>1, <1>2, Zenon DEF Weight

(* A borrowed channel whose publisher lets it go or loses it.              *)
LEMMA BalanceDrops ==
  ASSUME TypeInv, NEW p \in Publishers, Drops(p), NEW c \in Conns, Balance(c)
  PROVE  Balance(c)'
<1> DEFINE w == Weight(Live(conn, c), held[p])
<1>1. held[p] \in Channel /\ chans \in [Conns -> Int] /\ w \in Nat
  BY WeightType, Zenon DEF Drops, TypeInv, PoolTypeOK
<1>2. Changes(chans'[c], chans[c], w, 0)
  <2>1. CASE CloseChannel(held[p])
    BY <1>1, <2>1, CloseCount, Zenon
  <2>2. CASE IsClosed(held[p]) /\ chans' = chans
    <3>1. w = 0 /\ chans[c] \in Int
      BY <1>1, <2>2, NotLive, Zenon
    <3> QED
      BY <2>2, <3>1 DEF Changes
  <2> QED
    BY <2>1, <2>2, Zenon DEF Drops
<1>3. PICK ch : Exchanges(p, ch) /\ Weight(Live(conn, c), ch) = 0
  <2>1. Weight(Live(conn, c), [held[p] EXCEPT !.up = FALSE]) = 0
    BY <1>1, Zenon DEF Weight, Live, Channel
  <2> QED
    BY <2>1, NotLive, Zenon DEF Drops
<1>4. Changes(Lent(c)', Lent(c), w, Weight(Live(conn, c), ch))
  BY <1>3, HeldCount, Zenon DEF Lent, Exchanges
<1>5. Changes(Lent(c)', Lent(c), w, 0)
  BY <1>3, <1>4, Zenon
<1>6. InPool(c)' = InPool(c) /\ InFill(c)' = InFill(c)
  BY <1>3, Zenon DEF InPool, InFill, Exchanges, Drops
<1> QED
  BY <1>1, <1>2, <1>5, <1>6, BalanceMoves, Zenon

(* get takes a channel out of the pool and lends it.                       *)
LEMMA BalanceGets ==
  ASSUME TypeInv, NEW p \in Publishers, Gets(p), NEW c \in Conns, Balance(c)
  PROVE  Balance(c)'
<1> DEFINE w == Weight(Live(conn, c), Head(channels))
<1>1. channels \in Seq(Channel) /\ w \in Nat
  BY WeightType, Zenon DEF TypeInv, PoolTypeOK
<1>2. Changes(InPool(c)', InPool(c), w, 0)
  BY <1>1, TailCount, Zenon DEF InPool, Gets, Exchanges
<1>3. Changes(Lent(c)', Lent(c), Weight(Live(conn, c), NoChannel), w)
  BY HeldCount, Zenon DEF Lent, Gets, Exchanges
<1>4. Changes(Lent(c)', Lent(c), 0, w)
  BY <1>3, NotLive, Zenon
<1>5. chans'[c] = chans[c] /\ InFill(c)' = InFill(c)
  BY Zenon DEF InFill, Gets, Exchanges
<1> QED
  BY <1>1, <1>2, <1>4, <1>5, BalanceMoves, Zenon

(* get discards a closed channel.                                          *)
LEMMA BalanceSkips ==
  ASSUME TypeInv, Skips, NEW c \in Conns, Balance(c)
  PROVE  Balance(c)'
<1>1. channels \in Seq(Channel) /\ channels # <<>> /\ Head(channels) \in Channel
  BY ReceiveType, Zenon DEF TypeInv, PoolTypeOK, Skips
<1>2. Changes(InPool(c)', InPool(c), Weight(Live(conn, c), Head(channels)), 0)
  BY <1>1, TailCount, Zenon DEF InPool, Skips
<1>3. Changes(InPool(c)', InPool(c), 0, 0)
  BY <1>1, <1>2, NotLive, Zenon DEF Skips
<1>4. InPool(c)' = InPool(c)
  BY <1>3, Countable DEF Changes
<1>5. chans'[c] = chans[c] /\ Lent(c)' = Lent(c) /\ InFill(c)' = InFill(c)
  BY Zenon DEF Lent, InFill, Skips
<1> QED
  BY <1>4, <1>5, BalanceSame, Zenon

(* returnCh puts a borrowed channel back.                                  *)
LEMMA BalanceReturns ==
  ASSUME TypeInv, NEW p \in Publishers, Returns(p), NEW c \in Conns, Balance(c)
  PROVE  Balance(c)'
<1> DEFINE w == Weight(Live(conn, c), held[p])
<1>1. channels \in Seq(Channel) /\ w \in Nat
  BY WeightType, Zenon DEF TypeInv, PoolTypeOK
<1>2. Changes(InPool(c)', InPool(c), 0, w)
  BY <1>1, AppendCount, Zenon DEF InPool, Returns, Exchanges
<1>3. Changes(Lent(c)', Lent(c), w, Weight(Live(conn, c), NoChannel))
  BY HeldCount, Zenon DEF Lent, Returns, Exchanges
<1>4. Changes(Lent(c)', Lent(c), w, 0)
  BY <1>3, NotLive, Zenon
<1>5. chans'[c] = chans[c] /\ InFill(c)' = InFill(c)
  BY Zenon DEF InFill, Returns, Exchanges
<1> QED
  BY <1>1, <1>2, <1>4, <1>5, BalanceMoves, Zenon

(* A channel in the pool closes.                                           *)
LEMMA BalanceDies ==
  ASSUME TypeInv, Dies, NEW c \in Conns, Balance(c)
  PROVE  Balance(c)'
<1>0. channels \in Seq(Channel) /\ chans \in [Conns -> Int]
  BY Zenon DEF TypeInv, PoolTypeOK
<1>1. PICK i \in DOMAIN channels :
        CloseChannel(channels[i]) /\ channels' = [channels EXCEPT ![i].up = FALSE]
  BY Zenon DEF Dies
<1>2. UNCHANGED <<held, pc, pubConn, conn>>
  BY Zenon DEF Dies
<1> DEFINE ch == [channels[i] EXCEPT !.up = FALSE]
           w == Weight(Live(conn, c), channels[i])
<1>3. channels[i] \in Channel
  BY <1>0
<1>4. /\ DOMAIN channels' = DOMAIN channels /\ channels'[i] = ch
      /\ \A j \in DOMAIN channels \ {i} : channels'[j] = channels[j]
  BY <1>0, <1>1, Zenon
<1>5. Weight(Live(conn, c), ch) = 0
  BY <1>3, Zenon DEF Weight, Live, Channel
<1> HIDE DEF ch
<1>6. Changes(InPool(c)', InPool(c), w, Weight(Live(conn, c), ch))
  BY <1>0, <1>2, <1>4, ReplaceCount, Zenon DEF InPool
<1>7. Changes(InPool(c)', InPool(c), w, 0)
  BY <1>5, <1>6, Zenon
<1>8. Changes(chans'[c], chans[c], w, 0) /\ w \in Nat
  BY <1>0, <1>1, <1>3, CloseCount, WeightType, Zenon
<1>9. Lent(c)' = Lent(c) /\ InFill(c)' = InFill(c)
  BY <1>2, Zenon DEF Lent, InFill
<1> QED
  BY <1>7, <1>8, <1>9, BalanceMoves, Zenon

(* The balance survives every kind of step.                                *)
LEMMA BalanceStep ==
  ASSUME TypeInv, MovesChannels, ~panicked', NEW c \in Conns, Balance(c)
  PROVE  Balance(c)'
<1>1. CASE Frame
  BY <1>1, BalanceFrame, Zenon DEF Frame
<1>2. CASE Ends
  BY <1>2, BalanceEnds, Zenon DEF Ends
<1>3. CASE Dials
  BY <1>3, BalanceDial, Zenon DEF Dials
<1>4. CASE Takes
  BY <1>4, BalanceTake, Zenon DEF Takes
<1>5. CASE \E l \in Loops : FillOpens(l) \/ FillSends(l)
  BY <1>5, BalanceFill, Zenon
<1> QED
  BY <1>1, <1>2, <1>3, <1>4, <1>5, BalanceSkips, BalanceDies, BalanceGets, BalanceReturns,
     BalanceDrops, Zenon DEF MovesChannels

(* No channel is lost while open: on every connection, each open channel   *)
(* is in the pool, borrowed by a publisher, or in the hands of fill.       *)
THEOREM NoLeak == Spec => []NoChannelLeak
<1>1. Init => Balanced
  <2> SUFFICES ASSUME Init PROVE Balanced
    OBVIOUS
  <2>1. HeldInv
    BY Zenon DEF Init, HeldInv
  <2>2. ASSUME NEW c \in Conns PROVE Balance(c)
    <3>1. conn[c] # "open" /\ chans[c] = 0
      BY Zenon DEF Init, PoolInit
    <3>2. InPool(c) = 0 /\ Lent(c) = 0 /\ InFill(c) = 0
      BY <3>1, ClosedIsEmpty, Zenon DEF InPool, Lent, InFill
    <3> QED
      BY <3>1, <3>2 DEF Balance
  <2> QED
    BY <2>1, <2>2, Zenon DEF Balanced
<1>2. TypeInv /\ Balanced /\ [Next]_vars => Balanced'
  <2> SUFFICES ASSUME TypeInv, Balanced, [Next]_vars PROVE Balanced'
    OBVIOUS
  <2>1. HeldInv /\ HeldInv'
    BY HeldStep, Zenon DEF Balanced
  <2>2. ASSUME ~panicked', NEW c \in Conns PROVE Balance(c)'
    <3>1. ~panicked
      BY <2>2, Zenon DEF Next, vars
    <3>2. MovesChannels
      BY <2>1, <2>2, StepMovesChannels, Zenon
    <3> QED
      BY <2>2, <3>1, <3>2, BalanceStep, Zenon DEF Balanced
  <2> QED
    BY <2>1, <2>2, Zenon DEF Balanced
<1>3. IInv => TypeInv
  BY DEF IInv
<1> QED
  BY Invariance, BalanceIsNoLeak, <1>1, <1>2, <1>3, PTL DEF Spec

-----------------------------------------------------------------------------
(* What fill waits for.  The channels of a connection that connect has just*)
(* dialled are the ones its fill has put into the pool: as many as its loop*)
(* counter says, wherever they have gone since.                            *)
Own(c) == {ch \in Channel : ch.conn = c}

OwnPooled(c) == Cardinality(Pooled(channels, Own(c)))
OwnLent(c)   == Cardinality(Borrowed(held, Own(c)))

(* The local variables of connect.                                         *)
LocalsOf(l) ==
  /\ pubConn[l] # 0 => pc[l] \in {"dialCons", "assign", "drain", "fill", "send"}
  /\ pc[l] \notin {"fill", "send"} => filled[l] = 0
  /\ pc[l] = "send" => FillMore(filled[l])

Locals ==
  /\ \A l \in Loops : LocalsOf(l)
  /\ \A l, m \in Loops : pubConn[l] # 0 /\ pubConn[l] = pubConn[m] => l = m

(* Of the connection a loop fills from, pool and publishers together have  *)
(* at most what the loop has sent.                                         *)
OwnBound ==
  ~panicked => \A l \in Loops :
    pubConn[l] # 0 => OwnPooled(pubConn[l]) + OwnLent(pubConn[l]) <= filled[l]

(* What a step does with the local variables of loop m: the connection     *)
(* stays and the counter may go up, or it is one nobody referred to.       *)
Keeps(m) ==
  \/ pubConn'[m] = 0
  \/ pubConn'[m] = pubConn[m] /\ filled'[m] = filled[m]
  \/ pubConn'[m] = pubConn[m] /\ FillSends(m)
  \/ (\E c \in Conns : pubConn'[m] = c /\ Unused(c)) /\ UNCHANGED <<channels, held>>

(* The steps of the reconnect loops.                                       *)
LEMMA LoopLocals ==
  ASSUME TypeInv, Locals, NEW l \in Loops, LoopStep(l), ~panicked'
  PROVE  Locals' /\ \A m \in Loops : Keeps(m)
<1> USE DEF poolVars, amqpVars, pubVars, loopVars
<1>0. /\ pc \in [Loops -> LoopPC] /\ pubConn \in [Loops -> 0..MaxConns]
      /\ filled \in [Loops -> Nat]
  BY Zenon DEF TypeInv, LoopTypes, LoopTypeOK
<1>1. ASSUME NEW to, pc' = [pc EXCEPT ![l] = to], UNCHANGED <<pubConn, filled>>,
             pubConn[l] # 0 => to \in {"dialCons", "assign", "drain", "fill", "send"},
             to \notin {"fill", "send"} => filled[l] = 0,
             to = "send" => FillMore(filled[l])
      PROVE  Locals' /\ \A m \in Loops : Keeps(m)
  <2>1. \A m \in Loops : LocalsOf(m)'
    BY <1>0, <1>1, Zenon DEF Locals, LocalsOf, FillMore
  <2> QED
    BY <1>1, <2>1, Zenon DEF Locals, Keeps
<1>2. CASE ConnectStart(l) \/ DialConsumer(l) \/ AssignConnections(l) \/ ConnectDrained(l)
  <2>1. PICK to \in {"dialPub", "assign", "drain", "fill"} :
          /\ pc' = [pc EXCEPT ![l] = to] /\ UNCHANGED <<pubConn, filled>>
          /\ to = "dialPub" => pc[l] = "connect"
          /\ pc[l] \in {"connect", "dialCons", "assign", "drain"}
    BY <1>2, Zenon DEF ConnectStart, DialConsumer, AssignConnections, ConnectDrained
  <2> QED
    BY <1>1, <2>1, Zenon DEF Locals, LocalsOf
<1>3. CASE SetConnected(l) \/ SetupPublisherHandler(l) \/ SetupConsumerHandler(l)
           \/ BackoffClosed(l) \/ BackoffElapsed(l)
  <2>1. PICK to \in {"setupPub", "setupCons", "exited", "idle", "connect"} :
          /\ pc' = [pc EXCEPT ![l] = to] /\ UNCHANGED <<pubConn, filled>>
          /\ pc[l] \in {"connected", "setupPub", "setupCons", "backoff"}
    BY <1>3, Zenon
    DEF SetConnected, SetupPublisherHandler, SetupConsumerHandler, BackoffClosed,
        BackoffElapsed, Ended
  <2> QED
    BY <1>1, <2>1, Zenon DEF Locals, LocalsOf
<1>4. CASE DialPublisher(l)
  <2>1. PICK c \in Conns : Unused(c) /\ pubConn' = [pubConn EXCEPT ![l] = c]
    BY <1>4, Zenon DEF DialPublisher, Dialled
  <2>2. /\ pc' = [pc EXCEPT ![l] = "dialCons"] /\ UNCHANGED <<filled, channels, held>>
        /\ pc[l] = "dialPub"
    BY <1>4, Zenon DEF DialPublisher
  <2>3. \A m \in Loops : LocalsOf(m)'
    BY <1>0, <2>1, <2>2, Zenon DEF Locals, LocalsOf
  <2>4. \A m \in Loops : pubConn[m] # c
    BY <2>1, Zenon DEF Unused
  <2>5. \A k, m \in Loops : pubConn'[k] # 0 /\ pubConn'[k] = pubConn'[m] => k = m
    BY <1>0, <2>1, <2>4, Zenon DEF Locals
  <2>6. \A m \in Loops : Keeps(m)
    BY <1>0, <2>1, <2>2, Zenon DEF Keeps
  <2> QED
    BY <2>3, <2>5, <2>6, Zenon DEF Locals
<1>5. CASE DialPublisherFails(l) \/ DialConsumerFails(l) \/ FillFails(l) \/ FillReturns(l)
  <2>1. PICK to \in {"failed", "backoff", "connected"} :
          /\ pc' = [pc EXCEPT ![l] = to]
          /\ pubConn' = [pubConn EXCEPT ![l] = 0] /\ filled' = [filled EXCEPT ![l] = 0]
    BY <1>5, Zenon
    DEF DialPublisherFails, DialConsumerFails, FillFails, FillReturns, ConnectFails, AfterError
  <2>2. \A m \in Loops : LocalsOf(m)'
    BY <1>0, <2>1, Zenon DEF Locals, LocalsOf
  <2>3. \A k, m \in Loops : pubConn'[k] # 0 /\ pubConn'[k] = pubConn'[m] => k = m
    BY <1>0, <2>1, Zenon DEF Locals
  <2>4. \A m \in Loops : Keeps(m)
    BY <1>0, <2>1, Zenon DEF Keeps
  <2> QED
    BY <2>2, <2>3, <2>4, Zenon DEF Locals
<1>6. CASE ConnectDrains(l)
  BY <1>6, Zenon DEF ConnectDrains, Locals, LocalsOf, Keeps, FillMore
<1>7. CASE FillOpens(l)
  <2>1. /\ pc' = [pc EXCEPT ![l] = "send"] /\ UNCHANGED <<pubConn, filled>>
        /\ FillMore(filled[l])
    BY <1>7, Zenon DEF FillOpens
  <2> QED
    BY <1>1, <2>1, Zenon
<1>8. CASE FillSends(l)
  <2>1. /\ pc' = [pc EXCEPT ![l] = "fill"] /\ pubConn' = pubConn
        /\ filled' = [filled EXCEPT ![l] = @ + 1]
    BY <1>8, Zenon DEF FillSends
  <2>2. \A m \in Loops : LocalsOf(m)'
    BY <1>0, <2>1, Zenon DEF Locals, LocalsOf, FillMore
  <2>3. \A m \in Loops : Keeps(m)
    BY <1>0, <1>8, <2>1, Zenon DEF Keeps
  <2> QED
    BY <2>1, <2>2, <2>3, Zenon DEF Locals
<1> QED
  BY <1>2, <1>3, <1>4, <1>5, <1>6, <1>7, <1>8, Zenon DEF LoopStep

(* Every step that does not crash the program.                             *)
LEMMA LocalsStep ==
  ASSUME TypeInv, Locals, [Next]_vars, ~panicked'
  PROVE  Locals' /\ \A m \in Loops : Keeps(m)
<1> USE DEF loopVars
<1>0. pc \in [Loops -> LoopPC]
  BY Zenon DEF TypeInv, LoopTypes, LoopTypeOK
<1>1. ASSUME UNCHANGED <<pc, pubConn, filled>> PROVE Locals' /\ \A m \in Loops : Keeps(m)
  BY <1>1, Zenon DEF Locals, LocalsOf, Keeps, FillMore
<1>2. ASSUME NEW h \in Handlers, HandlerStep(h) PROVE Locals' /\ \A m \in Loops : Keeps(m)
  <2>1. CASE HandlerSelects(h) \/ HandlerDrains(h) \/ HandlerDrained(h)
    BY <1>1, <2>1, Zenon DEF HandlerSelects, HandlerDrains, HandlerDrained
  <2>2. CASE TriggerReconnect(h) /\ pc' # pc
    <3>1. PICK l \in Loops : pc[l] = "idle" /\ pc' = [pc EXCEPT ![l] = "backoff"]
      BY <2>2, Zenon DEF TriggerReconnect, FreeLoop
    <3>2. UNCHANGED <<pubConn, filled>>
      BY <2>2, Zenon DEF TriggerReconnect
    <3>3. \A m \in Loops : LocalsOf(m)'
      BY <1>0, <3>1, <3>2, Zenon DEF Locals, LocalsOf, FillMore
    <3> QED
      BY <3>2, <3>3, Zenon DEF Locals, Keeps
  <2>3. CASE TriggerReconnect(h) /\ pc' = pc
    BY <1>1, <2>3, Zenon DEF TriggerReconnect
  <2> QED
    BY <1>2, <2>1, <2>2, <2>3, Zenon DEF HandlerStep
<1>3. CASE CloseStart \/ CloseStep \/ LoseConnections \/ PooledChannelDies
  BY <1>1, <1>3, Zenon
  DEF CloseStart, CloseStep, CloseSignal, ClosePoolFlag, ClosePoolChannel,
      ClosePoolItems, CloseCurrent, LoseConnections, PooledChannelDies, NonPublisherVars
<1>4. ASSUME NEW p \in Publishers,
             \/ PublishStart(p) \/ PublishCancelled(p) \/ Publish(p) \/ PublishStep(p)
      PROVE  UNCHANGED <<pc, pubConn, filled>>
  BY <1>4, Zenon DEF PublishStart, PublishCancelled, PublishStep, PublishRetry, GetChecks,
     GetReceives, Publish, ReturnChecks, ReturnSelects, NonPublisherVars
<1>5. CASE UNCHANGED vars
  BY <1>1, <1>5, Zenon DEF vars
<1> QED
  BY <1>1, <1>2, <1>3, <1>4, <1>5, LoopLocals, Zenon DEF Next

(* What happens to the channels of c, in the pool and with publishers.     *)
LEMMA TotalFalls ==
  ASSUME NEW a \in Nat, NEW b \in Nat, NEW w \in Nat, NEW u, NEW v,
         \/ u = a /\ v = b
         \/ (Changes(u, a, w, 0) \/ Changes(u, a, w, w)) /\ v = b
         \/ u = a /\ (Changes(v, b, w, 0) \/ Changes(v, b, w, w))
         \/ Changes(u, a, w, 0) /\ Changes(v, b, 0, w)
         \/ Changes(u, a, 0, w) /\ Changes(v, b, w, 0)
  PROVE  u + v <= a + b
BY DEF Changes

LEMMA TotalGrows ==
  ASSUME NEW a \in Nat, NEW b \in Nat, NEW u, NEW v, Changes(u, a, 0, 1), v = b
  PROVE  Changes(u + v, a + b, 0, 1)
BY DEF Changes

(* A bound on the sum that moves along with it.                            *)
LEMMA BoundFollows ==
  ASSUME NEW a \in Nat, NEW b \in Nat, NEW u \in Nat, NEW v \in Nat,
         NEW f \in Nat, NEW g \in Nat, a + b <= f,
         (u + v <= a + b /\ f <= g) \/ (Changes(u + v, a + b, 0, 1) /\ f + 1 <= g)
  PROVE  u + v <= g
BY DEF Changes

LEMMA OneToN == ASSUME NEW n \in Nat PROVE Cardinality(1..n) = n
<1>1. 1 \in Int /\ n \in Int
  OBVIOUS
<1>2. Cardinality(1..n) = IF 1 > n THEN 0 ELSE n - 1 + 1
  BY <1>1, FS_Interval, Zenon
<1> QED
  BY <1>2

Falls(c) == OwnPooled(c)' + OwnLent(c)' <= OwnPooled(c) + OwnLent(c)
Grows(c) == Changes(OwnPooled(c)' + OwnLent(c)', OwnPooled(c) + OwnLent(c), 0, 1)

LEMMA OwnCounts ==
  ASSUME NEW items \in Seq(Channel), NEW hd, NEW c
  PROVE  /\ Cardinality(Pooled(items, Own(c))) \in Nat
         /\ Cardinality(Borrowed(hd, Own(c))) \in Nat
<1>1. IsFiniteSet(Borrowed(hd, Own(c)))
  BY ClientAssumption, FS_Subset, Zenon DEF Borrowed
<1>2. IsFiniteSet(Pooled(items, Own(c)))
  BY PooledCount, Zenon
<1> QED
  BY <1>1, <1>2, FS_CardinalityType, Zenon

LEMMA OwnCountable ==
  ASSUME TypeInv, NEW c
  PROVE  OwnPooled(c) \in Nat /\ OwnLent(c) \in Nat
BY OwnCounts, Zenon DEF OwnPooled, OwnLent, TypeInv, PoolTypeOK

(* A channel counts for its own connection, open or closed.                *)
LEMMA OwnWeight ==
  ASSUME NEW c \in Conns
  PROVE  /\ Weight(Own(c), NoChannel) = 0
         /\ \A ch \in Channel :
              Weight(Own(c), [ch EXCEPT !.up = FALSE]) = Weight(Own(c), ch)
<1>1. NoChannel \notin Own(c)
  BY NoChannelIsNone, Zenon DEF Own
<1>2. ASSUME NEW ch \in Channel
      PROVE  /\ [ch EXCEPT !.up = FALSE] \in Channel
             /\ [ch EXCEPT !.up = FALSE].conn = ch.conn
  BY Zenon DEF Channel
<1> QED
  BY <1>1, <1>2, Zenon DEF Own, Weight

(* Publishers pass the channels of c on, and only fill adds one.           *)
LEMMA OwnStep ==
  ASSUME TypeInv, MovesChannels, ~panicked', NEW c \in Conns
  PROVE  Falls(c) \/ \E l \in Loops : FillSends(l) /\ pubConn[l] = c /\ Grows(c)
<1>0. /\ channels \in Seq(Channel) /\ held \in [Publishers -> Channel \cup {NoChannel}]
      /\ \A l \in Loops : pc[l] = "send" => pubConn[l] \in Conns
  BY Zenon DEF TypeInv, PoolTypeOK, LoopTypes, LoopTypeOK, PublisherTypes, PublisherTypeOK
<1>1. OwnPooled(c) \in Nat /\ OwnLent(c) \in Nat
  BY OwnCountable, Zenon
<1>2. ASSUME held' = held PROVE OwnLent(c)' = OwnLent(c)
  BY <1>2, Zenon DEF OwnLent
<1>3. ASSUME channels' = channels PROVE OwnPooled(c)' = OwnPooled(c)
  BY <1>3, Zenon DEF OwnPooled
<1>4. ASSUME channels # <<>>, channels' = Tail(channels)
      PROVE  Changes(OwnPooled(c)', OwnPooled(c), Weight(Own(c), Head(channels)), 0)
  BY <1>0, <1>4, TailCount, Zenon DEF OwnPooled
<1>5. ASSUME NEW p \in Publishers, NEW ch, Exchanges(p, ch)
      PROVE  Changes(OwnLent(c)', OwnLent(c), Weight(Own(c), held[p]), Weight(Own(c), ch))
  BY <1>5, HeldCount, Zenon DEF OwnLent, Exchanges
<1>6. \A ch : Weight(Own(c), ch) \in Nat
  BY WeightType, Zenon
<1>7. CASE UNCHANGED <<channels, held>>
  BY <1>1, <1>2, <1>3, <1>6, <1>7, TotalFalls, Zenon DEF Falls
<1>8. CASE channels # <<>> /\ channels' = Tail(channels) /\ held' = held
  BY <1>1, <1>2, <1>4, <1>6, <1>8, TotalFalls, Zenon DEF Falls
<1>9. CASE Dies
  <2>1. PICK i \in DOMAIN channels : channels' = [channels EXCEPT ![i].up = FALSE]
    BY <1>9, Zenon DEF Dies
  <2> DEFINE w == Weight(Own(c), channels[i])
             ch == [channels[i] EXCEPT !.up = FALSE]
  <2>2. channels[i] \in Channel
    BY <1>0, <2>1
  <2>3. /\ DOMAIN channels' = DOMAIN channels /\ channels'[i] = ch
        /\ \A j \in DOMAIN channels \ {i} : channels'[j] = channels[j]
    BY <1>0, <2>1
  <2>4. Weight(Own(c), ch) = w
    BY <2>2, OwnWeight, Zenon
  <2>5. Changes(OwnPooled(c)', OwnPooled(c), w, Weight(Own(c), ch))
    BY <1>0, <2>3, ReplaceCount, Zenon DEF OwnPooled
  <2>6. Changes(OwnPooled(c)', OwnPooled(c), w, w) /\ OwnLent(c)' = OwnLent(c)
    BY <1>2, <1>9, <2>4, <2>5, Zenon DEF Dies
  <2> QED
    BY <1>1, <1>6, <2>6, TotalFalls, Zenon DEF Falls
<1>10. ASSUME NEW p \in Publishers, Gets(p) PROVE Falls(c)
  <2> DEFINE w == Weight(Own(c), Head(channels))
  <2>1. Changes(OwnPooled(c)', OwnPooled(c), w, 0)
    BY <1>4, <1>10, Zenon DEF Gets
  <2>2. Changes(OwnLent(c)', OwnLent(c), Weight(Own(c), NoChannel), w)
    BY <1>5, <1>10, Zenon DEF Gets
  <2>3. Changes(OwnLent(c)', OwnLent(c), 0, w)
    BY <2>2, OwnWeight, Zenon
  <2> QED
    BY <1>1, <1>6, <2>1, <2>3, TotalFalls, Zenon DEF Falls
<1>11. ASSUME NEW p \in Publishers, Returns(p) PROVE Falls(c)
  <2> DEFINE w == Weight(Own(c), held[p])
  <2>1. Changes(OwnPooled(c)', OwnPooled(c), 0, w)
    BY <1>0, <1>11, AppendCount, Zenon DEF Returns, OwnPooled
  <2>2. Changes(OwnLent(c)', OwnLent(c), w, Weight(Own(c), NoChannel))
    BY <1>5, <1>11, Zenon DEF Returns
  <2>3. Changes(OwnLent(c)', OwnLent(c), w, 0)
    BY <2>2, OwnWeight, Zenon
  <2> QED
    BY <1>1, <1>6, <2>1, <2>3, TotalFalls, Zenon DEF Falls
<1>12. ASSUME NEW p \in Publishers, Drops(p) PROVE Falls(c)
  <2> DEFINE w == Weight(Own(c), held[p])
  <2>1. Changes(OwnLent(c)', OwnLent(c), w, 0) \/ Changes(OwnLent(c)', OwnLent(c), w, w)
    <3>1. CASE Exchanges(p, NoChannel)
      <4>1. Changes(OwnLent(c)', OwnLent(c), w, Weight(Own(c), NoChannel))
        BY <1>5, <3>1, Zenon
      <4> QED
        BY <4>1, OwnWeight, Zenon
    <3>2. CASE Exchanges(p, [held[p] EXCEPT !.up = FALSE])
      <4>1. Changes(OwnLent(c)', OwnLent(c), w, Weight(Own(c), [held[p] EXCEPT !.up = FALSE]))
        BY <1>5, <3>2, Zenon
      <4>2. Weight(Own(c), [held[p] EXCEPT !.up = FALSE]) = w
        BY <1>12, OwnWeight, Zenon DEF Drops
      <4> QED
        BY <4>1, <4>2, Zenon
    <3> QED
      BY <1>12, <3>1, <3>2, Zenon DEF Drops
  <2>2. OwnPooled(c)' = OwnPooled(c)
    BY <1>3, <1>12, Zenon DEF Drops
  <2> QED
    BY <1>1, <1>6, <2>1, <2>2, TotalFalls, Zenon DEF Falls
<1>13. ASSUME NEW l \in Loops, FillSends(l)
       PROVE  Falls(c) \/ (pubConn[l] = c /\ Grows(c))
  <2> DEFINE ch == [conn |-> pubConn[l], up |-> TRUE]
  <2>1. /\ pc[l] = "send" /\ channels' = Append(channels, ch) /\ held' = held
    BY <1>13, Zenon DEF FillSends, Put, pubVars
  <2>2. ch \in Channel /\ ch.conn = pubConn[l]
    BY <1>0, <2>1 DEF Channel
  <2> HIDE DEF ch
  <2>3. Changes(OwnPooled(c)', OwnPooled(c), 0, Weight(Own(c), ch))
    BY <1>0, <2>1, <2>2, AppendCount, Zenon DEF OwnPooled
  <2>4. /\ pubConn[l] = c => Weight(Own(c), ch) = 1
        /\ pubConn[l] # c => Weight(Own(c), ch) = 0
    <3>1. ch \in Own(c) <=> pubConn[l] = c
      BY <2>2, Zenon DEF Own
    <3> QED
      BY <3>1, Zenon DEF Weight
  <2>5. OwnLent(c)' = OwnLent(c)
    BY <1>2, <2>1, Zenon
  <2>6. CASE pubConn[l] = c
    <3>1. Changes(OwnPooled(c)', OwnPooled(c), 0, 1)
      BY <2>3, <2>4, <2>6, Zenon
    <3>2. Grows(c)
      BY <1>1, <2>5, <3>1, TotalGrows, Zenon DEF Grows
    <3> QED
      BY <2>6, <3>2, Zenon
  <2>7. CASE pubConn[l] # c
    <3>1. Changes(OwnPooled(c)', OwnPooled(c), 0, 0)
      BY <2>3, <2>4, <2>7, Zenon
    <3>2. 0 \in Nat
      OBVIOUS
    <3> QED
      BY <1>1, <2>5, <3>1, <3>2, TotalFalls, Zenon DEF Falls
  <2> QED
    BY <2>6, <2>7, Zenon
<1>14. \/ UNCHANGED <<channels, held>>
       \/ channels # <<>> /\ channels' = Tail(channels) /\ held' = held
       \/ Dies
       \/ \E l \in Loops : FillSends(l)
       \/ \E p \in Publishers : Gets(p) \/ Returns(p) \/ Drops(p)
  BY Zenon DEF MovesChannels, Frame, Ends, Dials, Takes, Skips, FillOpens, TakeAndClose,
     poolVars, pubVars
<1> QED
  BY <1>7, <1>8, <1>9, <1>10, <1>11, <1>12, <1>13, <1>14, Zenon

(* The bound is kept.                                                      *)
LEMMA OwnBoundStep ==
  ASSUME TypeInv, TypeInv', HeldInv, Locals, OwnBound, [Next]_vars, ~panicked'
  PROVE  OwnBound'
<1>0. filled \in [Loops -> Nat] /\ filled' \in [Loops -> Nat]
  BY Zenon DEF TypeInv, LoopTypes, LoopTypeOK
<1>1. pubConn \in [Loops -> 0..MaxConns]
  BY Zenon DEF TypeInv, LoopTypes, LoopTypeOK
<1>2. ~panicked
  BY Zenon DEF Next, vars
<1>3. MovesChannels /\ \A m \in Loops : Keeps(m)
  BY StepMovesChannels, LocalsStep, Zenon
<1> SUFFICES ASSUME NEW m \in Loops, NEW c, c = pubConn'[m], c # 0
             PROVE  OwnPooled(c)' + OwnLent(c)' <= filled'[m]
  BY Zenon DEF OwnBound
<1>4. CASE c = pubConn[m] /\ (filled'[m] = filled[m] \/ FillSends(m))
  <2>1. c \in Conns
    BY <1>1, <1>4 DEF Conns
  <2>2. OwnPooled(c) + OwnLent(c) <= filled[m]
    BY <1>2, <1>4, Zenon DEF OwnBound
  <2>3. OwnPooled(c) \in Nat /\ OwnLent(c) \in Nat
    BY OwnCountable, Zenon
  <2>4. OwnPooled(c)' \in Nat /\ OwnLent(c)' \in Nat
    BY OwnCounts, Zenon DEF OwnPooled, OwnLent, TypeInv, PoolTypeOK
  <2>5. /\ filled[m] <= filled'[m]
        /\ FillSends(m) => filled[m] + 1 <= filled'[m]
    <3>1. /\ filled[m] \in Nat /\ filled'[m] \in Nat
          /\ FillSends(m) => filled'[m] = filled[m] + 1
      BY <1>0, Zenon DEF FillSends
    <3> QED
      BY <1>4, <3>1
  <2>6. CASE Falls(c)
    BY <1>0, <2>2, <2>3, <2>4, <2>5, <2>6, BoundFollows, Zenon DEF Falls
  <2>7. CASE \E l \in Loops : FillSends(l) /\ pubConn[l] = c /\ Grows(c)
    <3>1. FillSends(m) /\ Grows(c)
      BY <1>4, <2>7, Zenon DEF Locals
    <3> QED
      BY <1>0, <2>2, <2>3, <2>4, <2>5, <3>1, BoundFollows, Zenon DEF Grows
  <2> QED
    BY <1>3, <2>1, <2>6, <2>7, OwnStep, Zenon
<1>5. CASE c \in Conns /\ Unused(c) /\ UNCHANGED <<channels, held>>
  <2>1. Pooled(channels, Own(c)) = {} /\ Borrowed(held, Own(c)) = {}
    BY <1>5, Zenon DEF Unused, Pooled, Borrowed, Own
  <2>2. Cardinality(Pooled(channels', Own(c))) = 0 /\ Cardinality(Borrowed(held', Own(c))) = 0
    BY <1>5, <2>1, FS_EmptySet, Zenon
  <2> QED
    BY <1>0, <2>2 DEF OwnPooled, OwnLent
<1> QED
  BY <1>3, <1>4, <1>5, Zenon DEF Keeps

(* A pool of which every item is in K.                                     *)
LEMMA PoolItems ==
  ASSUME NEW items \in Seq(Channel)
  PROVE  \A i \in DOMAIN items : items[i] \in Channel
OBVIOUS

LEMMA PooledAll ==
  ASSUME NEW items \in Seq(Channel), NEW K, \A i \in DOMAIN items : items[i] \in K
  PROVE  Len(items) \in Nat /\ Cardinality(Pooled(items, K)) = Len(items)
<1>1. Len(items) \in Nat /\ DOMAIN items = 1..Len(items)
  OBVIOUS
<1>2. Pooled(items, K) = 1..Len(items)
  BY <1>1, Zenon DEF Pooled
<1> QED
  BY <1>1, <1>2, OneToN, Zenon

(* A pool full of fill's own channels would hold all that fill may open.   *)
LEMMA OthersBlock == TypeInv /\ Locals /\ OwnBound => FillWaitsForOthers
<1> SUFFICES ASSUME TypeInv, Locals, OwnBound, NEW l \in Loops, ~panicked, pc[l] = "send",
                    ~HasRoom, \A i \in DOMAIN channels : channels[i].conn = pubConn[l]
             PROVE  FALSE
  BY Zenon DEF FillWaitsForOthers
<1> DEFINE c == pubConn[l]
<1>1. /\ channels \in Seq(Channel) /\ filled[l] \in Nat /\ c \in Conns
  BY Zenon DEF TypeInv, PoolTypeOK, LoopTypes, LoopTypeOK
<1>2. filled[l] < PoolSize /\ ~(Len(channels) < PoolSize)
  BY Zenon DEF Locals, LocalsOf, FillMore, HasRoom
<1>3. \A i \in DOMAIN channels : channels[i] \in Own(c)
  BY <1>1, PoolItems, Zenon DEF Own
<1>4. Len(channels) \in Nat /\ Cardinality(Pooled(channels, Own(c))) = Len(channels)
  BY <1>1, <1>3, PooledAll, Zenon
<1>5. OwnPooled(c) + OwnLent(c) <= filled[l]
  <2>1. c # 0
    BY <1>1 DEF Conns
  <2> QED
    BY <2>1, Zenon DEF OwnBound
<1>6. OwnPooled(c) = Len(channels) /\ OwnLent(c) \in Nat
  BY <1>4, OwnCountable, Zenon DEF OwnPooled
<1> QED
  BY <1>1, <1>2, <1>4, <1>5, <1>6, PoolAssumption

(* fill waits only for channels of other connections: the pool that blocks *)
(* it always holds one that a publisher returned after connect's drain, so *)
(* channels of an earlier connection are the only cause of a reconnect that*)
(* hangs in fill, for every pool size and any number of publishers.        *)
THEOREM FillBlockedByOthers == Spec => []FillWaitsForOthers
<1> DEFINE Inv == HeldInv /\ (~panicked => Locals) /\ OwnBound
<1>1. Init => Inv
  <2> SUFFICES ASSUME Init PROVE Inv
    OBVIOUS
  <2>1. HeldInv
    BY Zenon DEF Init, HeldInv
  <2>2. \A l \in Loops : pubConn[l] = 0 /\ filled[l] = 0 /\ pc[l] \in {"dialPub", "idle"}
    BY Zenon DEF Init
  <2>3. Locals
    BY <2>2, Zenon DEF Locals, LocalsOf
  <2>4. OwnBound
    BY <2>2, Zenon DEF OwnBound
  <2> QED
    BY <2>1, <2>3, <2>4, Zenon
<1>2. TypeInv /\ TypeInv' /\ Inv /\ [Next]_vars => Inv'
  <2> SUFFICES ASSUME TypeInv, TypeInv', Inv, [Next]_vars PROVE Inv'
    OBVIOUS
  <2>1. HeldInv'
    BY HeldStep, Zenon
  <2>2. ASSUME ~panicked' PROVE ~panicked
    BY <2>2, Zenon DEF Next, vars
  <2>3. ASSUME ~panicked' PROVE Locals'
    BY <2>2, <2>3, LocalsStep, Zenon
  <2>4. OwnBound'
    <3>1. CASE panicked'
      BY <3>1, Zenon DEF OwnBound
    <3>2. CASE ~panicked'
      BY <2>2, <3>2, OwnBoundStep, Zenon
    <3> QED
      BY <3>1, <3>2, Zenon
  <2> QED
    BY <2>1, <2>3, <2>4, Zenon
<1>3. IInv => TypeInv
  BY DEF IInv
<1>4. TypeInv /\ Inv => FillWaitsForOthers
  BY OthersBlock, Zenon DEF FillWaitsForOthers
<1> QED
  BY Invariance, <1>1, <1>2, <1>3, <1>4, PTL DEF Spec
=============================================================================
