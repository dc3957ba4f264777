----------------------------- MODULE ChannelPool -----------------------------
(***************************************************************************)
(* rabbitmq/pool.go: the buffered Go channel that holds the pre-allocated  *)
(* AMQP channels publishers borrow, together with the part of the AMQP     *)
(* library the pool relies on (connections and the channels opened on      *)
(* them).  The operators here are the steps of fill, get, returnCh, drain  *)
(* and close; the processes that take them are in RabbitClient.            *)
(***************************************************************************)
EXTENDS Integers, Sequences

CONSTANTS PoolSize,     \* config.ChannelPoolSize
          MaxConns      \* bound: AMQP connections in use at the same time

(* config.ApplyDefaults rejects a pool size below 1.                       *)
ASSUME PoolAssumption == PoolSize \in Nat \ {0} /\ MaxConns \in Nat

VARIABLES
  conn,         \* AMQP library: whether each connection is open
  chans,        \* AMQP library: channels open on each connection
  channels,     \* channelPool.channels: the buffered items, oldest first
  poolClosed,   \* channelPool.closed
  chanClosed,   \* close(p.channels) has been executed
  panicked      \* a goroutine panicked, which ends the process

poolVars == <<channels, poolClosed, chanClosed>>
amqpVars == <<conn, chans>>

Conns == 1..MaxConns

(* A channel is known by its connection and by whether the broker or the   *)
(* client has closed it on its own.                                        *)
Channel == [conn : Conns, up : BOOLEAN]

PoolTypeOK ==
  /\ conn \in [Conns -> {"open", "closed"}]
  /\ chans \in [Conns -> Int]
  /\ channels \in Seq(Channel) /\ Len(channels) <= PoolSize
  /\ poolClosed \in BOOLEAN
  /\ chanClosed \in BOOLEAN
  /\ panicked \in BOOLEAN

PoolInit ==
  /\ conn = [c \in Conns |-> "closed"]
  /\ chans = [c \in Conns |-> 0]
  /\ channels = <<>>
  /\ poolClosed = FALSE
  /\ chanClosed = FALSE
  /\ panicked = FALSE

-----------------------------------------------------------------------------
(* The AMQP library.                                                       *)

(* ch.IsClosed(): a channel dies alone or with its connection.             *)
IsClosed(ch) == ~ch.up \/ conn[ch.conn] # "open"

(* ch.Close(), which is a no-op on a channel that is already closed.       *)
CloseChannel(ch) ==
  chans' = IF IsClosed(ch) THEN chans ELSE [chans EXCEPT ![ch.conn] = @ - 1]

(* conn.Channel() on an open connection.                                   *)
OpenChannel(c) ==
  /\ conn[c] = "open"
  /\ chans' = [chans EXCEPT ![c] = @ + 1]

-----------------------------------------------------------------------------
(* Steps of the pool.                                                      *)

(* The buffered send of fill and returnCh has room.  The broken form makes *)
(* the buffer one place too large.                                         *)
HasRoomOneMore == Len(channels) <= PoolSize
HasRoom == Len(channels) < PoolSize

(* p.channels <- ch                                                        *)
Put(ch) == channels' = Append(channels, ch)

(* One receive of drain, or of the range loop of close: the item is taken  *)
(* out and closed.                                                         *)
TakeAndClose ==
  /\ channels # <<>>
  /\ channels' = Tail(channels)
  /\ CloseChannel(Head(channels))
  /\ UNCHANGED <<conn, poolClosed, chanClosed>>

(* drain returns on the default case of its select.  A receive from a      *)
(* closed Go channel is always ready, so the default case is never taken   *)
(* once close(p.channels) has run.                                         *)
DrainReturns == channels = <<>> /\ ~chanClosed

(* The default case of returnCh's select.  The broken form forgets that    *)
(* the pool no longer references the channel.                              *)
DiscardNoClose(ch) == UNCHANGED chans
Discard(ch) == CloseChannel(ch)

(* The three outcomes of returnCh's select on an open channel.             *)
ReturnSelect(ch) ==
  \/ /\ chanClosed
     /\ panicked' = TRUE
     /\ UNCHANGED <<channels, chans>>
  \/ /\ ~chanClosed /\ HasRoom
     /\ Put(ch)
     /\ UNCHANGED <<chans, panicked>>
  \/ /\ ~chanClosed /\ ~HasRoom
     /\ Discard(ch)
     /\ UNCHANGED <<channels, panicked>>

(* The loop condition of fill; the broken form runs one time too many.     *)
FillMoreOffByOne(i) == i <= PoolSize
FillMore(i) == i < PoolSize

(* close(p.channels); the broken form only sets the flag.                  *)
CloseChannelsNot == UNCHANGED chanClosed
CloseChannels == chanClosed' = TRUE
=============================================================================
