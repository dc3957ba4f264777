------------------------------ MODULE Topology ------------------------------
(***************************************************************************)
(* rabbitmq/topology.go: declarations of exchanges, queues and bindings,   *)
(* the cache of what was declared, and restoreTopology, which the          *)
(* reconnect loop runs once connect has stored StateConnected.  Callers    *)
(* declare at the same time, and a restore that is still under way when    *)
(* the next reconnection succeeds runs beside the next restore.            *)
(*                                                                         *)
(* Of the connections (module RabbitClient) this module keeps what a       *)
(* declaration can see: the client's state, the current pair of            *)
(* connections, which connections are gone, and the handlers that will     *)
(* call triggerReconnect because of it.                                    *)
(***************************************************************************)
EXTENDS Integers, FiniteSets, Sequences

CONSTANTS
  Callers,    \* goroutines that set up topology
  MaxCalls,   \* bound: calls of the setup functions
  MaxLosses,  \* bound: connections lost (publisher and consumer connections)
  MaxFaults   \* bound: declarations the broker refuses

ASSUME TopologyAssumption ==
  /\ MaxCalls \in Nat /\ MaxLosses \in Nat /\ MaxFaults \in Nat
  /\ Callers \cap Nat = {}   \* restores are named by numbers

VARIABLES
  state,     \* Client.state
  link,      \* Client.publisherConn and consumerConn: the pairs are numbered
  watched,   \* the last pair that handlers were started for
  lost,      \* connections that are gone
  events,    \* lost connections whose handler still has to react
  broker,    \* what exists at the broker
  cache,     \* Client.topology: exchanges, queues and bindings
  pc,        \* where each caller and each restore is
  todo,      \* what it still has to declare
  chan,      \* the connection of its channel
  declared,  \* history: declarations of callers that were cached
  dropped,   \* history: declarations a failed restore did not get to
  missed,    \* history: cached after the last snapshot, lost before it
  calls, faults

clientVars == <<state, link, watched, lost, events>>
vars == <<clientVars, broker, cache, pc, todo, chan, declared, dropped, missed,
          calls, faults>>

Links == 1..(1 + MaxLosses)
Conns == Links \X {"publisher", "consumer"}
ConsumerConn(l) == <<l, "consumer">>
Restores == Links \ {1}
Procs == Callers \cup Restores

(* What SetupDeadLetterExchange and SetupQueueWithDLX declare for a queue. *)
Exchanges == {"dlx"}
Queues == {"main", "retry", "parking-lot"}
Bindings == {"retry binding", "parking-lot binding"}
Entities == Exchanges \cup Queues \cup Bindings
Kinds == {"exchange", "queue", "binding"}
OfKind(k) ==
  CASE k = "exchange" -> Exchanges [] k = "queue" -> Queues [] k = "binding" -> Bindings
KindOf(e) == CHOOSE k \in Kinds : e \in OfKind(k)

(* A binding is refused unless its exchange and its queue exist.           *)
Needs(e) ==
  CASE e = "retry binding" -> {"dlx", "retry"}
    [] e = "parking-lot binding" -> {"dlx", "parking-lot"}
    [] OTHER -> {}

Positions(seq, e) == {i \in DOMAIN seq : seq[i] = e}
Occurrences(seq, e) == Cardinality(Positions(seq, e))

TypeOK ==
  /\ state \in {"Connecting", "Connected"}
  /\ link \in Links /\ watched \in Links
  /\ lost \subseteq Conns /\ Cardinality(lost) <= MaxLosses /\ events \subseteq lost
  /\ broker \subseteq Entities
  /\ DOMAIN cache = Kinds /\ \A k \in Kinds : cache[k] \in Seq(OfKind(k))
  /\ pc \in [Procs -> {"idle", "snapshot", "check", "open", "declare", "cache", "failed"}]
  /\ todo \in [Procs -> Seq(Entities)]
  /\ chan \in [Procs -> Links \cup {0}]
  /\ declared \in [Entities -> Nat] /\ dropped \in [Entities -> Nat]
  /\ missed \subseteq Entities
  /\ calls \in 0..MaxCalls /\ faults \in 0..MaxFaults

EmptyCache == [k \in Kinds |-> <<>>]

(* NewClient has connected.                                                *)
Init ==
  /\ state = "Connected"
  /\ link = 1 /\ watched = 1 /\ lost = {} /\ events = {}
  /\ broker = {}
  /\ cache = EmptyCache
  /\ pc = [p \in Procs |-> "idle"]
  /\ todo = [p \in Procs |-> <<>>]
  /\ chan = [p \in Procs |-> 0]
  /\ declared = [e \in Entities |-> 0]
  /\ dropped = [e \in Entities |-> 0]
  /\ missed = {}
  /\ calls = 0 /\ faults = 0

-----------------------------------------------------------------------------
(* Connections.                                                            *)

(* A connection is lost: of the current pair, or one of an earlier pair    *)
(* that connect has left open.  With the last one perhaps the broker goes, *)
(* and what was not durable with it.                                       *)
Lose(x) ==
  /\ x[1] <= link /\ x \notin lost
  /\ Cardinality(lost) < MaxLosses /\ lost' = lost \cup {x}
  /\ events' = events \cup {x}
  /\ broker' \in IF (1..link) \X {"publisher", "consumer"} \subseteq lost'
                   THEN {broker, {}} ELSE {broker}
  /\ UNCHANGED <<state, link, watched, cache, pc, todo, chan, declared, dropped,
                 missed, calls, faults>>

(* handleConnectionClose calls triggerReconnect: only a connected client   *)
(* starts a reconnect loop.  Every handler reacts once, whatever has       *)
(* happened to the client in the meantime.                                 *)
Trigger(x) ==
  /\ x \in events /\ x[1] <= watched
  /\ events' = events \ {x}
  /\ state' = "Connecting"
  /\ UNCHANGED <<link, watched, lost, broker, cache, pc, todo, chan, declared, dropped,
                 missed, calls, faults>>

(* The reconnect loop: connect has dialled and assigns both connections.   *)
(* The broken form goes on with the loop when connect has succeeded.       *)
AssignConnectionAgain ==
  /\ (state = "Connecting" \/ link > 1) /\ link = watched
  /\ state' = "Connecting"
  /\ link' = link + 1
  /\ UNCHANGED <<watched, lost, events, broker, cache, pc, todo, chan, declared,
                 dropped, missed, calls, faults>>
AssignConnection ==
  /\ state = "Connecting" /\ link = watched
  /\ link' = link + 1
  /\ UNCHANGED <<state, watched, lost, events, broker, cache, pc, todo, chan, declared,
                 dropped, missed, calls, faults>>

(* connect stores StateConnected, and restoreTopology begins.  The broken  *)
(* form leaves it out.                                                     *)
AfterConnectNothing == "idle"
AfterConnect == "snapshot"

SetConnected ==
  /\ state = "Connecting" /\ link # watched
  /\ state' = "Connected"
  /\ watched' = link
  /\ pc' = [pc EXCEPT ![link] = AfterConnect]
  /\ UNCHANGED <<link, lost, events, broker, cache, todo, chan, declared, dropped,
                 missed, calls, faults>>

-----------------------------------------------------------------------------
(* Who declares what.                                                      *)

(* SetupDeadLetterExchange, in the order of the code.                      *)
SetupDeadLetterExchange ==
  <<"dlx", "retry", "retry binding", "parking-lot", "parking-lot binding">>
SetupQueueWithDLX == <<"main">>

Call(c, plan) ==
  /\ pc[c] = "idle"
  /\ calls < MaxCalls /\ calls' = calls + 1
  /\ todo' = [todo EXCEPT ![c] = plan]
  /\ pc' = [pc EXCEPT ![c] = "check"]
  /\ UNCHANGED <<clientVars, broker, cache, chan, declared, dropped, missed, faults>>

(* The order in which a snapshot is declared again.  The broken form has   *)
(* the bindings first.                                                     *)
BindingsFirst(c) == c["binding"] \o c["exchange"] \o c["queue"]
RestoreOrder(c) == c["exchange"] \o c["queue"] \o c["binding"]

(* What a snapshot leaves behind.  The broken form does not reset.         *)
AfterSnapshotKeeps(c) == c
AfterSnapshot(c) == EmptyCache

(* restoreTopology: the snapshot and the reset, under topology.mu.         *)
Snapshot(r) ==
  /\ pc[r] = "snapshot"
  /\ todo' = [todo EXCEPT ![r] = RestoreOrder(cache)]
  /\ cache' = AfterSnapshot(cache)
  /\ pc' = [pc EXCEPT ![r] = IF RestoreOrder(cache) = <<>> THEN "idle" ELSE "check"]
  /\ UNCHANGED <<clientVars, broker, chan, declared, dropped, missed, calls,
                 faults>>

-----------------------------------------------------------------------------
(* One declaration (DeclareExchange, DeclareQueue, BindQueue) of p.        *)

(* The setup function or the restore returns the error, and what it had    *)
(* yet to declare is left out.                                             *)
Fails(p) ==
  /\ pc' = [pc EXCEPT ![p] = IF p \in Restores THEN "failed" ELSE "idle"]
  /\ todo' = [todo EXCEPT ![p] = <<>>]
  /\ chan' = [chan EXCEPT ![p] = 0]
  /\ dropped' = IF p \in Restores
                  THEN [e \in Entities |-> dropped[e] + Occurrences(todo[p], e)]
                  ELSE dropped
  /\ UNCHANGED <<broker, cache, declared, missed>>

(* CreateConsumerChannel: the state, then the channel.                     *)
Check(p) ==
  /\ pc[p] = "check"
  /\ \/ /\ state = "Connected"
        /\ pc' = [pc EXCEPT ![p] = "open"]
        /\ UNCHANGED <<broker, cache, todo, chan, declared, dropped, missed>>
     \/ state # "Connected" /\ Fails(p)
  /\ UNCHANGED <<clientVars, calls, faults>>

Open(p) ==
  /\ pc[p] = "open"
  /\ \/ /\ ConsumerConn(link) \notin lost
        /\ chan' = [chan EXCEPT ![p] = link]
        /\ pc' = [pc EXCEPT ![p] = "declare"]
        /\ UNCHANGED <<broker, cache, todo, declared, dropped, missed>>
     \/ ConsumerConn(link) \in lost /\ Fails(p)
  /\ UNCHANGED <<clientVars, calls, faults>>

(* The broker declares, or refuses: for a missing end of a binding, or for *)
(* a reason of its own.                                                    *)
Declare(p) ==
  LET e == Head(todo[p])
      accepted == ConsumerConn(chan[p]) \notin lost /\ Needs(e) \subseteq broker
  IN /\ pc[p] = "declare"
     /\ \/ /\ accepted
           /\ broker' = broker \cup {e}
           /\ pc' = [pc EXCEPT ![p] = "cache"]
           /\ UNCHANGED <<cache, todo, chan, declared, dropped, missed, faults>>
        \/ ~accepted /\ Fails(p) /\ UNCHANGED faults
        \/ faults < MaxFaults /\ faults' = faults + 1 /\ Fails(p)
     /\ UNCHANGED <<clientVars, calls>>

Cached(e) == [cache EXCEPT ![KindOf(e)] = Append(@, e)]

(* A restore will still take a snapshot because of what has happened.      *)
SnapshotToCome ==
  \/ state = "Connecting" \/ events # {}
  \/ \E r \in Restores : pc[r] = "snapshot"

(* The append under topology.mu; then the next declaration.                *)
Cache(p) ==
  LET e == Head(todo[p])
  IN /\ pc[p] = "cache"
     /\ cache' = Cached(e)
     /\ todo' = [todo EXCEPT ![p] = Tail(@)]
     /\ pc' = [pc EXCEPT ![p] = IF Len(todo[p]) = 1 THEN "idle" ELSE "check"]
     /\ chan' = [chan EXCEPT ![p] = 0]
     /\ declared' = IF p \in Callers THEN [declared EXCEPT ![e] = @ + 1] ELSE declared
     /\ missed' = IF e \in broker \/ SnapshotToCome THEN missed ELSE missed \cup {e}
     /\ UNCHANGED <<clientVars, broker, dropped, calls, faults>>

-----------------------------------------------------------------------------
Reconnect == (\E x \in Conns : Trigger(x)) \/ AssignConnection \/ SetConnected
DeclareStep(p) == Check(p) \/ Open(p) \/ Declare(p) \/ Cache(p)

Next ==
  \/ (\E x \in Conns : Lose(x)) \/ Reconnect
  \/ \E c \in Callers, plan \in {SetupDeadLetterExchange, SetupQueueWithDLX} : Call(c, plan)
  \/ \E r \in Restores : Snapshot(r)
  \/ \E p \in Procs : DeclareStep(p)

Spec == Init /\ [][Next]_vars

(* The Go scheduler runs what can run, and the broker can be reached again *)
(* (dials that fail only delay AssignConnection).                          *)
FairSpec ==
  /\ Spec
  /\ WF_vars(Reconnect)
  /\ \A r \in Restores : WF_vars(Snapshot(r))
  /\ \A p \in Procs : WF_vars(DeclareStep(p))

-----------------------------------------------------------------------------
(* Properties.                                                             *)

(* The places where e stands in what the restores still have to declare.   *)
Restoring(e) == UNION {{r} \X Positions(todo[r], e) : r \in Restores}

(* No declaration is duplicated and none disappears unnoticed, however     *)
(* restores overlap with each other and with callers: what callers have    *)
(* declared is in the cache, in the hands of a restore, or was dropped by  *)
(* one that failed ("no unbounded growth", topology.go:124).               *)
Conserved ==
  \A e \in Entities :
    declared[e] = Occurrences(cache[KindOf(e)], e) + dropped[e]
                    + Cardinality(Restoring(e))

(* After the loss of one connection the first restore of a client fails    *)
(* only if the broker refuses a declaration: exchanges and queues come     *)
(* before the bindings that need them.  Otherwise a second connection has  *)
(* been lost and has reached the restore: as the connection it declares    *)
(* on, or through the handler that sends the client back to reconnecting.  *)
(* That may be the other connection of the pair whose loss the restore     *)
(* answers, its handler being late (client.go:238).                        *)
FirstRestoreSucceeds ==
  2 \in Restores /\ pc[2] = "failed"
    => \/ faults > 0
       \/ /\ Cardinality(lost) > 1
          /\ ConsumerConn(2) \in lost \/ state = "Connecting" \/ link > 2

(* What is in the cache is at the broker again in the end, unless its      *)
(* declaration crossed the loss and the restore.                           *)
CachedIsRestored ==
  <>[](\A k \in Kinds : \A i \in DOMAIN cache[k] : cache[k][i] \in broker \cup missed)
=============================================================================
