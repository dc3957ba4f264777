--------------------------- MODULE TopologyProofs ---------------------------
(***************************************************************************)
(* Proofs about module Topology: its types, that the first restore of a    *)
(* client declares bindings after what they need (FirstRestoreSucceeds),   *)
(* and that no cached declaration is duplicated or lost (Conserved).       *)
(***************************************************************************)
EXTENDS Topology, FiniteSetTheorems, TLAPS

(* A caller or a restore that has something left to declare.               *)
Busy == {"check", "open", "declare", "cache"}

(* A reconnect loop that has not assigned its connection yet.              *)
Dialling == IF state = "Connecting" /\ link = watched THEN 1 ELSE 0

(* Every reconnection is paid for by a lost connection: the handlers' calls*)
(* of triggerReconnect are the only way into the reconnect loop, the first *)
(* of them for a connection of the first pair.                             *)
Paid ==
  /\ Cardinality(events) + (link - 1) + Dialling <= Cardinality(lost)
  /\ state = "Connecting" \/ link > 1 => \E x \in lost : x[1] = 1

Control ==
  /\ \A p \in Procs : pc[p] \in Busy <=> todo[p] # <<>>
  /\ watched <= link /\ link <= watched + 1
  /\ state = "Connected" => link = watched
  /\ \A r \in Restores : r > watched => pc[r] = "idle"
  /\ Paid

-----------------------------------------------------------------------------
(* Facts about the constant parts of the model.                            *)

(* Restores are not callers.                                               *)
LEMMA Names == /\ Callers \cap Restores = {} /\ Links \subseteq Nat
               /\ Restores \subseteq Procs /\ Callers \subseteq Procs
               /\ Restores \subseteq Links
BY TopologyAssumption DEF Restores, Links, Procs

(* Every entity has one kind.                                              *)
LEMMA KindOfEntity ==
  ASSUME NEW e \in Entities
  PROVE  /\ KindOf(e) \in Kinds /\ e \in OfKind(KindOf(e))
         /\ \A k \in Kinds : e \in OfKind(k) => k = KindOf(e)
<1>1. \E k \in Kinds : e \in OfKind(k)
  BY Zenon DEF Entities, Kinds, OfKind
<1>2. KindOf(e) \in Kinds /\ e \in OfKind(KindOf(e))
  BY <1>1, Zenon DEF KindOf
<1>3. \A k, m \in Kinds : e \in OfKind(k) /\ e \in OfKind(m) => k = m
  BY Zenon DEF Entities, Kinds, OfKind, Exchanges, Queues, Bindings
<1> QED
  BY <1>2, <1>3, Zenon

(* The setup functions and the restores declare entities.                  *)
LEMMA PlansAreEntities ==
  /\ SetupDeadLetterExchange \in Seq(Entities) /\ SetupDeadLetterExchange # <<>>
  /\ SetupQueueWithDLX \in Seq(Entities) /\ SetupQueueWithDLX # <<>>
BY DEF SetupDeadLetterExchange, SetupQueueWithDLX, Entities, Exchanges, Queues, Bindings

(* The cache of each kind is a sequence of entities.                       *)
LEMMA CacheOfKind ==
  ASSUME TypeOK, NEW k \in Kinds
  PROVE  cache[k] \in Seq(OfKind(k)) /\ cache[k] \in Seq(Entities)
<1>1. OfKind(k) \subseteq Entities
  BY Zenon DEF Kinds, OfKind, Entities
<1> QED
  BY <1>1 DEF TypeOK

(* A sequence of length zero is empty.                                     *)
LEMMA NoneLeft == ASSUME NEW t \in Seq(Entities), Len(t) = 0 PROVE t = <<>>
OBVIOUS

(* The head and the tail of what is left to declare.                       *)
LEMMA HeadTail ==
  ASSUME NEW s \in Seq(Entities), s # <<>>
  PROVE  Head(s) \in Entities /\ Tail(s) \in Seq(Entities) /\ Len(s) \in Nat
         /\ Head(s) = s[1] /\ Len(s) >= 1 /\ (Tail(s) # <<>> <=> Len(s) # 1)
<1>1. Head(s) \in Entities /\ Tail(s) \in Seq(Entities) /\ Len(s) \in Nat
      /\ Head(s) = s[1] /\ Len(s) >= 1
  OBVIOUS
<1>2. Len(Tail(s)) = Len(s) - 1
  OBVIOUS
<1> DEFINE t == Tail(s)
<1>3. t \in Seq(Entities) /\ Len(t) = Len(s) - 1
  BY <1>1, <1>2, Zenon
<1> HIDE DEF t
<1>4. t = <<>> => Len(t) = 0
  OBVIOUS
<1>5. Len(t) = 0 => t = <<>>
  BY <1>3, NoneLeft, Zenon
<1>6. t # <<>> <=> Len(s) # 1
  BY <1>1, <1>3, <1>4, <1>5
<1> QED
  BY <1>1, <1>6, Zenon DEF t

(* There are finitely many connections.                                    *)
LEMMA LostCount ==
  ASSUME TypeOK
  PROVE  /\ IsFiniteSet(lost) /\ Cardinality(lost) \in Nat
         /\ IsFiniteSet(events) /\ Cardinality(events) \in Nat
<1> DEFINE n == 1 + MaxLosses
           Ends == {"publisher", "consumer"}
<1>1. n \in Nat
  BY TopologyAssumption
<1>2. IsFiniteSet(Ends)
  <2> DEFINE one == {"publisher"}
  <2>1. Ends = one \cup {"consumer"} /\ IsFiniteSet(one)
    BY FS_Singleton, Zenon
  <2> HIDE DEF Ends, one
  <2> QED
    BY <2>1, FS_AddElement, Zenon
<1>3. IsFiniteSet(Conns)
  <2> HIDE DEF n, Ends
  <2>1. IsFiniteSet(1..n)
    BY <1>1, FS_Interval
  <2>2. IsFiniteSet((1..n) \X Ends)
    BY <1>2, <2>1, FS_Product, Zenon
  <2> QED
    BY <2>2, Zenon DEF Conns, Links, n, Ends
<1>4. lost \subseteq Conns /\ events \subseteq lost
  BY Zenon DEF TypeOK
<1> QED
  BY <1>3, <1>4, FS_Subset, FS_CardinalityType, Zenon

(* A set of two elements has more than one.                                *)
LEMMA TwoAreMore ==
  ASSUME NEW S, IsFiniteSet(S), NEW x \in S, NEW y \in S, x # y
  PROVE  Cardinality(S) > 1
<1>1. IsFiniteSet(S \ {x}) /\ Cardinality(S \ {x}) = Cardinality(S) - 1
  BY FS_RemoveElement, Zenon
<1>2. Cardinality(S \ {x}) \in Nat /\ Cardinality(S) \in Nat
  BY <1>1, FS_CardinalityType, Zenon
<1>3. Cardinality(S \ {x}) # 0
  <2>1. y \in S \ {x}
    BY Zenon
  <2> DEFINE T == S \ {x}
  <2>2. T # {} /\ IsFiniteSet(T)
    BY <1>1, <2>1, Zenon
  <2> HIDE DEF T
  <2>3. Cardinality(T) # 0
    BY <2>2, FS_EmptySet, Zenon
  <2> QED
    BY <2>3, Zenon DEF T
<1> QED
  BY <1>1, <1>2, <1>3

(* A lost connection adds one reaction to come.                            *)
LEMMA LoseAdds ==
  ASSUME TypeOK, NEW x \in Conns, Lose(x)
  PROVE  /\ Cardinality(events') = Cardinality(events) + 1
         /\ Cardinality(lost') = Cardinality(lost) + 1
<1>1. x \notin lost /\ x \notin events
  BY Zenon DEF TypeOK, Lose
<1>2. lost' = lost \cup {x} /\ events' = events \cup {x}
  BY Zenon DEF Lose
<1> QED
  BY <1>1, <1>2, LostCount, FS_AddElement, Zenon

(* A reaction that happens is no longer to come.                           *)
LEMMA TriggerTakes ==
  ASSUME TypeOK, NEW x \in Conns, Trigger(x)
  PROVE  Cardinality(events') = Cardinality(events) - 1
<1>1. x \in events /\ events' = events \ {x}
  BY Zenon DEF Trigger
<1> QED
  BY <1>1, LostCount, FS_RemoveElement, Zenon

-----------------------------------------------------------------------------
(* Types.                                                                  *)

(* Fails leaves types as they are.                                         *)
LEMMA FailsType ==
  ASSUME TypeOK, NEW p \in Procs, Fails(p)
  PROVE  /\ broker' \subseteq Entities /\ cache' = cache
         /\ pc' \in [Procs -> {"idle", "snapshot", "check", "open", "declare", "cache",
                               "failed"}]
         /\ todo' \in [Procs -> Seq(Entities)] /\ chan' \in [Procs -> Links \cup {0}]
         /\ declared' = declared /\ dropped' \in [Entities -> Nat] /\ missed' = missed
<1>1. \A e \in Entities : Occurrences(todo[p], e) \in Nat
  <2> SUFFICES ASSUME NEW e \in Entities PROVE Occurrences(todo[p], e) \in Nat
    OBVIOUS
  <2>1. todo[p] \in Seq(Entities)
    BY Zenon DEF TypeOK
  <2>2. IsFiniteSet(1..Len(todo[p]))
    BY <2>1, FS_Interval
  <2>3. Positions(todo[p], e) \subseteq 1..Len(todo[p])
    BY <2>1 DEF Positions
  <2> QED
    BY <2>2, <2>3, FS_Subset, FS_CardinalityType, Zenon DEF Occurrences
<1>2. dropped' \in [Entities -> Nat]
  <2> DEFINE more(e) == dropped[e] + Occurrences(todo[p], e)
  <2>1. \A e \in Entities : more(e) \in Nat
    BY <1>1 DEF TypeOK
  <2>2. dropped' = [e \in Entities |-> more(e)] \/ dropped' = dropped
    BY Zenon DEF Fails
  <2> HIDE DEF more
  <2> QED
    BY <2>1, <2>2, Zenon DEF TypeOK
<1>3. todo' \in [Procs -> Seq(Entities)]
  BY DEF Fails, TypeOK
<1> QED
  BY <1>2, <1>3, Zenon DEF Fails, TypeOK

(* A step keeps the types, given that the reconnections are paid for.      *)
LEMMA TypeStep == TypeOK /\ Control /\ [Next]_vars => TypeOK'
<1> SUFFICES ASSUME TypeOK, Control, [Next]_vars PROVE TypeOK'
  OBVIOUS
<1> USE DEF clientVars
<1>0. /\ link \in Nat /\ watched \in Nat /\ Links \subseteq Nat
      /\ Cardinality(lost) \in Nat /\ Cardinality(events) \in Nat
  BY TopologyAssumption, LostCount DEF TypeOK, Links
<1>1. ASSUME NEW x \in Conns, Lose(x) PROVE TypeOK'
  <2>1. lost' \subseteq Conns /\ events' \subseteq lost'
    BY <1>1, Zenon DEF Lose, TypeOK
  <2>2. Cardinality(lost') <= MaxLosses
    <3>1. Cardinality(lost) < MaxLosses /\ Cardinality(lost') = Cardinality(lost) + 1
      BY <1>1, LoseAdds, Zenon DEF Lose
    <3> QED
      BY <1>0, <3>1, TopologyAssumption
  <2>3. broker' \subseteq Entities
    BY <1>1, Zenon DEF Lose, TypeOK
  <2> QED
    BY <1>1, <2>1, <2>2, <2>3, Zenon DEF Lose, TypeOK
<1>2. ASSUME NEW x \in Conns, Trigger(x) PROVE TypeOK'
  BY <1>2, Zenon DEF Trigger, TypeOK
<1>3. CASE AssignConnection
  <2>1. link + 1 \in Links
    BY <1>3, <1>0, TopologyAssumption
    DEF AssignConnection, Control, Paid, Dialling, TypeOK, Links
  <2> QED
    BY <1>3, <2>1, Zenon DEF AssignConnection, TypeOK
<1>4. CASE SetConnected
  BY <1>4, Zenon DEF SetConnected, TypeOK, AfterConnect
<1>5. ASSUME NEW c \in Callers,
             NEW plan \in {SetupDeadLetterExchange, SetupQueueWithDLX}, Call(c, plan)
      PROVE  TypeOK'
  <2>1. plan \in Seq(Entities)
    BY PlansAreEntities, Zenon
  <2>2. calls' \in 0..MaxCalls
    BY <1>5, TopologyAssumption DEF Call, TypeOK
  <2>3. todo' \in [Procs -> Seq(Entities)]
    BY <1>5, <2>1, Zenon DEF Call, TypeOK
  <2> QED
    BY <1>5, <2>2, <2>3, Zenon DEF Call, TypeOK
<1>6. ASSUME NEW r \in Restores, Snapshot(r) PROVE TypeOK'
  <2>1. RestoreOrder(cache) \in Seq(Entities)
    BY CacheOfKind DEF RestoreOrder, Kinds
  <2>2. todo' \in [Procs -> Seq(Entities)]
    BY <1>6, <2>1, Zenon DEF Snapshot, TypeOK
  <2>3. DOMAIN cache' = Kinds /\ \A k \in Kinds : cache'[k] \in Seq(OfKind(k))
    BY <1>6 DEF Snapshot, AfterSnapshot, EmptyCache
  <2>4. pc' \in [Procs -> {"idle", "snapshot", "check", "open", "declare", "cache",
                           "failed"}]
    BY <1>6, Zenon DEF Snapshot, TypeOK
  <2> QED
    BY <1>6, <2>2, <2>3, <2>4, Zenon DEF Snapshot, TypeOK
<1>7. ASSUME NEW p \in Procs, DeclareStep(p) PROVE TypeOK'
  <2>1. CASE Check(p)
    BY <2>1, FailsType, Zenon DEF Check, TypeOK
  <2>2. CASE Open(p)
    BY <2>2, FailsType DEF Open, TypeOK
  <2>3. CASE Declare(p)
    <3>1. Head(todo[p]) \in Entities
      BY <2>3, HeadTail, Zenon DEF Declare, TypeOK, Control, Busy
    <3>2. faults' \in 0..MaxFaults /\ UNCHANGED <<clientVars, calls>>
      BY <2>3, TopologyAssumption DEF Declare, TypeOK
    <3>3. CASE Fails(p)
      BY <3>2, <3>3, FailsType, Zenon DEF TypeOK
    <3>4. CASE /\ broker' = broker \cup {Head(todo[p])}
               /\ pc' = [pc EXCEPT ![p] = "cache"]
               /\ UNCHANGED <<cache, todo, chan, declared, dropped, missed, faults>>
      BY <3>1, <3>2, <3>4, Zenon DEF TypeOK
    <3> QED
      BY <2>3, <3>3, <3>4, Zenon DEF Declare
  <2>4. CASE Cache(p)
    <3> DEFINE e == Head(todo[p])
               k == KindOf(e)
    <3>1. e \in Entities /\ Tail(todo[p]) \in Seq(Entities)
      BY <2>4, HeadTail, Zenon DEF Cache, TypeOK, Control, Busy
    <3>2. k \in Kinds /\ e \in OfKind(k)
      BY <3>1, KindOfEntity, Zenon
    <3>3. cache' = [cache EXCEPT ![k] = Append(cache[k], e)]
      BY <2>4, Zenon DEF Cache, Cached
    <3>4. todo' \in [Procs -> Seq(Entities)]
      BY <2>4, <3>1, Zenon DEF Cache, TypeOK
    <3>5. declared' \in [Entities -> Nat] /\ missed' \subseteq Entities
      BY <2>4, <3>1 DEF Cache, TypeOK
    <3>6. pc' \in [Procs -> {"idle", "snapshot", "check", "open", "declare", "cache",
                             "failed"}]
          /\ chan' \in [Procs -> Links \cup {0}]
      BY <2>4, Zenon DEF Cache, TypeOK
    <3> HIDE DEF e, k
    <3>7. DOMAIN cache' = Kinds /\ \A m \in Kinds : cache'[m] \in Seq(OfKind(m))
      BY <3>2, <3>3 DEF TypeOK
    <3> QED
      BY <2>4, <3>4, <3>5, <3>6, <3>7, Zenon DEF Cache, TypeOK
  <2> QED
    BY <1>7, <2>1, <2>2, <2>3, <2>4, Zenon DEF DeclareStep
<1>8. CASE UNCHANGED vars
  BY <1>8, Zenon DEF TypeOK, vars
<1> QED
  BY <1>1, <1>2, <1>3, <1>4, <1>5, <1>6, <1>7, <1>8, Zenon DEF Next, Reconnect

-----------------------------------------------------------------------------
(* Control: who is busy, which restores exist, and that they are paid for. *)

(* What the steps of the declarations leave to Control: the connections,   *)
(* and whoever else is declaring.                                          *)
LEMMA ControlKept ==
  ASSUME Control, UNCHANGED clientVars,
         \A p \in Procs : pc'[p] \in Busy <=> todo'[p] # <<>>,
         \A r \in Restores : pc'[r] = "idle" \/ pc[r] # "idle"
  PROVE  Control'
<1>1. Paid'
  BY Zenon DEF Control, Paid, Dialling, clientVars
<1> QED
  BY <1>1, Zenon DEF Control, clientVars

(* A declaration that fails ends what was left to declare.                 *)
LEMMA FailsEnds ==
  ASSUME TypeOK, Control, NEW p \in Procs, Fails(p), pc[p] # "idle"
  PROVE  /\ \A q \in Procs : pc'[q] \in Busy <=> todo'[q] # <<>>
         /\ \A r \in Restores : pc'[r] = "idle" \/ pc[r] # "idle"
<1>1. pc'[p] \notin Busy /\ todo'[p] = <<>>
  BY Zenon DEF Fails, TypeOK, Busy
<1>2. \A q \in Procs : q # p => pc'[q] = pc[q] /\ todo'[q] = todo[q]
  BY Zenon DEF Fails, TypeOK
<1> QED
  BY <1>1, <1>2, Names, Zenon DEF Control

LEMMA ControlStep == TypeOK /\ Control /\ [Next]_vars => Control'
<1> SUFFICES ASSUME TypeOK, Control, [Next]_vars PROVE Control'
  OBVIOUS
<1>0. /\ link \in Nat /\ watched \in Nat
      /\ Cardinality(events) \in Nat /\ Cardinality(lost) \in Nat
      /\ state \in {"Connecting", "Connected"}
      /\ pc \in [Procs -> {"idle", "snapshot", "check", "open", "declare", "cache", "failed"}]
      /\ todo \in [Procs -> Seq(Entities)]
  BY Names, LostCount DEF TypeOK
<1>1. ASSUME NEW x \in Conns, Lose(x) PROVE Control'
  <2>1. /\ Cardinality(events') = Cardinality(events) + 1
        /\ Cardinality(lost') = Cardinality(lost) + 1
    BY <1>1, LoseAdds, Zenon
  <2>2. UNCHANGED <<state, link, watched>> /\ lost \subseteq lost'
    BY <1>1, Zenon DEF Lose
  <2>3. Paid'
    BY <1>0, <2>1, <2>2 DEF Control, Paid, Dialling
  <2> QED
    BY <1>1, <2>3, Zenon DEF Control, Lose
<1>2. ASSUME NEW x \in Conns, Trigger(x) PROVE Control'
  <2>1. Cardinality(events') = Cardinality(events) - 1
    BY <1>2, TriggerTakes, Zenon
  <2>2. /\ UNCHANGED <<link, watched, lost>> /\ state' = "Connecting"
        /\ x \in lost /\ x[1] <= watched /\ x[1] \in Nat /\ x[1] >= 1
    BY <1>2 DEF Trigger, TypeOK, Conns, Links
  <2>3. \E y \in lost : y[1] = 1
    <3>1. CASE link > 1
      BY <3>1, Zenon DEF Control, Paid
    <3>2. CASE ~(link > 1)
      BY <1>0, <2>2, <3>2 DEF Control
    <3> QED
      BY <3>1, <3>2
  <2>4. Paid'
    BY <1>0, <2>1, <2>2, <2>3 DEF Control, Paid, Dialling
  <2> QED
    BY <1>2, <2>4, Zenon DEF Control, Trigger
<1>3. CASE AssignConnection
  <2>1. UNCHANGED <<events, lost>>
    BY <1>3, Zenon DEF AssignConnection
  <2>2. Paid'
    BY <1>0, <1>3, <2>1 DEF Control, Paid, Dialling, AssignConnection
  <2> QED
    BY <1>0, <1>3, <2>2 DEF Control, AssignConnection
<1>4. CASE SetConnected
  <2>2. Paid'
    BY <1>0, <1>4, Zenon DEF Control, Paid, Dialling, SetConnected
  <2>3. link = watched + 1
    BY <1>0, <1>4 DEF Control, SetConnected
  <2>4. link \in Restores /\ pc[link] = "idle"
    <3>1. watched >= 1 /\ link \in Links
      BY DEF TypeOK, Links
    <3>2. link \in Restores /\ link > watched
      BY <1>0, <2>3, <3>1 DEF Restores
    <3> QED
      BY <3>2, Zenon DEF Control
  <2>5. link \in Procs /\ todo[link] = <<>>
    BY <2>4, Names, Zenon DEF Control, Busy
  <2>6. \A p \in Procs : pc'[p] \in Busy <=> todo'[p] # <<>>
    BY <1>0, <1>4, <2>5, Zenon DEF Control, SetConnected, AfterConnect, Busy
  <2>7. \A r \in Restores : r > watched' => pc'[r] = "idle"
    BY <1>0, <1>4, <2>3, Names DEF Control, SetConnected
  <2> QED
    BY <1>0, <1>4, <2>2, <2>6, <2>7 DEF Control, SetConnected
<1>5. ASSUME NEW c \in Callers,
             NEW plan \in {SetupDeadLetterExchange, SetupQueueWithDLX}, Call(c, plan)
      PROVE  Control'
  <2>1. \A p \in Procs : pc'[p] \in Busy <=> todo'[p] # <<>>
    BY <1>0, <1>5, PlansAreEntities, Zenon DEF Control, Call, Busy
  <2>2. \A r \in Restores : pc'[r] = pc[r]
    BY <1>0, <1>5, Names, Zenon DEF Call
  <2> QED
    BY <1>5, <2>1, <2>2, ControlKept, Zenon DEF Call
<1>6. ASSUME NEW r \in Restores, Snapshot(r) PROVE Control'
  <2>0. r \in Procs
    BY Names, Zenon
  <2>1. \A p \in Procs : pc'[p] \in Busy <=> todo'[p] # <<>>
    <3> DEFINE order == RestoreOrder(cache)
    <3>1. pc'[r] \in Busy <=> order # <<>>
      BY <1>0, <1>6, <2>0, Zenon DEF Snapshot, Busy
    <3>2. todo'[r] = order
      BY <1>0, <1>6, <2>0, Zenon DEF Snapshot
    <3>3. \A p \in Procs : p # r => pc'[p] = pc[p] /\ todo'[p] = todo[p]
      BY <1>0, <1>6, Zenon DEF Snapshot
    <3> HIDE DEF order
    <3> QED
      BY <3>1, <3>2, <3>3, Zenon DEF Control
  <2>2. \A q \in Restores : pc'[q] = "idle" \/ pc[q] # "idle"
    BY <1>0, <1>6, Names, Zenon DEF Snapshot
  <2> QED
    BY <1>6, <2>1, <2>2, ControlKept, Zenon DEF Snapshot
<1>7. ASSUME NEW p \in Procs, DeclareStep(p) PROVE Control'
  <2>0. UNCHANGED clientVars /\ pc[p] # "idle"
    BY <1>7, Zenon DEF DeclareStep, Check, Open, Declare, Cache
  <2>1. CASE Fails(p)
    BY <2>0, <2>1, FailsEnds, ControlKept, Zenon
  <2>2. CASE pc[p] \in Busy /\ todo' = todo /\ \E to \in Busy : pc' = [pc EXCEPT ![p] = to]
    <3>1. \A q \in Procs : pc'[q] \in Busy <=> todo'[q] # <<>>
      BY <1>0, <2>2, Zenon DEF Control
    <3>2. \A r \in Restores : pc'[r] = "idle" \/ pc[r] # "idle"
      BY <1>0, <2>0, <2>2, Names, Zenon
    <3> QED
      BY <2>0, <3>1, <3>2, ControlKept, Zenon
  <2>3. CASE Cache(p)
    <3>1. todo[p] # <<>> /\ todo[p] \in Seq(Entities)
      BY <1>0, <2>3, Zenon DEF Cache, Control, Busy
    <3>2. Tail(todo[p]) # <<>> <=> Len(todo[p]) # 1
      BY <3>1, HeadTail, Zenon
    <3>3. \A q \in Procs : pc'[q] \in Busy <=> todo'[q] # <<>>
      BY <1>0, <2>3, <3>2, Zenon DEF Control, Cache, Busy
    <3>4. \A r \in Restores : pc'[r] = "idle" \/ pc[r] # "idle"
      BY <1>0, <2>0, <2>3, Names, Zenon DEF Cache
    <3> QED
      BY <2>0, <3>3, <3>4, ControlKept, Zenon
  <2> QED
    BY <1>7, <2>1, <2>2, <2>3, Zenon DEF DeclareStep, Check, Open, Declare, Busy
<1>8. CASE UNCHANGED vars
  BY <1>8, ControlKept, Zenon DEF Control, vars
<1> QED
  BY <1>1, <1>2, <1>3, <1>4, <1>5, <1>6, <1>7, <1>8, Zenon DEF Next, Reconnect

(* The two together are inductive.                                         *)
THEOREM Invariance == Spec => [](TypeOK /\ Control)
<1>1. Init => TypeOK
  BY TopologyAssumption, FS_EmptySet DEF Init, TypeOK, EmptyCache, Links
<1>2. Init => Control
  <2> SUFFICES ASSUME Init PROVE Control
    OBVIOUS
  <2>2. Paid
    BY FS_EmptySet DEF Init, Paid, Dialling
  <2> QED
    BY <2>2, Names DEF Init, Control, Busy
<1> QED
  BY <1>1, <1>2, TypeStep, ControlStep, PTL DEF Spec

(* Every variable has its type; in particular MaxLosses lost connections   *)
(* lead to no more than MaxLosses reconnections and restores.              *)
THEOREM TypeCorrect == Spec => []TypeOK
BY Invariance, PTL

-----------------------------------------------------------------------------
(* The first restore.  What a binding needs is there already or comes      *)
(* before it: in what a caller is to declare, in the cache, and therefore  *)
(* in what a restore makes of the cache.                                   *)
Supported(seq, S) ==
  \A i \in DOMAIN seq : Needs(seq[i]) \subseteq S \cup {seq[j] : j \in 1..(i - 1)}

InCache == {e \in Entities : Positions(cache[KindOf(e)], e) # {}}

(* No snapshot has been taken yet.                                         *)
BeforeRestore == watched = 1 \/ (watched = 2 /\ pc[2] = "snapshot")

(* The first restore has had a connection all along and no refusal.        *)
Undisturbed ==
  /\ faults = 0 /\ link = 2 /\ watched = 2 /\ state = "Connected"
  /\ ConsumerConn(2) \notin lost

FirstInv ==
  /\ BeforeRestore =>
       /\ \A c \in Callers : Supported(todo[c], InCache)
       /\ \A e \in InCache : Needs(e) \subseteq InCache
  /\ Undisturbed =>
       /\ pc[2] # "failed" /\ Supported(todo[2], broker)
       /\ pc[2] = "declare" => chan[2] = 2
       /\ pc[2] = "cache" => Head(todo[2]) \in broker

(* More being there does not hurt.                                         *)
LEMMA SupportedMore ==
  ASSUME NEW seq, NEW S, NEW T, S \subseteq T, Supported(seq, S)
  PROVE  Supported(seq, T)
BY Zenon DEF Supported

(* The next declaration has what it needs.                                 *)
LEMMA SupportedHead ==
  ASSUME NEW seq \in Seq(Entities), seq # <<>>, NEW S, Supported(seq, S)
  PROVE  Needs(Head(seq)) \subseteq S
<1>1. 1 \in DOMAIN seq /\ Head(seq) = seq[1]
  BY HeadTail
<1>2. {seq[j] : j \in 1..(1 - 1)} = {}
  OBVIOUS
<1> QED
  BY <1>1, <1>2, Zenon DEF Supported

(* The rest has what it needs once the next declaration is there.          *)
LEMMA SupportedTail ==
  ASSUME NEW seq \in Seq(Entities), seq # <<>>, NEW S, NEW T, Supported(seq, S),
         S \subseteq T, Head(seq) \in T
  PROVE  Supported(Tail(seq), T)
<1> DEFINE t == Tail(seq)
<1> SUFFICES ASSUME NEW i \in DOMAIN t, NEW n \in Needs(t[i])
             PROVE  n \in T \cup {t[j] : j \in 1..(i - 1)}
  BY Zenon DEF Supported
<1>1. /\ i \in Nat /\ i + 1 \in DOMAIN seq /\ t[i] = seq[i + 1]
      /\ \A j \in DOMAIN t : t[j] = seq[j + 1]
      /\ DOMAIN t = 1..(Len(seq) - 1) /\ Len(seq) \in Nat
  OBVIOUS
<1>2. n \in S \cup {seq[j] : j \in 1..((i + 1) - 1)}
  BY <1>1, Zenon DEF Supported
<1>3. ASSUME NEW j \in 1..((i + 1) - 1), n = seq[j] PROVE n \in T \cup {t[m] : m \in 1..(i - 1)}
  <2>1. CASE j = 1
    BY <1>3, <2>1
  <2>2. CASE j # 1
    <3>1. j - 1 \in 1..(i - 1) /\ j - 1 \in DOMAIN t
      BY <1>1, <1>3, <2>2
    <3>2. t[j - 1] = n
      BY <1>1, <1>3, <3>1
    <3> QED
      BY <3>1, <3>2, Zenon
  <2> QED
    BY <2>1, <2>2, Zenon
<1> QED
  BY <1>2, <1>3, Zenon

(* The setup functions declare an exchange and a queue before the binding. *)
LEMMA PlansSupported ==
  ASSUME NEW S, NEW plan \in {SetupDeadLetterExchange, SetupQueueWithDLX}
  PROVE  Supported(plan, S)
<1>0. /\ Needs("main") = {} /\ Needs("dlx") = {} /\ Needs("retry") = {}
      /\ Needs("parking-lot") = {}
      /\ Needs("retry binding") = {"dlx", "retry"}
      /\ Needs("parking-lot binding") = {"dlx", "parking-lot"}
  BY Zenon DEF Needs
<1>1. CASE plan = SetupQueueWithDLX
  <2>1. DOMAIN plan = {1} /\ plan[1] = "main"
    BY <1>1 DEF SetupQueueWithDLX
  <2> QED
    BY <1>0, <2>1, Zenon DEF Supported
<1>2. CASE plan = SetupDeadLetterExchange
  <2>1. /\ DOMAIN plan = 1..5
        /\ plan[1] = "dlx" /\ plan[2] = "retry" /\ plan[3] = "retry binding"
        /\ plan[4] = "parking-lot" /\ plan[5] = "parking-lot binding"
    <3>1. plan \in Seq(Entities) /\ Len(plan) = 5
      BY <1>2, PlansAreEntities, Zenon DEF SetupDeadLetterExchange
    <3>2. DOMAIN plan = 1..5
      BY <3>1
    <3>3. plan[1] = "dlx" /\ plan[2] = "retry" /\ plan[3] = "retry binding"
      BY <1>2, Zenon DEF SetupDeadLetterExchange
    <3>4. plan[4] = "parking-lot" /\ plan[5] = "parking-lot binding"
      BY <1>2, Zenon DEF SetupDeadLetterExchange
    <3> QED
      BY <3>2, <3>3, <3>4, Zenon
  <2> DEFINE before(i) == {plan[j] : j \in 1..(i - 1)}
  <2>2. plan[1] \in before(3) /\ plan[2] \in before(3)
    OBVIOUS
  <2>3. plan[1] \in before(5) /\ plan[4] \in before(5)
    OBVIOUS
  <2> HIDE DEF before
  <2>4. \A i \in 1..5 : Needs(plan[i]) \subseteq before(i)
    <3> SUFFICES ASSUME NEW i \in 1..5 PROVE Needs(plan[i]) \subseteq before(i)
      OBVIOUS
    <3>1. i = 1 \/ i = 2 \/ i = 3 \/ i = 4 \/ i = 5
      OBVIOUS
    <3> QED
      BY <1>0, <2>1, <2>2, <2>3, <3>1, Zenon
  <2> QED
    BY <2>1, <2>4, Zenon DEF Supported, before
<1> QED
  BY <1>1, <1>2, Zenon

(* A restore declares exchanges and queues before bindings: if the cache   *)
(* has what its bindings need, so has the restore.                         *)
LEMMA RestoreSupported ==
  ASSUME TypeOK, \A e \in InCache : Needs(e) \subseteq InCache, NEW S
  PROVE  Supported(RestoreOrder(cache), S)
<1> DEFINE a == cache["exchange"]
           b == cache["queue"]
           d == cache["binding"]
           s == a \o b \o d
<1>1. a \in Seq(Exchanges) /\ b \in Seq(Queues) /\ d \in Seq(Bindings)
  BY CacheOfKind, Zenon DEF Kinds, OfKind
<1>2. a \in Seq(Entities) /\ b \in Seq(Entities) /\ d \in Seq(Entities)
  BY CacheOfKind, Zenon DEF Kinds
<1>3. /\ \A e \in Exchanges : KindOf(e) = "exchange"
      /\ \A e \in Queues : KindOf(e) = "queue"
      /\ \A e \in Bindings : KindOf(e) = "binding"
      /\ Exchanges \subseteq Entities /\ Queues \subseteq Entities /\ Bindings \subseteq Entities
  BY KindOfEntity, Zenon DEF Entities, Kinds, OfKind
<1> SUFFICES ASSUME NEW i \in DOMAIN s, NEW n \in Needs(s[i])
             PROVE  n \in {s[j] : j \in 1..(i - 1)}
  BY Zenon DEF Supported, RestoreOrder
<1> HIDE DEF a, b, d
<1>4. /\ Len(a) \in Nat /\ Len(b) \in Nat /\ Len(d) \in Nat
      /\ i \in 1..(Len(a) + Len(b) + Len(d))
      /\ \A j \in 1..Len(a) : s[j] = a[j]
      /\ \A j \in 1..Len(b) : s[Len(a) + j] = b[j]
  BY <1>2
<1>5. /\ i \in 1..Len(a) => s[i] = a[i] /\ a[i] \in Exchanges
      /\ i \in Len(a) + 1..Len(a) + Len(b) => s[i] \in Queues
      /\ i > Len(a) + Len(b) => /\ i - Len(a) - Len(b) \in DOMAIN d
                               /\ s[i] = d[i - Len(a) - Len(b)]
  BY <1>1, <1>4
<1>6. \A e \in Exchanges \cup Queues : Needs(e) = {}
  BY Zenon DEF Exchanges, Queues, Needs
<1>7. i > Len(a) + Len(b)
  BY <1>4, <1>5, <1>6
<1>8. s[i] \in Bindings /\ s[i] \in InCache
  BY <1>1, <1>3, <1>5, <1>7 DEF InCache, Positions, d
<1>9. n \in InCache /\ n \in Exchanges \cup Queues
  BY <1>8, Zenon DEF Needs, Exchanges, Queues, Bindings
<1>10. CASE n \in Exchanges
  <2>1. PICK j \in DOMAIN a : a[j] = n
    BY <1>3, <1>9, <1>10, Zenon DEF InCache, Positions, a
  <2>2. j \in 1..(i - 1) /\ s[j] = n
    BY <1>2, <1>4, <1>7, <2>1
  <2> QED
    BY <2>2, Zenon
<1>11. CASE n \in Queues
  <2>1. PICK j \in DOMAIN b : b[j] = n
    BY <1>3, <1>9, <1>11, Zenon DEF InCache, Positions, b
  <2>2. Len(a) + j \in 1..(i - 1) /\ s[Len(a) + j] = n
    BY <1>2, <1>4, <1>7, <2>1
  <2> QED
    BY <2>2, Zenon
<1> QED
  BY <1>9, <1>10, <1>11, Zenon

(* An entity that is cached is in the cache, and the rest stays in it.     *)
LEMMA CachedIsIn ==
  ASSUME TypeOK, NEW e \in Entities, cache' = Cached(e)
  PROVE  InCache' = InCache \cup {e}
<1> DEFINE k == KindOf(e)
<1>1. k \in Kinds /\ cache[k] \in Seq(Entities)
  BY KindOfEntity, CacheOfKind, Zenon
<1>2. cache' = [cache EXCEPT ![k] = Append(cache[k], e)]
  BY Zenon DEF Cached
<1>3. \A m \in Kinds : cache'[m] = IF m = k THEN Append(cache[k], e) ELSE cache[m]
  BY <1>2, Zenon DEF TypeOK
<1>4. ASSUME NEW f \in Entities
      PROVE  Positions(cache'[KindOf(f)], f) # {}
               <=> Positions(cache[KindOf(f)], f) # {} \/ f = e
  <2>0. KindOf(f) \in Kinds
    BY KindOfEntity, Zenon
  <2>1. CASE KindOf(f) # k
    BY <1>3, <2>0, <2>1, Zenon
  <2>2. CASE KindOf(f) = k
    <3> DEFINE c == cache[k]
               d == Append(c, e)
    <3>1. cache'[KindOf(f)] = d
      BY <1>3, <2>0, <2>2, Zenon
    <3>2. /\ c \in Seq(Entities) /\ Len(c) \in Nat /\ DOMAIN c = 1..Len(c)
          /\ DOMAIN d = 1..(Len(c) + 1) /\ d[Len(c) + 1] = e
          /\ \A i \in 1..Len(c) : d[i] = c[i]
      BY <1>1
    <3> HIDE DEF c, d, k
    <3>3. Positions(d, f) # {} <=> Positions(c, f) # {} \/ f = e
      BY <3>2 DEF Positions
    <3> QED
      BY <2>2, <3>1, <3>3, Zenon DEF c
  <2> QED
    BY <2>1, <2>2, Zenon
<1> QED
  BY <1>4, Zenon DEF InCache

(* Every declaration reaches the broker before it is cached, and only a    *)
(* declaration that fails goes no further.                                 *)
Advances(p) ==
  /\ UNCHANGED <<todo, cache, declared, dropped, faults>>
  /\ broker \subseteq broker'
  /\ \E to \in Busy : pc' = [pc EXCEPT ![p] = to]
  /\ \A q \in Procs \ {p} : chan'[q] = chan[q]

(* The three ways a declaration goes.                                      *)
LEMMA DeclareWays ==
  ASSUME TypeOK, NEW p \in Procs, DeclareStep(p)
  PROVE  /\ pc[p] \in Busy /\ UNCHANGED clientVars
         /\ faults \in Nat /\ (faults' = 0 => faults = 0)
         /\ \/ Fails(p)
            \/ Advances(p)
            \/ Cache(p) /\ UNCHANGED <<broker, faults>>
<1>1. faults \in Nat
  BY TopologyAssumption DEF TypeOK
<1>2. CASE Check(p)
  BY <1>1, <1>2, Zenon DEF Check, Advances, Busy, TypeOK
<1>3. CASE Open(p)
  BY <1>1, <1>3, Zenon DEF Open, Advances, Busy, TypeOK
<1>4. CASE Declare(p)
  BY <1>1, <1>4 DEF Declare, Advances, Busy, TypeOK
<1>5. CASE Cache(p)
  BY <1>1, <1>5, Zenon DEF Cache, Busy
<1> QED
  BY <1>2, <1>3, <1>4, <1>5, Zenon DEF DeclareStep

(* A declaration of a caller.                                              *)
LEMMA FirstCaller ==
  ASSUME TypeOK, Control, FirstInv, NEW p \in Callers, DeclareStep(p)
  PROVE  FirstInv'
<1>0. /\ p \in Procs /\ p \notin Restores /\ Callers \subseteq Procs
      /\ todo \in [Procs -> Seq(Entities)] /\ DOMAIN pc = Procs /\ DOMAIN chan = Procs
  BY Names, Zenon DEF TypeOK
<1>1. /\ pc[p] \in Busy /\ UNCHANGED clientVars /\ (faults' = 0 => faults = 0)
      /\ Fails(p) \/ Advances(p) \/ (Cache(p) /\ UNCHANGED broker)
  BY <1>0, DeclareWays, Zenon
<1>2. /\ \A q \in Procs \ {p} : pc'[q] = pc[q] /\ todo'[q] = todo[q] /\ chan'[q] = chan[q]
      /\ broker \subseteq broker'
  <2>1. CASE Fails(p)
    BY <1>0, <2>1, Zenon DEF Fails
  <2>2. CASE Advances(p)
    BY <1>0, <2>2, Zenon DEF Advances
  <2>3. CASE Cache(p)
    BY <1>0, <2>3, Zenon DEF Cache
  <2> QED
    BY <1>1, <2>1, <2>2, <2>3, Zenon
<1>3. watched = 2 => 2 \in Restores /\ 2 \in Procs \ {p}
  BY <1>0, Names DEF TypeOK, Restores
<1>4. BeforeRestore' => BeforeRestore
  BY <1>1, <1>2, <1>3, Zenon DEF BeforeRestore, clientVars
<1>5. Undisturbed' => /\ pc'[2] # "failed" /\ Supported(todo'[2], broker')
                      /\ pc'[2] = "declare" => chan'[2] = 2
                      /\ pc'[2] = "cache" => Head(todo'[2]) \in broker'
  <2> SUFFICES ASSUME Undisturbed' PROVE Undisturbed /\ 2 \in Procs \ {p}
    BY <1>2, SupportedMore, Zenon DEF FirstInv
  <2> QED
    BY <1>1, <1>3, Zenon DEF Undisturbed, clientVars
<1>6. ASSUME BeforeRestore'
      PROVE  /\ \A c \in Callers : Supported(todo'[c], InCache')
             /\ \A e \in InCache' : Needs(e) \subseteq InCache'
  <2>0. /\ \A c \in Callers : Supported(todo[c], InCache)
        /\ \A e \in InCache : Needs(e) \subseteq InCache
    BY <1>4, <1>6, Zenon DEF FirstInv
  <2>1. CASE Fails(p)
    <3>1. InCache' = InCache /\ todo'[p] = <<>>
      BY <1>0, <2>1, Zenon DEF Fails, InCache
    <3>2. Supported(<<>>, InCache)
      BY DEF Supported
    <3> QED
      BY <1>0, <1>2, <2>0, <3>1, <3>2, Zenon
  <2>2. CASE Advances(p)
    <3>1. InCache' = InCache /\ todo' = todo
      BY <2>2, Zenon DEF Advances, InCache
    <3> QED
      BY <2>0, <3>1, Zenon
  <2>3. CASE Cache(p)
    <3> DEFINE e == Head(todo[p])
    <3>1. todo[p] \in Seq(Entities) /\ todo[p] # <<>>
      BY <1>0, <1>1, Zenon DEF Control
    <3>2. e \in Entities /\ todo'[p] = Tail(todo[p])
      BY <1>0, <2>3, <3>1, HeadTail, Zenon DEF Cache
    <3>3. InCache' = InCache \cup {e}
      BY <2>3, <3>2, CachedIsIn, Zenon DEF Cache
    <3>4. Needs(e) \subseteq InCache
      BY <2>0, <3>1, SupportedHead, Zenon
    <3>5. Supported(todo'[p], InCache')
      BY <2>0, <3>1, <3>2, <3>3, SupportedTail
    <3>6. \A c \in Callers \ {p} : Supported(todo'[c], InCache')
      BY <1>0, <1>2, <2>0, <3>3, SupportedMore
    <3> QED
      BY <2>0, <3>3, <3>4, <3>5, <3>6, Zenon
  <2> QED
    BY <1>1, <2>1, <2>2, <2>3, Zenon
<1> QED
  BY <1>5, <1>6, Zenon DEF FirstInv

(* A declaration of a restore: the first one finds what it needs.          *)
LEMMA FirstRestore ==
  ASSUME TypeOK, Control, FirstInv, NEW p \in Restores, DeclareStep(p)
  PROVE  FirstInv'
<1>0. /\ p \in Procs /\ p \in Nat /\ p >= 2 /\ watched \in Nat
      /\ todo \in [Procs -> Seq(Entities)] /\ DOMAIN pc = Procs /\ DOMAIN chan = Procs
  BY Names, TopologyAssumption DEF TypeOK, Restores, Links
<1>1. /\ pc[p] \in Busy /\ UNCHANGED clientVars /\ (faults' = 0 => faults = 0)
      /\ \/ Fails(p) \/ Advances(p) \/ (Cache(p) /\ UNCHANGED broker)
  BY <1>0, DeclareWays, Zenon
<1>2. p <= watched
  BY <1>0, <1>1 DEF Control, Busy
<1>3. ~BeforeRestore'
  <2>1. watched # 1 /\ watched' = watched
    BY <1>0, <1>1, <1>2 DEF clientVars
  <2>2. ASSUME watched = 2 PROVE pc'[2] # "snapshot"
    <3>1. p = 2
      BY <1>0, <1>2, <2>2
    <3> QED
      BY <1>0, <1>1, <3>1, Zenon DEF Fails, Advances, Cache, Busy
  <2> QED
    BY <2>1, <2>2, Zenon DEF BeforeRestore
<1>4. ASSUME Undisturbed'
      PROVE  /\ pc'[2] # "failed" /\ Supported(todo'[2], broker')
             /\ pc'[2] = "declare" => chan'[2] = 2
             /\ pc'[2] = "cache" => Head(todo'[2]) \in broker'
  <2>1. Undisturbed /\ p = 2
    BY <1>0, <1>1, <1>2, <1>4 DEF Undisturbed, clientVars
  <2>2. /\ Supported(todo[2], broker)
        /\ pc[2] = "declare" => chan[2] = 2
        /\ pc[2] = "cache" => Head(todo[2]) \in broker
        /\ todo[2] \in Seq(Entities) /\ todo[2] # <<>>
    BY <1>0, <1>1, <2>1, Zenon DEF FirstInv, Control
  <2>3. Needs(Head(todo[2])) \subseteq broker
    BY <2>2, SupportedHead, Zenon
  <2>4. CASE Check(p)
    <3>1. pc' = [pc EXCEPT ![2] = "open"] /\ UNCHANGED <<broker, todo>>
      BY <2>1, <2>4, Zenon DEF Check, Undisturbed
    <3> QED
      BY <1>0, <2>1, <2>2, <3>1, Zenon
  <2>5. CASE Open(p)
    <3>1. /\ pc' = [pc EXCEPT ![2] = "declare"] /\ chan' = [chan EXCEPT ![2] = 2]
          /\ UNCHANGED <<broker, todo>>
      BY <2>1, <2>5, Zenon DEF Open, Undisturbed
    <3> QED
      BY <1>0, <2>1, <2>2, <3>1, Zenon
  <2>6. CASE Declare(p)
    <3>1. chan[2] = 2 /\ ConsumerConn(2) \notin lost /\ ~(faults < MaxFaults /\ faults' = faults + 1)
      BY <1>4, <2>1, <2>2, <2>6 DEF Declare, Undisturbed
    <3>2. /\ broker' = broker \cup {Head(todo[2])} /\ pc' = [pc EXCEPT ![2] = "cache"]
          /\ todo' = todo
      BY <2>1, <2>3, <2>6, <3>1, Zenon DEF Declare
    <3>3. Supported(todo[2], broker')
      BY <2>2, <3>2, SupportedMore
    <3> QED
      BY <1>0, <2>1, <3>2, <3>3, Zenon
  <2>7. CASE Cache(p)
    <3>1. /\ todo'[2] = Tail(todo[2]) /\ pc'[2] \in {"idle", "check"} /\ broker' = broker
          /\ Head(todo[2]) \in broker
      BY <1>0, <2>1, <2>2, <2>7, Zenon DEF Cache
    <3>2. Supported(todo'[2], broker)
      BY <2>2, <3>1, SupportedTail, Zenon
    <3> QED
      BY <3>1, <3>2, Zenon
  <2> QED
    BY <2>4, <2>5, <2>6, <2>7, Zenon DEF DeclareStep
<1> QED
  BY <1>3, <1>4, Zenon DEF FirstInv

(* No other step disturbs it.                                              *)
LEMMA FirstStep == TypeOK /\ Control /\ FirstInv /\ [Next]_vars => FirstInv'
<1> SUFFICES ASSUME TypeOK, Control, FirstInv, [Next]_vars PROVE FirstInv'
  OBVIOUS
<1>0. /\ link \in Nat /\ watched \in Nat /\ watched >= 1 /\ faults \in Nat
      /\ todo \in [Procs -> Seq(Entities)] /\ DOMAIN pc = Procs
      /\ watched = 2 => 2 \in Restores
      /\ \A r \in Restores : r \in Procs /\ r \in Nat /\ r >= 2
  BY Names, TopologyAssumption DEF TypeOK, Restores, Links
<1>1. ASSUME NEW x \in Conns, Lose(x) PROVE FirstInv'
  <2>1. InCache' = InCache /\ (BeforeRestore' <=> BeforeRestore) /\ todo' = todo
    BY <1>1, Zenon DEF Lose, InCache, BeforeRestore
  <2>2. Undisturbed' => Undisturbed /\ broker' = broker
    <3>1. ASSUME Undisturbed' PROVE Undisturbed /\ ConsumerConn(2) \notin lost'
      BY <1>1, <3>1, Zenon DEF Lose, Undisturbed
    <3>2. ASSUME Undisturbed' PROVE broker' = broker
      <4>1. ConsumerConn(2) \in (1..link) \X {"publisher", "consumer"}
        BY <3>1, <3>2 DEF Undisturbed, ConsumerConn
      <4> QED
        BY <1>1, <3>1, <3>2, <4>1, Zenon DEF Lose
    <3> QED
      BY <3>1, <3>2
  <2>3. pc' = pc /\ chan' = chan
    BY <1>1, Zenon DEF Lose
  <2> QED
    BY <2>1, <2>2, <2>3, Zenon DEF FirstInv
<1>2. ASSUME NEW x \in Conns, Trigger(x) PROVE FirstInv'
  <2>1. InCache' = InCache /\ (BeforeRestore' <=> BeforeRestore) /\ todo' = todo
    BY <1>2, Zenon DEF Trigger, InCache, BeforeRestore
  <2>2. ~Undisturbed'
    BY <1>2, Zenon DEF Trigger, Undisturbed
  <2> QED
    BY <2>1, <2>2, Zenon DEF FirstInv
<1>3. CASE AssignConnection
  <2>1. InCache' = InCache /\ (BeforeRestore' <=> BeforeRestore) /\ todo' = todo
    BY <1>3, Zenon DEF AssignConnection, InCache, BeforeRestore
  <2>2. ~Undisturbed'
    BY <1>3, Zenon DEF AssignConnection, Undisturbed
  <2> QED
    BY <2>1, <2>2, Zenon DEF FirstInv
<1>4. CASE SetConnected
  <2>1. link = watched + 1 /\ watched' = link /\ link' = link
    BY <1>0, <1>4 DEF Control, SetConnected
  <2>2. InCache' = InCache /\ (BeforeRestore' => BeforeRestore) /\ todo' = todo
    BY <1>0, <1>4, <2>1 DEF SetConnected, InCache, BeforeRestore
  <2>3. ASSUME Undisturbed' PROVE pc'[2] = "snapshot" /\ Supported(todo'[2], broker')
    <3>1. watched = 1 /\ link = 2
      BY <1>0, <2>1, <2>3 DEF Undisturbed
    <3>2. 2 \in Restores /\ 2 \in Procs
      BY <3>1, Names DEF TypeOK, Restores
    <3>3. pc[2] = "idle"
      BY <3>1, <3>2 DEF Control
    <3>4. todo[2] = <<>>
      BY <3>2, <3>3, Zenon DEF Control, Busy
    <3>5. pc'[2] = "snapshot"
      BY <1>0, <1>4, <3>1, <3>2, Zenon DEF SetConnected, AfterConnect
    <3> QED
      BY <2>2, <3>4, <3>5 DEF Supported
  <2> QED
    BY <2>2, <2>3, Zenon DEF FirstInv
<1>5. ASSUME NEW c \in Callers,
             NEW plan \in {SetupDeadLetterExchange, SetupQueueWithDLX}, Call(c, plan)
      PROVE  FirstInv'
  <2>0. c \in Procs /\ c \notin Restores
    BY Names, Zenon
  <2>1. /\ InCache' = InCache
        /\ \A q \in Procs \ {c} : todo'[q] = todo[q] /\ pc'[q] = pc[q]
        /\ todo'[c] = plan
    BY <1>0, <1>5, <2>0, Zenon DEF Call, InCache
  <2>2. UNCHANGED <<clientVars, chan, broker, faults>>
    BY <1>5, Zenon DEF Call
  <2>3. BeforeRestore' => BeforeRestore
    BY <1>0, <2>0, <2>1, <2>2, Zenon DEF BeforeRestore, clientVars
  <2>4. \A q \in Callers : Supported(todo[q], InCache) => Supported(todo'[q], InCache)
    BY <2>1, Names, PlansSupported, Zenon
  <2>5. Undisturbed' => Undisturbed /\ pc'[2] = pc[2] /\ todo'[2] = todo[2]
    BY <1>0, <2>0, <2>1, <2>2, Zenon DEF Undisturbed, clientVars
  <2> QED
    BY <2>1, <2>2, <2>3, <2>4, <2>5, Zenon DEF FirstInv
<1>6. ASSUME NEW r \in Restores, Snapshot(r) PROVE FirstInv'
  <2>0. r <= watched /\ pc[r] = "snapshot" /\ UNCHANGED <<clientVars, chan, broker, faults>>
    BY <1>0, <1>6 DEF Control, Snapshot
  <2>1. /\ todo'[r] = RestoreOrder(cache) /\ pc'[r] \in {"idle", "check"}
    BY <1>0, <1>6, Zenon DEF Snapshot
  <2>2. watched <= 2 => r = 2 /\ watched = 2
    BY <1>0, <2>0
  <2>3. ~BeforeRestore'
    BY <2>0, <2>1, <2>2 DEF BeforeRestore, clientVars
  <2>4. ASSUME Undisturbed'
        PROVE  pc'[2] \in {"idle", "check"} /\ Supported(todo'[2], broker')
    <3>1. r = 2 /\ watched = 2
      BY <2>0, <2>2, <2>4 DEF Undisturbed, clientVars
    <3>2. \A e \in InCache : Needs(e) \subseteq InCache
      BY <2>0, <3>1, Zenon DEF FirstInv, BeforeRestore
    <3>3. Supported(RestoreOrder(cache), broker')
      BY <3>2, RestoreSupported, Zenon
    <3> QED
      BY <2>1, <3>1, <3>3, Zenon
  <2> QED
    BY <2>3, <2>4, Zenon DEF FirstInv
<1>7. ASSUME NEW p \in Procs, DeclareStep(p) PROVE FirstInv'
  BY <1>7, FirstCaller, FirstRestore, Zenon DEF Procs
<1>8. CASE UNCHANGED vars
  <2>1. InCache' = InCache /\ (BeforeRestore' <=> BeforeRestore)
        /\ (Undisturbed' <=> Undisturbed)
    BY <1>8, Zenon DEF vars, clientVars, InCache, BeforeRestore, Undisturbed
  <2> QED
    BY <1>8, <2>1, Zenon DEF FirstInv, vars
<1> QED
  BY <1>1, <1>2, <1>3, <1>4, <1>5, <1>6, <1>7, <1>8, Zenon DEF Next, Reconnect

(* After the loss of one connection the first restore of a client fails    *)
(* only if the broker refuses a declaration, whatever callers were doing   *)
(* when the connection was lost.  When it fails otherwise, a second        *)
(* connection has been lost: the one it declares on, or one whose handler, *)
(* perhaps late for the same loss, has sent the client back to             *)
(* reconnecting.                                                           *)
THEOREM FirstRestoreWorks == Spec => []FirstRestoreSucceeds
<1>1. Init => FirstInv
  <2> SUFFICES ASSUME Init PROVE FirstInv
    OBVIOUS
  <2>1. ~Undisturbed
    BY DEF Init, Undisturbed
  <2>2. \A c \in Callers : todo[c] = <<>>
    BY Names, Zenon DEF Init
  <2>3. InCache = {}
    BY KindOfEntity DEF Init, InCache, Positions, EmptyCache
  <2> QED
    BY <2>1, <2>2, <2>3 DEF FirstInv, Supported
<1>2. TypeOK /\ Control /\ FirstInv => FirstRestoreSucceeds
  <2> SUFFICES ASSUME TypeOK, Control, FirstInv, 2 \in Restores, pc[2] = "failed",
                      ~(faults > 0)
               PROVE  /\ Cardinality(lost) > 1
                      /\ ConsumerConn(2) \in lost \/ state = "Connecting" \/ link > 2
    BY Zenon DEF FirstRestoreSucceeds
  <2>0. /\ link \in Nat /\ watched \in Nat /\ faults \in Nat
        /\ Cardinality(events) \in Nat /\ Cardinality(lost) \in Nat
        /\ state \in {"Connecting", "Connected"}
    BY Names, LostCount DEF TypeOK
  <2>1. watched >= 2 /\ link >= watched /\ faults = 0
    BY <2>0 DEF Control
  <2>2. ConsumerConn(2) \in lost \/ state = "Connecting" \/ link > 2
    <3>1. ~Undisturbed
      BY Zenon DEF FirstInv
    <3> QED
      BY <2>0, <2>1, <3>1 DEF Undisturbed
  <2>3. CASE state = "Connecting" \/ link > 2
    BY <2>0, <2>1, <2>3 DEF Control, Paid, Dialling
  <2>4. CASE ConsumerConn(2) \in lost
    <3>1. PICK x \in lost : x[1] = 1
      BY <2>0, <2>1 DEF Control, Paid
    <3>2. x # ConsumerConn(2)
      BY <3>1 DEF ConsumerConn
    <3> QED
      BY <2>4, <3>1, <3>2, LostCount, TwoAreMore, Zenon
  <2> QED
    BY <2>2, <2>3, <2>4, Zenon
<1> QED
  BY <1>1, <1>2, FirstStep, Invariance, PTL DEF Spec

-----------------------------------------------------------------------------
(* Counting declarations.                                                  *)

(* Positions are finite in number.                                         *)
LEMMA OccursFinitely ==
  ASSUME NEW seq \in Seq(Entities), NEW e
  PROVE  IsFiniteSet(Positions(seq, e)) /\ Occurrences(seq, e) \in Nat
         /\ Positions(seq, e) \subseteq 1..Len(seq) /\ Len(seq) \in Nat
<1>1. IsFiniteSet(1..Len(seq)) /\ Len(seq) \in Nat
  BY FS_Interval
<1>2. Positions(seq, e) \subseteq 1..Len(seq)
  BY DEF Positions
<1> QED
  BY <1>1, <1>2, FS_Subset, FS_CardinalityType, Zenon DEF Occurrences

(* Moving a set of positions changes none of them into another.            *)
LEMMA Shifted ==
  ASSUME NEW S \in SUBSET Nat, IsFiniteSet(S), NEW k \in Nat
  PROVE  LET T == {i + k : i \in S}
         IN  IsFiniteSet(T) /\ Cardinality(T) = Cardinality(S)
<1> DEFINE T == {i + k : i \in S}
           f == [i \in S |-> i + k]
<1>1. f \in Bijection(S, T)
  <2>1. f \in [S -> T]
    OBVIOUS
  <2>2. \A i, j \in S : f[i] = f[j] => i = j
    OBVIOUS
  <2>3. \A t \in T : \E i \in S : f[i] = t
    OBVIOUS
  <2> QED
    BY <2>1, <2>2, <2>3, Zenon DEF Bijection, Injection, Surjection, IsInjective
<1> QED
  BY <1>1, FS_Bijection, Zenon DEF ExistsBijection

(* Disjoint sets add up.                                                   *)
LEMMA Disjoint ==
  ASSUME NEW S, NEW T, IsFiniteSet(S), IsFiniteSet(T), S \cap T = {}
  PROVE  Cardinality(S \cup T) = Cardinality(S) + Cardinality(T)
<1>1. Cardinality(S) \in Nat /\ Cardinality(T) \in Nat
  BY FS_CardinalityType, Zenon
<1>2. Cardinality(S \cap T) = 0
  BY FS_EmptySet, Zenon
<1>3. Cardinality(S \cup T) = Cardinality(S) + Cardinality(T) - Cardinality(S \cap T)
  BY FS_Union, Zenon
<1> QED
  BY <1>1, <1>2, <1>3

(* Counting in a concatenation.                                            *)
LEMMA OccursInBoth ==
  ASSUME NEW a \in Seq(Entities), NEW b \in Seq(Entities), NEW e
  PROVE  Occurrences(a \o b, e) = Occurrences(a, e) + Occurrences(b, e)
<1> DEFINE A == Positions(a, e)
           B == Positions(b, e)
           C == {i + Len(a) : i \in B}
<1>1. /\ IsFiniteSet(A) /\ IsFiniteSet(B) /\ A \subseteq 1..Len(a) /\ B \subseteq 1..Len(b)
      /\ Len(a) \in Nat /\ Len(b) \in Nat
      /\ Cardinality(A) \in Nat /\ Cardinality(B) \in Nat
  BY OccursFinitely, Zenon DEF Occurrences
<1>2. Positions(a \o b, e) = A \cup C
  <2>1. /\ DOMAIN (a \o b) = 1..(Len(a) + Len(b))
        /\ \A i \in 1..Len(a) : (a \o b)[i] = a[i]
        /\ \A i \in 1..Len(b) : (a \o b)[i + Len(a)] = b[i]
        /\ DOMAIN a = 1..Len(a) /\ DOMAIN b = 1..Len(b)
    OBVIOUS
  <2> DEFINE c == a \o b
  <2> HIDE DEF c
  <2>2. /\ DOMAIN c = 1..(Len(a) + Len(b))
        /\ \A i \in 1..Len(a) : c[i] = a[i]
        /\ \A i \in 1..Len(b) : c[i + Len(a)] = b[i]
    BY <2>1, Zenon DEF c
  <2>3. ASSUME NEW i \in DOMAIN c, c[i] = e PROVE i \in A \cup C
    <3>1. CASE i \in 1..Len(a)
      BY <2>1, <2>2, <2>3, <3>1, Zenon DEF Positions
    <3>2. CASE i \notin 1..Len(a)
      <4>1. i - Len(a) \in 1..Len(b) /\ i = (i - Len(a)) + Len(a)
        BY <1>1, <2>2, <2>3, <3>2
      <4>2. i - Len(a) \in B
        BY <2>1, <2>2, <2>3, <4>1, Zenon DEF Positions
      <4> QED
        BY <4>1, <4>2, Zenon
    <3> QED
      BY <3>1, <3>2, Zenon
  <2>4. ASSUME NEW i \in A \cup C PROVE i \in DOMAIN c /\ c[i] = e
    <3>1. CASE i \in A
      BY <1>1, <2>1, <2>2, <3>1 DEF Positions
    <3>2. CASE i \in C
      <4>1. PICK j \in B : i = j + Len(a)
        BY <3>2, Zenon
      <4>2. j \in 1..Len(b) /\ b[j] = e
        BY <2>1, <4>1, Zenon DEF Positions
      <4> QED
        BY <1>1, <2>2, <4>1, <4>2
    <3> QED
      BY <2>4, <3>1, <3>2, Zenon
  <2>5. Positions(c, e) = A \cup C
    BY <2>3, <2>4, Zenon DEF Positions
  <2> QED
    BY <2>5, Zenon DEF c
<1> HIDE DEF A, B
<1>3. B \in SUBSET Nat
  BY <1>1
<1>4. IsFiniteSet(C) /\ Cardinality(C) = Cardinality(B)
  BY <1>1, <1>3, Shifted, Zenon
<1>5. A \cap C = {}
  BY <1>1
<1> HIDE DEF C
<1>6. Cardinality(A \cup C) = Cardinality(A) + Cardinality(C)
  BY <1>1, <1>4, <1>5, Disjoint, Zenon
<1> QED
  BY <1>1, <1>2, <1>4, <1>6, Zenon DEF Occurrences, A, B

(* What e counts for as x.                                                 *)
One(x, e) == IF x = e THEN 1 ELSE 0

(* n is m less out and more in.                                            *)
Changes(n, m, out, in) == n = m - out + in

(* Counting in a sequence of one.                                          *)
LEMMA OccursOnce ==
  ASSUME NEW x \in Entities, NEW e
  PROVE  <<x>> \in Seq(Entities) /\ Occurrences(<<x>>, e) = One(x, e)
<1>1. Positions(<<x>>, e) = IF x = e THEN {1} ELSE {}
  BY DEF Positions
<1>2. Cardinality({1}) = 1 /\ Cardinality({}) = 0
  BY FS_Singleton, FS_EmptySet, Zenon
<1>3. Occurrences(<<x>>, e) = One(x, e)
  BY <1>1, <1>2, Zenon DEF Occurrences, One
<1>4. <<x>> \in Seq(Entities)
  OBVIOUS
<1> QED
  BY <1>3, <1>4, Zenon

(* Appending, and taking the first.                                        *)
LEMMA OccursAppend ==
  ASSUME NEW seq \in Seq(Entities), NEW x \in Entities, NEW e
  PROVE  Changes(Occurrences(Append(seq, x), e), Occurrences(seq, e), 0, One(x, e))
<1> DEFINE t == <<x>>
<1>1. Append(seq, x) = seq \o t
  OBVIOUS
<1>2. t \in Seq(Entities) /\ Occurrences(t, e) = One(x, e)
  BY OccursOnce, Zenon
<1> HIDE DEF t
<1>3. Occurrences(seq \o t, e) = Occurrences(seq, e) + Occurrences(t, e)
  BY <1>2, OccursInBoth, Zenon
<1>4. Occurrences(seq, e) \in Nat
  BY OccursFinitely, Zenon
<1> QED
  BY <1>1, <1>2, <1>3, <1>4 DEF Changes

LEMMA OccursTail ==
  ASSUME NEW seq \in Seq(Entities), seq # <<>>, NEW e
  PROVE  Occurrences(seq, e) = One(Head(seq), e) + Occurrences(Tail(seq), e)
<1> DEFINE h == <<Head(seq)>>
           t == Tail(seq)
<1>1. seq = h \o t
  OBVIOUS
<1>2. h \in Seq(Entities) /\ Occurrences(h, e) = One(Head(seq), e)
  BY HeadTail, OccursOnce, Zenon
<1>3. t \in Seq(Entities)
  OBVIOUS
<1> HIDE DEF h, t
<1>4. Occurrences(h \o t, e) = Occurrences(h, e) + Occurrences(t, e)
  BY <1>2, <1>3, OccursInBoth, Zenon
<1>5. Occurrences(seq, e) = Occurrences(h, e) + Occurrences(t, e)
  BY <1>1, <1>4, Zenon
<1> QED
  BY <1>2, <1>5, Zenon DEF t

(* What is not there does not occur.                                       *)
LEMMA OccursNot ==
  ASSUME NEW K, NEW seq \in Seq(K), NEW e, e \notin K
  PROVE  Occurrences(seq, e) = 0
<1>1. Positions(seq, e) = {}
  BY DEF Positions
<1> QED
  BY <1>1, FS_EmptySet, Zenon DEF Occurrences

LEMMA OccursEmpty == ASSUME NEW e PROVE Occurrences(<<>>, e) = 0
<1>1. Positions(<<>>, e) = {}
  BY DEF Positions
<1> QED
  BY <1>1, FS_EmptySet, Zenon DEF Occurrences

(* A snapshot holds as many of each as the cache did.                      *)
LEMMA OccursInSnapshot ==
  ASSUME TypeOK, NEW e \in Entities
  PROVE  Occurrences(RestoreOrder(cache), e) = Occurrences(cache[KindOf(e)], e)
<1> DEFINE a == cache["exchange"]
           b == cache["queue"]
           d == cache["binding"]
<1>1. a \in Seq(Entities) /\ b \in Seq(Entities) /\ d \in Seq(Entities)
  BY CacheOfKind, Zenon DEF Kinds
<1>2. \A k \in Kinds : k # KindOf(e) => Occurrences(cache[k], e) = 0
  BY KindOfEntity, CacheOfKind, OccursNot, Zenon
<1>3. \A k \in Kinds : Occurrences(cache[k], e) \in Nat
  BY CacheOfKind, OccursFinitely, Zenon
<1>4. /\ Occurrences(a \o b, e) = Occurrences(a, e) + Occurrences(b, e)
      /\ a \o b \in Seq(Entities)
  BY <1>1, OccursInBoth
<1>5. Occurrences((a \o b) \o d, e) = Occurrences(a \o b, e) + Occurrences(d, e)
  BY <1>1, <1>4, OccursInBoth, Zenon
<1>6. Occurrences(RestoreOrder(cache), e)
        = (Occurrences(a, e) + Occurrences(b, e)) + Occurrences(d, e)
  BY <1>4, <1>5, Zenon DEF RestoreOrder
<1>7. KindOf(e) = "exchange" \/ KindOf(e) = "queue" \/ KindOf(e) = "binding"
  BY KindOfEntity, Zenon DEF Kinds
<1>8. Occurrences(a, e) \in Nat /\ Occurrences(b, e) \in Nat /\ Occurrences(d, e) \in Nat
  BY <1>3, Zenon DEF Kinds
<1>9. /\ KindOf(e) # "exchange" => Occurrences(a, e) = 0
      /\ KindOf(e) # "queue" => Occurrences(b, e) = 0
      /\ KindOf(e) # "binding" => Occurrences(d, e) = 0
  BY <1>2, Zenon DEF Kinds
<1> QED
  BY <1>6, <1>7, <1>8, <1>9

(* The account of e: how often it is cached, how often restores still have *)
(* to declare it, and that nothing is missing.                             *)
Kept(e) == Occurrences(cache[KindOf(e)], e)
Left(e) == Cardinality(Restoring(e))
Account(e) == declared[e] = Kept(e) + dropped[e] + Left(e)

(* What restores have to declare is finite.                                *)
LEMMA RestoringFinite ==
  ASSUME TypeOK, NEW e
  PROVE  IsFiniteSet(Restoring(e)) /\ Left(e) \in Nat
<1> DEFINE at(r) == {r} \X Positions(todo[r], e)
           f == [r \in Restores |-> at(r)]
           T == {at(r) : r \in Restores}
<1>1. \A r \in Restores : IsFiniteSet(at(r))
  <2> SUFFICES ASSUME NEW r \in Restores PROVE IsFiniteSet(at(r))
    OBVIOUS
  <2>1. todo[r] \in Seq(Entities)
    BY Names, Zenon DEF TypeOK
  <2> QED
    BY <2>1, OccursFinitely, FS_Singleton, FS_Product, Zenon
<1>2. IsFiniteSet(Restores)
  <2>1. IsFiniteSet(Links)
    BY FS_Interval, TopologyAssumption DEF Links
  <2> QED
    BY <2>1, Names, FS_Subset, Zenon
<1> HIDE DEF at
<1>3. f \in Surjection(Restores, T)
  BY Zenon DEF Surjection
<1>4. IsFiniteSet(T)
  BY <1>2, <1>3, FS_Surjection, Zenon
<1>5. IsFiniteSet(UNION T)
  BY <1>1, <1>4, FS_UNION, Zenon
<1>6. Restoring(e) = UNION T
  BY Zenon DEF Restoring, at
<1> QED
  BY <1>5, <1>6, FS_CardinalityType, Zenon DEF Left

(* All three are numbers.                                                  *)
LEMMA AccountTypes ==
  ASSUME TypeOK, NEW e \in Entities
  PROVE  Kept(e) \in Nat /\ dropped[e] \in Nat /\ Left(e) \in Nat
<1>1. dropped[e] \in Nat
  BY Zenon DEF TypeOK
<1>2. Kept(e) \in Nat
  BY KindOfEntity, CacheOfKind, OccursFinitely, Zenon DEF Kept
<1> QED
  BY <1>1, <1>2, RestoringFinite, Zenon

(* Counting one restore's declarations of e.                               *)
LEMMA CountOf ==
  ASSUME NEW r, NEW seq \in Seq(Entities), NEW e
  PROVE  /\ IsFiniteSet({r} \X Positions(seq, e))
         /\ Cardinality({r} \X Positions(seq, e)) = Occurrences(seq, e)
<1> DEFINE P == Positions(seq, e)
<1>1. IsFiniteSet(P) /\ Cardinality(P) \in Nat
  BY OccursFinitely, FS_CardinalityType, Zenon
<1>2. IsFiniteSet({r}) /\ Cardinality({r}) = 1
  BY FS_Singleton, Zenon
<1> HIDE DEF P
<1>3. IsFiniteSet({r} \X P) /\ Cardinality({r} \X P) = Cardinality({r}) * Cardinality(P)
  BY <1>1, <1>2, FS_Product, Zenon
<1>4. Cardinality({r} \X P) = Cardinality(P)
  BY <1>1, <1>2, <1>3
<1> QED
  BY <1>3, <1>4, Zenon DEF Occurrences, P

(* Two sums that share a part.                                             *)
LEMMA ChangesOf ==
  ASSUME NEW m \in Nat, NEW out \in Nat, NEW in \in Nat
  PROVE  Changes(m + in, m + out, out, in)
BY DEF Changes

(* Only what restore r has to declare changes.                             *)
LEMMA RestoringChanges ==
  ASSUME TypeOK, TypeOK', NEW r \in Restores, NEW e \in Entities,
         \A q \in Restores \ {r} : todo'[q] = todo[q]
  PROVE  Changes(Left(e)', Left(e), Occurrences(todo[r], e), Occurrences(todo'[r], e))
<1> DEFINE others == UNION {{q} \X Positions(todo[q], e) : q \in Restores \ {r}}
           old == {r} \X Positions(todo[r], e)
           new == {r} \X Positions(todo'[r], e)
<1>1. todo[r] \in Seq(Entities) /\ todo'[r] \in Seq(Entities)
  BY Names, Zenon DEF TypeOK
<1>2. /\ IsFiniteSet(old) /\ Cardinality(old) = Occurrences(todo[r], e)
      /\ IsFiniteSet(new) /\ Cardinality(new) = Occurrences(todo'[r], e)
  <2>1. IsFiniteSet(old) /\ Cardinality(old) = Occurrences(todo[r], e)
    BY <1>1, CountOf, Zenon
  <2>2. IsFiniteSet(new) /\ Cardinality(new) = Occurrences(todo'[r], e)
    BY <1>1, CountOf, Zenon
  <2> QED
    BY <2>1, <2>2, Zenon
<1>3. Restoring(e) = others \cup old /\ others \cap old = {}
  BY DEF Restoring
<1>4. Restoring(e)' = others \cup new /\ others \cap new = {}
  BY DEF Restoring
<1> HIDE DEF others, new, old
<1>5. IsFiniteSet(others)
  BY <1>3, RestoringFinite, FS_Subset, Zenon
<1>6. /\ Cardinality(others \cup old) = Cardinality(others) + Cardinality(old)
      /\ Cardinality(others \cup new) = Cardinality(others) + Cardinality(new)
  BY <1>2, <1>3, <1>4, <1>5, Disjoint, Zenon
<1>7. Cardinality(others) \in Nat /\ Cardinality(old) \in Nat /\ Cardinality(new) \in Nat
  BY <1>2, <1>5, FS_CardinalityType, Zenon
<1>8. Changes(Left(e)', Left(e), Cardinality(old), Cardinality(new))
  BY <1>3, <1>4, <1>6, <1>7, ChangesOf, Zenon DEF Left
<1> QED
  BY <1>2, <1>8, Zenon

(* The account balances when a declaration is made, or when n of them move *)
(* between the cache, a restore and the dropped.                           *)
LEMMA AccountMoves ==
  ASSUME TypeOK, NEW e \in Entities, Account(e), NEW n \in Nat,
         \/ /\ UNCHANGED <<declared[e], dropped[e]>>
            /\ \/ Changes(Kept(e)', Kept(e), n, 0) /\ Changes(Left(e)', Left(e), 0, n)
               \/ Changes(Kept(e)', Kept(e), 0, n) /\ Changes(Left(e)', Left(e), n, 0)
         \/ /\ UNCHANGED <<declared[e], Kept(e)>>
            /\ Changes(dropped'[e], dropped[e], 0, n) /\ Changes(Left(e)', Left(e), n, 0)
         \/ /\ UNCHANGED <<dropped[e], Left(e)>>
            /\ Changes(declared'[e], declared[e], 0, n) /\ Changes(Kept(e)', Kept(e), 0, n)
  PROVE  Account(e)'
<1>1. Kept(e) \in Nat /\ dropped[e] \in Nat /\ Left(e) \in Nat
  BY AccountTypes, Zenon
<1> QED
  BY <1>1 DEF Account, Changes

(* A step that touches neither the cache nor what restores have to do.     *)
LEMMA ConservedKept ==
  ASSUME Conserved, UNCHANGED <<declared, cache, dropped>>,
         \A r \in Restores : todo'[r] = todo[r]
  PROVE  Conserved'
<1>1. \A e \in Entities : Restoring(e)' = Restoring(e)
  BY Zenon DEF Restoring
<1> QED
  BY <1>1, Zenon DEF Conserved

(* Conserved says that every account balances.                             *)
LEMMA Accounts == Conserved <=> \A e \in Entities : Account(e)
BY Zenon DEF Conserved, Account, Kept, Left

(* A snapshot hands the whole cache to the restore.                        *)
LEMMA AccountSnapshot ==
  ASSUME TypeOK, TypeOK', Control, NEW r \in Restores, Snapshot(r),
         NEW e \in Entities, Account(e)
  PROVE  Account(e)'
<1>1. r \in Procs /\ todo \in [Procs -> Seq(Entities)] /\ todo[r] = <<>>
  BY Names, Zenon DEF TypeOK, Control, Snapshot, Busy
<1>2. /\ todo'[r] = RestoreOrder(cache) /\ \A q \in Restores \ {r} : todo'[q] = todo[q]
      /\ UNCHANGED <<declared, dropped>> /\ cache' = EmptyCache
  BY <1>1, Names, Zenon DEF Snapshot, AfterSnapshot
<1>3. Occurrences(<<>>, e) = 0
  BY OccursEmpty, Zenon
<1>4. cache'[KindOf(e)] = <<>>
  BY <1>2, KindOfEntity, Zenon DEF EmptyCache
<1>5. Kept(e)' = 0
  BY <1>3, <1>4, Zenon DEF Kept
<1>6. Kept(e) \in Nat /\ Changes(Kept(e)', Kept(e), Kept(e), 0)
  BY <1>5, AccountTypes DEF Changes
<1>7. Occurrences(todo[r], e) = 0 /\ Occurrences(todo'[r], e) = Kept(e)
  BY <1>1, <1>2, <1>3, OccursInSnapshot, Zenon DEF Kept
<1>8. Changes(Left(e)', Left(e), 0, Kept(e))
  BY <1>2, <1>7, RestoringChanges, Zenon
<1>9. UNCHANGED <<declared[e], dropped[e]>>
  BY <1>2, Zenon
<1> QED
  BY <1>6, <1>8, <1>9, AccountMoves, Zenon

(* A failure drops what the restore had left.                              *)
LEMMA AccountFails ==
  ASSUME TypeOK, TypeOK', NEW r \in Restores, Fails(r), NEW e \in Entities, Account(e)
  PROVE  Account(e)'
<1> DEFINE n == Occurrences(todo[r], e)
<1>1. todo \in [Procs -> Seq(Entities)] /\ todo[r] \in Seq(Entities) /\ r \in Procs
  BY Names, Zenon DEF TypeOK
<1>2. /\ UNCHANGED <<declared, cache>> /\ todo'[r] = <<>>
      /\ \A q \in Restores \ {r} : todo'[q] = todo[q]
      /\ dropped'[e] = dropped[e] + n
  BY <1>1, Names, Zenon DEF Fails
<1>3. n \in Nat
  BY <1>1, OccursFinitely, Zenon
<1>4. Occurrences(<<>>, e) = 0
  BY OccursEmpty, Zenon
<1>5. Changes(Left(e)', Left(e), n, Occurrences(todo'[r], e))
  BY <1>2, RestoringChanges, Zenon
<1>6. Changes(Left(e)', Left(e), n, 0)
  BY <1>2, <1>4, <1>5, Zenon
<1>7. Changes(dropped'[e], dropped[e], 0, n)
  BY <1>2, <1>3, AccountTypes DEF Changes
<1>8. UNCHANGED <<declared[e], Kept(e)>>
  BY <1>2, Zenon DEF Kept
<1> QED
  BY <1>3, <1>6, <1>7, <1>8, AccountMoves, Zenon

(* Caching puts the declaration into the cache.                            *)
LEMMA KeptGrows ==
  ASSUME TypeOK, Control, NEW p \in Procs, Cache(p), NEW e \in Entities
  PROVE  /\ todo[p] \in Seq(Entities) /\ todo[p] # <<>>
         /\ Changes(Kept(e)', Kept(e), 0, One(Head(todo[p]), e))
<1> DEFINE x == Head(todo[p])
           k == KindOf(x)
<1>1. todo[p] \in Seq(Entities) /\ todo[p] # <<>> /\ x \in Entities
  BY HeadTail, Zenon DEF TypeOK, Control, Cache, Busy
<1>2. /\ k \in Kinds /\ cache[k] \in Seq(Entities)
      /\ cache' = [cache EXCEPT ![k] = Append(cache[k], x)]
  BY <1>1, KindOfEntity, CacheOfKind, Zenon DEF Cache, Cached
<1>3. \A m \in Kinds : cache'[m] = IF m = k THEN Append(cache[k], x) ELSE cache[m]
  BY <1>2, Zenon DEF TypeOK
<1>4. KindOf(e) \in Kinds
  BY KindOfEntity, Zenon
<1>5. CASE KindOf(e) = k
  <2>1. cache'[KindOf(e)] = Append(cache[KindOf(e)], x) /\ cache[KindOf(e)] \in Seq(Entities)
    BY <1>2, <1>3, <1>4, <1>5, Zenon
  <2> HIDE DEF x
  <2> QED
    BY <1>1, <2>1, OccursAppend, Zenon DEF Kept, x
<1>6. CASE KindOf(e) # k
  <2>1. cache'[KindOf(e)] = cache[KindOf(e)]
    BY <1>3, <1>4, <1>6, Zenon
  <2>2. One(x, e) = 0
    BY <1>6, Zenon DEF One
  <2>3. Kept(e)' = Kept(e)
    BY <2>1, Zenon DEF Kept
  <2> QED
    BY <1>1, <2>2, <2>3, AccountTypes DEF Changes
<1> QED
  BY <1>1, <1>5, <1>6, Zenon

(* Taking the first of what is left.                                       *)
LEMMA ChangesNet ==
  ASSUME NEW n, NEW m \in Nat, NEW w \in Nat, NEW t \in Nat, NEW s, s = w + t,
         Changes(n, m, s, t)
  PROVE  Changes(n, m, w, 0)
BY DEF Changes

(* Caching a declaration adds it to what was declared, or takes it from    *)
(* what the restore has left.                                              *)
LEMMA AccountCache ==
  ASSUME TypeOK, TypeOK', Control, NEW p \in Procs, Cache(p),
         NEW e \in Entities, Account(e)
  PROVE  Account(e)'
<1> DEFINE x == Head(todo[p])
<1>1. todo[p] \in Seq(Entities) /\ todo[p] # <<>> /\ Changes(Kept(e)', Kept(e), 0, One(x, e))
  BY KeptGrows, Zenon
<1>2. One(x, e) \in Nat
  BY Zenon DEF One
<1>3. /\ todo'[p] = Tail(todo[p]) /\ dropped' = dropped
      /\ \A q \in Restores \ {p} : todo'[q] = todo[q]
  BY Names, Zenon DEF TypeOK, Cache
<1>4. CASE p \in Callers
  <2>1. p \notin Restores
    BY <1>4, Names, Zenon
  <2>2. Restoring(e)' = Restoring(e)
    BY <1>3, <2>1, Zenon DEF Restoring
  <2>3. declared' = [declared EXCEPT ![x] = @ + 1] /\ declared \in [Entities -> Nat]
    BY <1>4, Zenon DEF Cache, TypeOK
  <2> HIDE DEF x
  <2>4. Changes(declared'[e], declared[e], 0, One(x, e))
    BY <2>3 DEF Changes, One
  <2>5. UNCHANGED <<dropped[e], Left(e)>>
    BY <1>3, <2>2, Zenon DEF Left
  <2> QED
    BY <1>1, <1>2, <2>4, <2>5, AccountMoves, Zenon
<1>5. CASE p \in Restores
  <2> DEFINE t == Occurrences(Tail(todo[p]), e)
  <2>1. Changes(Left(e)', Left(e), Occurrences(todo[p], e), t)
    BY <1>3, <1>5, RestoringChanges, Zenon
  <2>2. Occurrences(todo[p], e) = One(x, e) + t
    BY <1>1, OccursTail, Zenon
  <2>3. t \in Nat /\ Left(e) \in Nat
    BY <1>1, HeadTail, OccursFinitely, AccountTypes, Zenon
  <2>4. Changes(Left(e)', Left(e), One(x, e), 0)
    BY <1>2, <2>1, <2>2, <2>3, ChangesNet, Zenon
  <2>5. UNCHANGED <<declared[e], dropped[e]>>
    BY <1>3, <1>5, Names, Zenon DEF Cache
  <2> QED
    BY <1>1, <1>2, <2>4, <2>5, AccountMoves, Zenon
<1> QED
  BY <1>4, <1>5, Zenon DEF Procs

(* Conserved is inductive, given the types and Control.                    *)
LEMMA ConservedStep ==
  TypeOK /\ TypeOK' /\ Control /\ Conserved /\ [Next]_vars => Conserved'
<1> SUFFICES ASSUME TypeOK, TypeOK', Control, Conserved, [Next]_vars PROVE Conserved'
  OBVIOUS
<1>0. ASSUME \A e \in Entities : Account(e)' PROVE Conserved'
  BY <1>0, Zenon DEF Conserved, Account, Kept, Left
<1>1. CASE (\E x \in Conns : Lose(x)) \/ Reconnect \/ UNCHANGED vars
  <2>1. UNCHANGED <<declared, cache, dropped, todo>>
    BY <1>1, Zenon DEF Lose, Reconnect, Trigger, AssignConnection, SetConnected, vars
  <2> QED
    BY <2>1, ConservedKept, Zenon
<1>2. ASSUME NEW c \in Callers,
             NEW plan \in {SetupDeadLetterExchange, SetupQueueWithDLX}, Call(c, plan)
      PROVE  Conserved'
  <2>1. /\ UNCHANGED <<declared, cache, dropped>> /\ todo' = [todo EXCEPT ![c] = plan]
    BY <1>2, Zenon DEF Call
  <2>2. \A r \in Restores : todo'[r] = todo[r]
    BY <2>1, Names, Zenon DEF TypeOK
  <2> QED
    BY <2>1, <2>2, ConservedKept, Zenon
<1>3. ASSUME NEW r \in Restores, Snapshot(r) PROVE Conserved'
  BY <1>0, <1>3, Accounts, AccountSnapshot, Zenon
<1>4. ASSUME NEW p \in Procs, DeclareStep(p) PROVE Conserved'
  <2>1. CASE Fails(p) /\ p \in Restores
    BY <1>0, <2>1, Accounts, AccountFails, Zenon
  <2>2. CASE Fails(p) /\ p \notin Restores
    <3>1. UNCHANGED <<declared, cache, dropped>> /\ \A r \in Restores : todo'[r] = todo[r]
      BY <2>2, Names, Zenon DEF Fails, TypeOK
    <3> QED
      BY <3>1, ConservedKept, Zenon
  <2>3. CASE Advances(p)
    BY <2>3, ConservedKept, Zenon DEF Advances
  <2>4. CASE Cache(p)
    BY <1>0, <2>4, Accounts, AccountCache, Zenon
  <2> QED
    BY <1>4, <2>1, <2>2, <2>3, <2>4, DeclareWays, Zenon
<1> QED
  BY <1>1, <1>2, <1>3, <1>4, Zenon DEF Next

(* No declaration is duplicated and none disappears unnoticed, however     *)
(* many restores overlap with each other and with callers.                 *)
THEOREM NothingLost == Spec => []Conserved
<1>1. Init => Conserved
  <2> SUFFICES ASSUME Init, NEW e \in Entities
               PROVE  declared[e] = Occurrences(cache[KindOf(e)], e) + dropped[e]
                                      + Cardinality(Restoring(e))
    BY Zenon DEF Conserved
  <2>1. KindOf(e) \in Kinds
    BY KindOfEntity, Zenon
  <2>2. cache[KindOf(e)] = <<>> /\ declared[e] = 0 /\ dropped[e] = 0
    BY <2>1, Zenon DEF Init, EmptyCache
  <2>3. \A r \in Restores : Positions(todo[r], e) = {}
    BY Names DEF Init, Positions
  <2>4. Restoring(e) = {}
    BY <2>3, Zenon DEF Restoring
  <2> QED
    <3>1. Occurrences(cache[KindOf(e)], e) = 0
      BY <2>2, OccursEmpty, Zenon
    <3>2. Cardinality(Restoring(e)) = 0
      BY <2>4, FS_EmptySet, Zenon
    <3> QED
      BY <2>2, <3>1, <3>2
<1> QED
  BY <1>1, ConservedStep, Invariance, PTL DEF Spec
=============================================================================
