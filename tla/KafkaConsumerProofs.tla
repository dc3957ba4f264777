------------------------ MODULE KafkaConsumerProofs -------------------------
(***************************************************************************)
(* A group that has committed before: its members implement GroupLog, for  *)
(* any number of members, partitions, records and faults.                  *)
(***************************************************************************)
EXTENDS KafkaConsumer, TLAPS

(* The records of p in front of offset n are settled.                      *)
Below(p, n) == \A o \in 0..(n - 1) : <<p, o>> \in Settled

Busy == {"each", "handler", "backoff", "dlq", "commit"}

Shape ==
  /\ produced \in [Partitions -> Offsets] /\ committed \in [Partitions -> Offsets]
  /\ owner \in [Partitions -> Members \cup {Nobody}]
  /\ position \in [Partitions -> Offsets]
  /\ pc \in [Members -> Places]
  /\ signal \in [Members -> SUBSET Signals]
  /\ batch \in [Members -> [Partitions -> Slices]]
  /\ at \in [Members -> Partitions]
  /\ succeeded \subseteq Records /\ exhausted \subseteq Records
  /\ discarded \subseteq Records /\ handedOver \subseteq exhausted

(* The members work on a partition side by side, but none is ever beyond   *)
(* what is settled: where a batch goes on, everything in front is settled. *)
BatchInv(m) ==
  /\ pc[m] \in Busy => Remaining(batch[m][at[m]])
  /\ \A p \in Partitions :
       Remaining(batch[m][p]) =>
         Below(p, batch[m][p].next) /\ batch[m][p].end <= produced[p]
  /\ pc[m] = "commit" => Current(m) \in Settled
  /\ pc[m] = "dlq" => WithDLQ /\ Current(m) \in exhausted

(* What the owner of a partition would fetch next has only settled records *)
(* in front, unless its batch reaches up to there, or it will not poll any *)
(* more.                                                                   *)
PositionInv(m) ==
  \A p \in Partitions : owner[p] = m =>
    \/ Below(p, position[p])
    \/ "cancelled" \in signal[m]
    \/ /\ pc[m] \in Busy
       /\ Remaining(batch[m][p]) /\ batch[m][p].end = position[p]

GroupInv ==
  /\ \A p \in Partitions : Below(p, committed[p])
  /\ \A r \in Handled : Below(r[1], r[2])

IInv == Shape /\ GroupInv /\ \A m \in Members : BatchInv(m) /\ PositionInv(m)

-----------------------------------------------------------------------------
(* An offset in front of k that is also in front of n.                     *)
LEMMA InFront ==
  ASSUME NEW n \in Nat, NEW k \in Nat, NEW o \in 0..(k - 1), o < n
  PROVE  o \in 0..(n - 1)
OBVIOUS

(* The offset in front of another.                                         *)
LEMMA OffsetBefore ==
  ASSUME NEW n \in Nat, n + 1 \in Offsets
  PROVE  n \in 0..MaxRecords /\ n < n + 1
BY KafkaAssumption DEF Offsets

(* The end of a slice is the record after the next one, or lies behind it. *)
LEMMA EndBehind ==
  ASSUME NEW n \in Nat, NEW k \in Nat, n < k
  PROVE  n + 1 < k \/ n + 1 = k
OBVIOUS

(* What is settled stays settled.                                          *)
LEMMA BelowStays ==
  ASSUME Settled \subseteq Settled', NEW p, NEW n, Below(p, n)
  PROVE  Below(p, n)'
BY Zenon DEF Below

(* One record more.                                                        *)
LEMMA BelowNext ==
  ASSUME NEW p, NEW n \in Nat, Below(p, n), <<p, n>> \in Settled
  PROVE  Below(p, n + 1)
<1> SUFFICES ASSUME NEW o \in 0..((n + 1) - 1) PROVE <<p, o>> \in Settled
  BY Zenon DEF Below
<1>1. o = n \/ o \in 0..(n - 1)
  OBVIOUS
<1>2. QED BY <1>1, Zenon DEF Below

(* A member that did not step keeps its invariants when nothing it looks   *)
(* at has changed, settled records and those produced apart.               *)
Apart(m) ==
  /\ pc'[m] = pc[m] /\ signal'[m] = signal[m] /\ batch'[m] = batch[m] /\ at'[m] = at[m]
  /\ Settled \subseteq Settled' /\ exhausted \subseteq exhausted'
  /\ \A p \in Partitions : produced[p] <= produced'[p]

(* Its batch still lies behind what is settled.                            *)
LEMMA ApartBatch ==
  ASSUME Shape, Shape', NEW m \in Members, BatchInv(m), Apart(m)
  PROVE  BatchInv(m)'
<1>1. ASSUME NEW p \in Partitions, Remaining(batch[m][p])
      PROVE  Below(p, batch[m][p].next)' /\ batch'[m][p].end <= produced'[p]
  <2>1. Below(p, batch[m][p].next)
    BY <1>1, Zenon DEF BatchInv
  <2>2. \A o \in 0..(batch[m][p].next - 1) : <<p, o>> \in Settled'
    BY <2>1, Zenon DEF Below, Apart
  <2>3. batch[m][p].end <= produced[p] /\ batch[m][p].end \in Nat
    BY <1>1 DEF BatchInv, Shape, Slices, Offsets
  <2>4. produced[p] <= produced'[p] /\ produced[p] \in Nat /\ produced'[p] \in Nat
    BY DEF Apart, Shape, Offsets
  <2>5. QED BY <2>2, <2>3, <2>4 DEF Below, Apart
<1>2. QED BY <1>1, Zenon DEF BatchInv, Apart, Current, Remaining

(* So do the positions of the partitions it has kept.                      *)
LEMMA ApartPosition ==
  ASSUME NEW m \in Members, PositionInv(m), Apart(m),
         \A p \in Partitions : owner'[p] = m => owner[p] = m /\ position'[p] = position[p]
  PROVE  PositionInv(m)'
<1> SUFFICES ASSUME NEW p \in Partitions, owner'[p] = m
             PROVE  \/ Below(p, position[p])'
                    \/ "cancelled" \in signal'[m]
                    \/ /\ pc'[m] \in Busy
                       /\ Remaining(batch'[m][p]) /\ batch'[m][p].end = position'[p]
  BY Zenon DEF PositionInv, Remaining
<1>1. CASE Below(p, position[p])
  BY <1>1, Zenon DEF Below, Apart
<1>2. CASE ~Below(p, position[p])
  BY <1>2, Zenon DEF PositionInv, Apart
<1>3. QED BY <1>1, <1>2, Zenon

(* The batch of a member that is not in one.                               *)
LEMMA EmptyBatch == [p \in Partitions |-> Empty] \in [Partitions -> Slices]
BY KafkaAssumption DEF Empty, Slices, Offsets

(* What holds of the group goes on to hold when nothing is committed or    *)
(* handled.                                                                *)
LEMMA GroupStays ==
  ASSUME GroupInv, Settled \subseteq Settled', committed' = committed, Handled' = Handled
  PROVE  GroupInv'
BY Zenon DEF GroupInv, Below

(* A step of member m alone, after which it is well placed itself.         *)
LEMMA Assemble ==
  ASSUME IInv, Shape', GroupInv', NEW m \in Members, BatchInv(m)', PositionInv(m)',
         \A n \in Members \ {m} : Apart(n),
         \A p \in Partitions : owner'[p] # m /\ owner'[p] \in Members =>
            owner[p] = owner'[p] /\ position'[p] = position[p]
  PROVE  IInv'
<1>1. ASSUME NEW n \in Members, n # m PROVE BatchInv(n)' /\ PositionInv(n)'
  <2>1. Apart(n) /\ BatchInv(n) /\ PositionInv(n) /\ Shape
    BY <1>1, Zenon DEF IInv
  <2>2. \A p \in Partitions : owner'[p] = n => owner[p] = n /\ position'[p] = position[p]
    BY <1>1, Zenon
  <2>3. QED BY <2>1, <2>2, ApartBatch, ApartPosition, Zenon
<1>2. QED BY <1>1, Zenon DEF IInv

-----------------------------------------------------------------------------
(* The broker, the group and the process.                                  *)

(* A new record at the end of a log disturbs nobody.                       *)
LEMMA ProduceStep ==
  ASSUME IInv, NEW p \in Partitions, Produce(p)
  PROVE  IInv'
<1> USE KafkaAssumption DEF Produce, IInv, groupVars, loopVars, historyVars
<1>1. Shape' BY DEF Shape, Offsets, Places
<1>2. UNCHANGED <<Settled, Handled>> BY Zenon DEF Settled, GivenUp, Handled
<1>3. GroupInv' BY <1>2, GroupStays, Zenon
<1>4. \A n \in Members : Apart(n) BY <1>1, <1>2 DEF Apart, Shape, Offsets
<1>5. \A n \in Members : BatchInv(n)' BY <1>1, <1>4, ApartBatch, Zenon
<1>6. \A n \in Members : PositionInv(n)' BY <1>4, ApartPosition, Zenon
<1>7. QED BY <1>1, <1>3, <1>5, <1>6, Zenon

(* A new owner begins at the committed offset, with settled records in     *)
(* front of it.                                                            *)
LEMMA AssignStep ==
  ASSUME IInv, ~FreshGroup, NEW p \in Partitions, NEW m \in Members, Assign(p, m)
  PROVE  IInv'
<1> USE KafkaAssumption DEF Assign, brokerVars, loopVars, historyVars
<1>1. UNCHANGED <<Settled, Handled>> BY Zenon DEF Settled, GivenUp, Handled
<1>2. StartOffset(p) = committed[p] /\ committed[p] \in Offsets
  BY DEF StartOffset, NoOffset, IInv, Shape, Offsets
<1>3. Shape' BY <1>2, Zenon DEF IInv, Shape
<1>4. GroupInv' BY <1>1, GroupStays, Zenon DEF IInv
<1>5. \A n \in Members : Apart(n) BY <1>1, <1>3 DEF IInv, Apart, Shape, Offsets
<1>6. BatchInv(m)' BY <1>3, <1>5, ApartBatch, Zenon DEF IInv
<1>7. PositionInv(m)'
  <2> SUFFICES ASSUME NEW q \in Partitions, owner'[q] = m
               PROVE  \/ Below(q, position[q])'
                      \/ "cancelled" \in signal'[m]
                      \/ /\ pc'[m] \in Busy
                         /\ Remaining(batch'[m][q]) /\ batch'[m][q].end = position'[q]
    BY Zenon DEF PositionInv, Remaining
  <2>1. CASE q = p
    BY <1>1, <1>2, <2>1, Zenon DEF IInv, Shape, GroupInv, Below
  <2>2. CASE q # p
    BY <1>1, <2>2, Zenon DEF IInv, Shape, PositionInv, Below
  <2>3. QED BY <2>1, <2>2, Zenon
<1>8. QED BY <1>3, <1>4, <1>5, <1>6, <1>7, Assemble, Zenon DEF IInv, Shape

(* A member that leaves the group has no position to look after; what it   *)
(* has fetched it may go on with.                                          *)
LEMMA LeaveStep ==
  ASSUME IInv, NEW m \in Members, Crash(m) \/ CloseClient(m)
  PROVE  IInv'
<1> USE KafkaAssumption DEF Crash, CloseClient, Send, Fault, Forget, Leave, brokerVars, loopVars,
       historyVars
<1>1. UNCHANGED <<Settled, Handled>> BY Zenon DEF Settled, GivenUp, Handled
<1>2. Shape'
  <2>1. batch' \in [Members -> [Partitions -> Slices]] BY EmptyBatch, Zenon DEF IInv, Shape
  <2>2. position' \in [Partitions -> Offsets] BY DEF IInv, Shape, Offsets
  <2>3. owner' \in [Partitions -> Members \cup {Nobody}] BY Zenon DEF IInv, Shape
  <2>4. signal' \in [Members -> SUBSET Signals]
    <3>1. signal \in [Members -> SUBSET Signals] BY Zenon DEF IInv, Shape
    <3>2. \E S \in {{}, signal[m] \cup {"closed"}} : signal' = [signal EXCEPT ![m] = S] BY Zenon
    <3>3. QED BY <3>1, <3>2 DEF Signals
  <2>5. QED BY <2>1, <2>2, <2>3, <2>4, Zenon DEF IInv, Shape, Places
<1>3. GroupInv' BY <1>1, GroupStays, Zenon DEF IInv
<1>4. \A n \in Members \ {m} : Apart(n) BY <1>1, <1>2 DEF IInv, Apart, Shape, Offsets
<1>5. BatchInv(m)'
  <2>1. CASE Crash(m)
    <3>1. pc'[m] \notin Busy BY <2>1, Zenon DEF IInv, Shape, Busy
    <3>2. QED BY <2>1, <3>1 DEF IInv, Shape, BatchInv, Remaining, Empty, Busy
  <2>2. CASE CloseClient(m)
    BY <1>1, <2>2, Zenon DEF IInv, BatchInv, Current, Remaining, Below
  <2>3. QED BY <2>1, <2>2, Zenon
<1>6. \A p \in Partitions : owner'[p] # m BY DEF IInv, Shape
<1>7. PositionInv(m)' BY <1>6, Zenon DEF PositionInv
<1>8. \A p \in Partitions :
        owner'[p] \in Members => owner[p] = owner'[p] /\ position'[p] = position[p]
  BY Zenon DEF IInv, Shape
<1>9. QED BY <1>2, <1>3, <1>4, <1>5, <1>7, <1>8, Assemble, Zenon

(* The context, the start of the process and the begin of a callback touch *)
(* no record.                                                              *)
LEMMA SignalStep ==
  ASSUME IInv, NEW m \in Members,
         Restart(m) \/ Cancel(m) \/ PollStops(m) \/ EachRecord(m) \/ Backoff(m)
  PROVE  IInv'
<1> USE KafkaAssumption DEF Restart, Cancel, Send, PollStops, EachRecord, Backoff, AfterCancel,
       Forget, Move, brokerVars, groupVars, loopVars, historyVars
<1>1. UNCHANGED <<Settled, Handled>> BY Zenon DEF Settled, GivenUp, Handled
<1>2. Shape'
  <2>1. batch' \in [Members -> [Partitions -> Slices]] BY EmptyBatch, Zenon DEF IInv, Shape
  <2>2. pc' \in [Members -> Places] BY Zenon DEF IInv, Shape, Places
  <2>3. signal' \in [Members -> SUBSET Signals]
    <3>1. signal \in [Members -> SUBSET Signals] BY Zenon DEF IInv, Shape
    <3>2. \/ UNCHANGED signal
          \/ signal' = [signal EXCEPT ![m] = @ \cup {"cancelled"}]
      BY Zenon
    <3>3. QED BY <3>1, <3>2 DEF Signals
  <2>4. QED BY <2>1, <2>2, <2>3, Zenon DEF IInv, Shape
<1>3. GroupInv' BY <1>1, GroupStays, Zenon DEF IInv
<1>4. \A n \in Members \ {m} : Apart(n)
  <2>1. \A n \in Members \ {m} :
          pc'[n] = pc[n] /\ signal'[n] = signal[n] /\ batch'[n] = batch[n] /\ at'[n] = at[n]
    BY DEF IInv, Shape
  <2>2. produced' = produced /\ exhausted' = exhausted OBVIOUS
  <2>3. \A p \in Partitions : produced[p] <= produced[p] BY DEF IInv, Shape, Offsets
  <2>4. QED BY <1>1, <2>1, <2>2, <2>3, Zenon DEF Apart
<1>5. BatchInv(m)'
  <2>1. CASE batch' = batch
    BY <1>1, <2>1, Zenon DEF IInv, Shape, BatchInv, Busy, Below, Current
  <2>2. CASE batch' # batch
    <3>1. pc'[m] = "poll" /\ batch'[m] = [p \in Partitions |-> Empty]
      BY <2>2, Zenon DEF IInv, Shape
    <3>2. \A p \in Partitions : ~Remaining(batch'[m][p]) BY <3>1 DEF Remaining, Empty
    <3>3. QED BY <3>1, <3>2, Zenon DEF BatchInv, Busy
  <2>3. QED BY <2>1, <2>2, Zenon
<1>6. PositionInv(m)'
  <2>1. CASE "cancelled" \in signal'[m] BY <2>1, Zenon DEF PositionInv
  <2>2. CASE "cancelled" \notin signal'[m]
    <3>1. "cancelled" \notin signal[m] /\ batch' = batch /\ (pc[m] \in Busy => pc'[m] \in Busy)
      BY <2>2 DEF IInv, Shape, Busy, Signals
    <3>2. QED BY <1>1, <3>1, Zenon DEF IInv, PositionInv, Below, Remaining
  <2>3. QED BY <2>1, <2>2, Zenon
<1>7. QED BY <1>2, <1>3, <1>4, <1>5, <1>6, Assemble, Zenon

(* After StartAgain everything in front of the member's positions is       *)
(* settled.                                                                *)
LEMMA NothingBehind ==
  ASSUME IInv, NEW m \in Members, StartAgain(m), NEW p \in Partitions, owner[p] = m,
         NEW o \in 0..(position[p] - 1)
  PROVE  <<p, o>> \in Settled'
<1>1. position[p] \in Nat /\ position[p] \in Offsets BY DEF IInv, Shape, Offsets
<1>2. o \in Offsets /\ o < position[p]
  <2>1. ASSUME NEW n \in Offsets, NEW i \in 0..(n - 1) PROVE i \in Offsets /\ i < n
    BY KafkaAssumption DEF Offsets
  <2>2. QED BY <1>1, <2>1, Zenon
<1>3. <<p, o>> \in Settled \cup PassedOver(m) BY <1>2, Zenon DEF PassedOver, Records
<1>4. QED BY <1>3, Zenon DEF StartAgain, Settled, GivenUp

(* So the client that starts again may go on from there.                  *)
LEMMA StartAgainStep ==
  ASSUME IInv, NEW m \in Members, StartAgain(m)
  PROVE  IInv'
<1> USE KafkaAssumption DEF StartAgain, Fault, brokerVars, groupVars
<1>1. Settled \subseteq Settled' /\ Handled' = Handled
  BY Zenon DEF Settled, GivenUp, Handled
<1>2. Shape'
  <2>1. discarded' \subseteq Records BY Zenon DEF IInv, Shape, PassedOver
  <2>2. pc' \in [Members -> Places] /\ signal' \in [Members -> SUBSET Signals]
    BY DEF IInv, Shape, Places, Signals
  <2>3. QED BY <2>1, <2>2, Zenon DEF IInv, Shape
<1>3. GroupInv' BY <1>1, GroupStays, Zenon DEF IInv
<1>4. \A n \in Members \ {m} : Apart(n)
  <2>1. \A p \in Partitions : produced[p] <= produced[p] BY DEF IInv, Shape, Offsets
  <2>2. QED BY <1>1, <2>1, Zenon DEF IInv, Apart, Shape
<1>5. BatchInv(m)'
  <2>1. pc'[m] \notin {"commit", "dlq"} /\ pc'[m] \notin Busy BY DEF IInv, Shape, Busy
  <2>2. QED BY <1>1, <2>1, Zenon DEF IInv, BatchInv, Remaining, Below
<1>6. PositionInv(m)' BY NothingBehind, Zenon DEF PositionInv, Below
<1>7. QED BY <1>2, <1>3, <1>4, <1>5, <1>6, Assemble, Zenon

-----------------------------------------------------------------------------
(* Polls.                                                                  *)

(* What a poll returns is made of slices.                                  *)
LEMMA FetchedSlices ==
  ASSUME produced \in [Partitions -> Offsets], position \in [Partitions -> Offsets],
         NEW m \in Members, NEW f \in Fetched(m)
  PROVE  f \in [Partitions -> Slices]
<1>1. f \in [Partitions -> UNION {[next : {position[p]}, end : position[p]..produced[p]] :
                                    p \in Partitions}]
  BY Zenon DEF Fetched
<1>2. ASSUME NEW p \in Partitions PROVE f[p] \in Slices
  <2>1. PICK q \in Partitions : f[p] \in [next : {position[q]}, end : position[q]..produced[q]]
    BY <1>1
  <2>2. position[q] \in Offsets /\ produced[q] \in Offsets
    OBVIOUS
  <2>3. QED BY <2>1, <2>2, KafkaAssumption DEF Slices, Offsets
<1>3. QED BY <1>1, <1>2, Zenon

(* They go on from the positions, and are of owned partitions only.        *)
LEMMA FetchedFacts ==
  ASSUME Shape, NEW m \in Members, NEW f \in Fetched(m)
  PROVE  /\ f \in [Partitions -> Slices]
         /\ \A p \in Partitions : f[p].next = position[p] /\ f[p].end <= produced[p]
         /\ \A p \in Partitions : Remaining(f[p]) => owner[p] = m
<1>1. f \in [Partitions -> Slices] BY FetchedSlices, Zenon DEF Shape
<1>2. \A p \in Partitions : f[p].next = position[p] /\ f[p].end <= produced[p]
                           /\ (owner[p] # m => f[p].end = position[p])
  BY Zenon DEF Fetched
<1>3. \A p \in Partitions : Remaining(f[p]) => owner[p] = m
  BY <1>1, <1>2 DEF Remaining, Slices, Offsets, Shape
<1>4. QED BY <1>1, <1>2, <1>3, Zenon

(* A member that polls has nothing unsettled behind it.                    *)
LEMMA PollerInFront ==
  ASSUME IInv, NEW m \in Members, pc[m] = "poll", signal[m] = {},
         NEW p \in Partitions, owner[p] = m
  PROVE  Below(p, position[p])
BY Zenon DEF IInv, PositionInv, Busy

(* A batch begins where the owner stands.                                  *)
LEMMA PollRecordsStep ==
  ASSUME IInv, NEW m \in Members, PollRecords(m)
  PROVE  IInv'
<1> USE KafkaAssumption DEF PollRecords, Move, brokerVars
<1>1. PICK f \in Fetched(m) :
        /\ Advance(f) /\ batch' = [batch EXCEPT ![m] = f]
        /\ \E p \in Partitions : Remaining(f[p]) /\ at' = [at EXCEPT ![m] = p]
  BY Zenon
<1>2. PICK q \in Partitions : Remaining(f[q]) /\ at' = [at EXCEPT ![m] = q]
  BY <1>1, Zenon
<1>3. /\ f \in [Partitions -> Slices]
      /\ \A p \in Partitions : f[p].next = position[p] /\ f[p].end <= produced[p]
      /\ \A p \in Partitions : Remaining(f[p]) => owner[p] = m
  BY FetchedFacts, Zenon DEF IInv
<1>4. UNCHANGED <<Settled, Handled>> BY Zenon DEF Settled, GivenUp, Handled
<1>5. Shape'
  <2>1. position' \in [Partitions -> Offsets] BY <1>1, <1>3, Zenon DEF IInv, Shape, Advance, Slices
  <2>2. QED BY <1>1, <1>2, <1>3, <2>1, Zenon DEF IInv, Shape, Places
<1>6. GroupInv' BY <1>4, GroupStays, Zenon DEF IInv
<1>7. \A n \in Members \ {m} : Apart(n)
  BY <1>1, <1>2, <1>4, <1>5 DEF IInv, Apart, Shape, Offsets
<1>8. BatchInv(m)'
  <2>1. pc'[m] = "each" /\ batch'[m] = f /\ at'[m] = q
    BY <1>1, <1>2, Zenon DEF IInv, Shape
  <2>2. ASSUME NEW p \in Partitions, Remaining(f[p]) PROVE Below(p, f[p].next)
    BY <1>3, <2>2, PollerInFront, Zenon
  <2>3. QED BY <1>2, <1>3, <1>4, <2>1, <2>2, Zenon DEF BatchInv, Below, Busy, Remaining
<1>9. PositionInv(m)'
  <2>1. pc'[m] = "each" /\ batch'[m] = f
    BY <1>1, Zenon DEF IInv, Shape
  <2>2. ASSUME NEW p \in Partitions, owner[p] = m, ~Remaining(f[p])
        PROVE  Below(p, position[p])'
    <3>1. Below(p, position[p]) BY <2>2, PollerInFront, Zenon
    <3>2. position'[p] = position[p] BY <1>1, <2>2, Zenon DEF Advance
    <3>3. QED BY <1>4, <3>1, <3>2, Zenon DEF Below
  <2>3. ASSUME NEW p \in Partitions, Remaining(f[p])
        PROVE  Remaining(batch'[m][p]) /\ batch'[m][p].end = position'[p]
    BY <1>1, <2>1, <2>3 DEF Advance, Remaining
  <2>4. QED BY <2>1, <2>2, <2>3, Zenon DEF PositionInv, Busy, Remaining
<1>10. \A p \in Partitions : owner'[p] # m => owner[p] = owner'[p] /\ position'[p] = position[p]
  BY <1>1, <1>3, Zenon DEF Advance
<1>11. QED BY <1>5, <1>6, <1>7, <1>8, <1>9, <1>10, Assemble, Zenon

(* The records of a poll with an error are settled where the group stands. *)
LEMMA PollErrorStep ==
  ASSUME IInv, NEW m \in Members, PollError(m)
  PROVE  IInv'
<1> USE KafkaAssumption DEF PollError, Fault, loopVars, brokerVars
<1>1. PICK f \in Fetched(m) : Advance(f) /\ discarded' = discarded \cup RecordsOf(f)
  OBVIOUS
<1>2. /\ f \in [Partitions -> Slices]
      /\ \A p \in Partitions : f[p].next = position[p] /\ f[p].end <= produced[p]
      /\ \A p \in Partitions : Remaining(f[p]) => owner[p] = m
  BY FetchedFacts, Zenon DEF IInv
<1>3. Settled \subseteq Settled' /\ Handled' = Handled
  BY <1>1, Zenon DEF Settled, GivenUp, Handled
<1>4. Shape'
  <2>1. position' \in [Partitions -> Offsets] BY <1>1, <1>2, Zenon DEF IInv, Shape, Advance, Slices
  <2>2. discarded' \subseteq Records BY <1>1, Zenon DEF IInv, Shape, RecordsOf
  <2>3. QED BY <2>1, <2>2, Zenon DEF IInv, Shape
<1>5. GroupInv' BY <1>3, GroupStays, Zenon DEF IInv
<1>6. \A n \in Members : Apart(n)
  BY <1>3, <1>4, SMTT(20) DEF IInv, Apart, Shape, Offsets
<1>7. BatchInv(m)' BY <1>4, <1>6, ApartBatch, Zenon DEF IInv
<1>8. ASSUME NEW p \in Partitions, owner[p] = m PROVE Below(p, position[p])'
  <2>1. Below(p, position[p]) BY <1>8, PollerInFront, Zenon
  <2>2. CASE ~Remaining(f[p])
    BY <1>1, <1>3, <2>1, <2>2, Zenon DEF Advance, Below
  <2>3. CASE Remaining(f[p])
    <3>1. position'[p] = f[p].end BY <1>1, <2>3, Zenon DEF Advance
    <3>2. ASSUME NEW o \in 0..(f[p].end - 1) PROVE <<p, o>> \in Settled'
      <4>1. /\ position[p] \in Nat /\ f[p].end \in Offsets /\ f[p].end \in Nat
            /\ f[p].next = position[p]
        BY <1>2 DEF IInv, Shape, Slices, Offsets
      <4>2. CASE o < position[p]
        <5>1. o \in 0..(position[p] - 1) BY <4>1, <4>2, InFront, Zenon
        <5>2. <<p, o>> \in Settled BY <2>1, <5>1, Zenon DEF Below
        <5>3. QED BY <1>3, <5>2, Zenon
      <4>3. CASE o >= position[p]
        <5>1. o \in Offsets /\ o < f[p].end BY <4>1 DEF Offsets
        <5>2. <<p, o>> \in RecordsOf(f) BY <4>1, <4>3, <5>1, Zenon DEF RecordsOf, Records
        <5>3. QED BY <1>1, <5>2, Zenon DEF Settled
      <4>4. QED BY <4>1, <4>2, <4>3
    <3>3. QED BY <3>1, <3>2, Zenon DEF Below
  <2>4. QED BY <2>2, <2>3, Zenon
<1>9. PositionInv(m)' BY <1>8, Zenon DEF PositionInv
<1>10. \A p \in Partitions : owner'[p] # m => owner[p] = owner'[p] /\ position'[p] = position[p]
  BY <1>1, <1>2, Zenon DEF Advance
<1>11. QED BY <1>4, <1>5, <1>6, <1>7, <1>9, <1>10, Assemble, Zenon

-----------------------------------------------------------------------------
(* The callback.                                                           *)

(* The record the loop is at: a record of the log, with everything in      *)
(* front of it settled.                                                    *)
LEMMA CurrentFacts ==
  ASSUME IInv, NEW m \in Members, pc[m] \in Busy
  PROVE  /\ at[m] \in Partitions /\ batch[m][at[m]] \in Slices
         /\ batch[m][at[m]].next \in Nat /\ batch[m][at[m]].next + 1 \in Offsets
         /\ batch[m][at[m]].end \in Nat
         /\ batch[m][at[m]].next < produced[at[m]]
         /\ Below(at[m], batch[m][at[m]].next)
         /\ Current(m) \in Records
<1> DEFINE b == batch[m][at[m]]
<1>1. at[m] \in Partitions /\ b \in Slices /\ produced[at[m]] \in Offsets
  BY Zenon DEF IInv, Shape
<1>2. b.next < b.end /\ Below(at[m], b.next) /\ b.end <= produced[at[m]]
  BY <1>1, Zenon DEF IInv, BatchInv, Remaining
<1>3. /\ b.next \in Nat /\ b.next \in Offsets /\ b.next + 1 \in Offsets
      /\ b.end \in Nat /\ b.next < produced[at[m]]
  BY <1>1, <1>2, KafkaAssumption DEF Slices, Offsets
<1>4. QED BY <1>1, <1>2, <1>3, Zenon DEF Records, Current

(* A record is handled, given up or handed over with everything in front   *)
(* of it settled.                                                          *)
LEMMA HandlerStep ==
  ASSUME IInv, NEW m \in Members, HandlerSucceeds(m) \/ HandlerFails(m) \/ SendToDLQ(m)
  PROVE  IInv'
<1> USE KafkaAssumption DEF HandlerSucceeds, HandlerFails, SendToDLQ, ProduceAsync, Move,
       brokerVars, groupVars, historyVars
<1>1. pc[m] \in Busy BY Zenon DEF Busy
<1>2. Current(m) \in Records /\ Below(at[m], batch[m][at[m]].next)
  BY <1>1, CurrentFacts, Zenon
<1>3. Settled \subseteq Settled' /\ exhausted \subseteq exhausted'
  BY Zenon DEF Settled, GivenUp
<1>4. SendToDLQ(m) => Current(m) \in exhausted BY Zenon DEF IInv, BatchInv
<1>5. Shape' BY <1>2, <1>4, Zenon DEF IInv, Shape, Places
<1>6. GroupInv'
  <2>1. \A p \in Partitions : Below(p, committed[p])' BY <1>3, Zenon DEF IInv, GroupInv, Below
  <2>2. Handled' \subseteq Handled \cup {Current(m)} BY Zenon DEF Handled
  <2>3. ASSUME NEW r \in Handled' PROVE Below(r[1], r[2])'
    <3>1. CASE r \in Handled
      BY <1>3, <3>1, BelowStays, Zenon DEF IInv, GroupInv
    <3>2. CASE r = Current(m)
      <4>1. r[1] = at[m] /\ r[2] = batch[m][at[m]].next BY <3>2, Zenon DEF Current
      <4>2. Below(r[1], r[2]) BY <1>2, <4>1, Zenon
      <4>3. QED BY <1>3, <4>2, BelowStays, Zenon
    <3>3. QED BY <2>2, <3>1, <3>2, Zenon
  <2>4. QED BY <2>1, <2>3, Zenon DEF GroupInv
<1>7. \A n \in Members \ {m} : Apart(n) BY <1>3, <1>5 DEF IInv, Apart, Shape, Offsets
<1>8. BatchInv(m)'
  <2>1. batch' = batch /\ at' = at /\ produced' = produced /\ Current(m)' = Current(m)
    BY Zenon DEF Current
  <2>2. \A p \in Partitions :
          Remaining(batch[m][p]) =>
            Below(p, batch[m][p].next)' /\ batch[m][p].end <= produced[p]
    BY <1>3, <2>1, Zenon DEF IInv, BatchInv, Below
  <2>3. pc'[m] = "commit" => Current(m) \in Settled'
    BY Zenon DEF IInv, Shape, BatchInv, Settled, GivenUp
  <2>4. pc'[m] = "dlq" => WithDLQ /\ Current(m) \in exhausted'
    BY Zenon DEF IInv, Shape
  <2>5. Remaining(batch[m][at[m]]) BY <1>1, Zenon DEF IInv, BatchInv
  <2>6. QED BY <2>1, <2>2, <2>3, <2>4, <2>5, Zenon DEF BatchInv, Remaining
<1>9. PositionInv(m)'
  <2>1. pc'[m] \in Busy BY Zenon DEF IInv, Shape, Busy
  <2>2. QED BY <1>1, <1>3, <2>1, Zenon DEF IInv, PositionInv, Below, Remaining
<1>10. QED BY <1>5, <1>6, <1>7, <1>8, <1>9, Assemble, Zenon

(* The offset that is committed has only settled records in front, and the *)
(* batch goes on behind it.                                                *)
LEMMA CommitStep ==
  ASSUME IInv, NEW m \in Members, CommitRecords(m)
  PROVE  IInv'
<1> USE KafkaAssumption DEF CommitRecords, Move, groupVars, historyVars
<1> DEFINE a == at[m]
           n == batch[m][a].next
<1>1. pc[m] \in Busy /\ pc[m] = "commit" BY Zenon DEF Busy
<1>2. /\ a \in Partitions /\ batch[m][a] \in Slices /\ batch[m][a].end \in Nat
      /\ n \in Nat /\ n + 1 \in Offsets
      /\ Below(a, n) /\ <<a, n>> \in Settled
  BY <1>1, CurrentFacts, Zenon DEF IInv, BatchInv, Current
<1>3. Below(a, n + 1) BY <1>2, BelowNext, Zenon
<1>4. UNCHANGED <<Settled, Handled>> BY Zenon DEF Settled, GivenUp, Handled
<1>5. /\ Rest(m) \in [Partitions -> Slices]
      /\ Rest(m)[a].next = n + 1 /\ Rest(m)[a].end = batch[m][a].end
      /\ \A p \in Partitions \ {a} : Rest(m)[p] = batch[m][p]
  BY <1>2, Zenon DEF Rest, IInv, Shape, Slices
<1>6. committed' \in [Partitions -> Offsets]
  BY <1>2, Zenon DEF IInv, Shape, CommitOffset
<1>7. Shape'
  <2>1. batch' \in [Members -> [Partitions -> Slices]]
    BY <1>5, EmptyBatch, Zenon DEF NextRecord, Forget, IInv, Shape
  <2>2. at' \in [Members -> Partitions]
    <3>1. (\E p \in Partitions : at' = [at EXCEPT ![m] = p]) \/ at' = at
      BY Zenon DEF NextRecord
    <3>2. QED BY <3>1, Zenon DEF IInv, Shape
  <2>3. pc' \in [Members -> Places]
    BY Zenon DEF NextRecord, IInv, Shape, Places
  <2>4. QED BY <1>6, <2>1, <2>2, <2>3, Zenon DEF IInv, Shape
<1>8. GroupInv'
  <2>1. ASSUME NEW p \in Partitions PROVE Below(p, committed[p])'
    <3>1. committed'[p] = committed[p] \/ (p = a /\ committed'[p] = n + 1)
      BY Zenon DEF IInv, Shape, CommitOffset
    <3>2. QED BY <1>3, <1>4, <3>1, Zenon DEF IInv, GroupInv, Below
  <2>2. QED BY <1>4, <2>1, Zenon DEF IInv, GroupInv, Below
<1>9. \A k \in Members \ {m} : Apart(k)
  BY <1>4, <1>7 DEF NextRecord, Forget, IInv, Apart, Shape, Offsets
<1>10. ASSUME NEW p \in Partitions, Remaining(Rest(m)[p])
       PROVE  Below(p, Rest(m)[p].next) /\ Rest(m)[p].end <= produced[p]
  <2>1. CASE p = a
    <3>1. Remaining(batch[m][a]) BY <1>1, Zenon DEF IInv, BatchInv
    <3>2. QED BY <1>3, <1>5, <2>1, <3>1, Zenon DEF IInv, BatchInv
  <2>2. CASE p # a
    BY <1>5, <1>10, <2>2, Zenon DEF IInv, BatchInv
  <2>3. QED BY <2>1, <2>2, Zenon
<1>11. ASSUME NEW p \in Partitions, owner[p] = m
       PROVE  \/ Below(p, position[p]) \/ "cancelled" \in signal[m]
              \/ Remaining(Rest(m)[p]) /\ Rest(m)[p].end = position[p]
  <2>1. CASE Remaining(batch[m][p]) /\ batch[m][p].end = position[p]
    <3>1. CASE p # a
      BY <1>5, <2>1, <3>1, Zenon
    <3>2. CASE p = a
      <4>1. n < batch[m][a].end /\ batch[m][a].end = position[p]
        BY <2>1, <3>2, Zenon DEF Remaining
      <4>2. n + 1 < position[p] \/ n + 1 = position[p]
        BY <1>2, <4>1, EndBehind, Zenon
      <4>3. QED BY <1>3, <1>5, <2>1, <3>2, <4>2, Zenon DEF Remaining
    <3>3. QED BY <3>1, <3>2, Zenon
  <2>2. QED BY <1>11, <2>1, Zenon DEF IInv, PositionInv
<1>12. CASE batch'[m] = Rest(m) /\ pc'[m] = "each" /\ Remaining(Rest(m)[at'[m]])
  <2>1. BatchInv(m)' BY <1>4, <1>10, <1>12, Zenon DEF BatchInv, Below, Remaining
  <2>2. PositionInv(m)' BY <1>4, <1>11, <1>12, Zenon DEF PositionInv, Below, Remaining, Busy
  <2>3. QED BY <1>7, <1>8, <1>9, <2>1, <2>2, Assemble, Zenon
<1>13. CASE /\ batch'[m] = [p \in Partitions |-> Empty] /\ pc'[m] = "poll"
            /\ \A p \in Partitions : ~Remaining(Rest(m)[p])
  <2>1. BatchInv(m)'
    <3>1. \A p \in Partitions : ~Remaining(batch'[m][p]) BY <1>13 DEF Remaining, Empty
    <3>2. QED BY <1>13, <3>1, Zenon DEF BatchInv, Busy
  <2>2. PositionInv(m)' BY <1>4, <1>11, <1>13, Zenon DEF PositionInv, Below
  <2>3. QED BY <1>7, <1>8, <1>9, <2>1, <2>2, Assemble, Zenon
<1>14. QED BY <1>12, <1>13, Zenon DEF NextRecord, Forget, IInv, Shape

-----------------------------------------------------------------------------
(* The invariant, and what follows from it.                                *)

(* Every step keeps the invariant.                                         *)
LEMMA NextStep ==
  ASSUME IInv, ~FreshGroup, [Next]_vars
  PROVE  IInv'
<1>1. CASE UNCHANGED vars
  <2>1. UNCHANGED <<produced, committed, owner, position, pc, signal, batch, at, succeeded,
                    exhausted, discarded, handedOver>>
    BY <1>1, Zenon DEF vars, brokerVars, groupVars, loopVars, historyVars
  <2>2. UNCHANGED <<Settled, Handled>> BY <2>1, Zenon DEF Settled, GivenUp, Handled
  <2>3. Shape' /\ GroupInv' BY <2>1, <2>2, Zenon DEF IInv, Shape, GroupInv, Below
  <2>4. \A m \in Members : BatchInv(m)' /\ PositionInv(m)'
    BY <2>1, <2>2, Zenon DEF IInv, BatchInv, PositionInv, Below, Current, Remaining
  <2>5. QED BY <2>3, <2>4, Zenon DEF IInv
<1>2. CASE Next
  BY <1>2, ProduceStep, AssignStep, LeaveStep, SignalStep, StartAgainStep, PollRecordsStep,
     PollErrorStep, HandlerStep, CommitStep, Zenon DEF Next, Consume
<1>3. QED BY <1>1, <1>2, Zenon

(* The invariant holds of every reachable state of a group that has        *)
(* committed before.                                                       *)
THEOREM Invariant == ~FreshGroup => (Spec => []IInv)
<1> SUFFICES ASSUME ~FreshGroup PROVE Spec => []IInv
  OBVIOUS
<1>1. Init => IInv
  <2> SUFFICES ASSUME Init PROVE IInv
    OBVIOUS
  <2>1. Shape BY KafkaAssumption, EmptyBatch DEF Init, Shape, Offsets, Places
  <2>2. GroupInv BY DEF Init, GroupInv, Below, Handled
  <2>3. ASSUME NEW m \in Members PROVE BatchInv(m) /\ PositionInv(m)
    BY DEF Init, BatchInv, PositionInv, Remaining, Empty, Busy, Below
  <2>4. QED BY <2>1, <2>2, <2>3, Zenon DEF IInv
<1>2. IInv /\ [Next]_vars => IInv' BY NextStep, Zenon
<1>3. QED BY <1>1, <1>2, PTL DEF Spec

(* No record below a committed offset is unsettled, through crashes,       *)
(* rebalances, shutdowns and failed commits.                               *)
THEOREM CommittedSettled == ~FreshGroup => (Spec => []CommittedIsSettled)
<1> SUFFICES ASSUME ~FreshGroup PROVE Spec => []CommittedIsSettled
  OBVIOUS
<1>1. IInv => CommittedIsSettled BY Zenon DEF IInv, GroupInv, Below, CommittedIsSettled
<1>2. QED BY <1>1, Invariant, PTL

(* The records of a partition are handled in order, whichever members they *)
(* go to.                                                                  *)
THEOREM InOrder == ~FreshGroup => (Spec => []HandledInOrder)
<1> SUFFICES ASSUME ~FreshGroup PROVE Spec => []HandledInOrder
  OBVIOUS
<1>1. IInv => HandledInOrder
  BY Zenon DEF IInv, Shape, GroupInv, Below, HandledInOrder, Settled, GivenUp, Handled
<1>2. QED BY <1>1, Invariant, PTL

-----------------------------------------------------------------------------
(* The refinement.                                                         *)

(* A record that is settled with everything in front of it is a step of    *)
(* the log.                                                                *)
LEMMA SettlesOne ==
  ASSUME IInv, NEW m \in Members, pc[m] \in Busy,
         Settled' = Settled \cup {Current(m)}, UNCHANGED brokerVars
  PROVE  Log!Settle
<1> DEFINE a == at[m]
           n == batch[m][a].next
           e == [p \in Partitions |-> IF p = a THEN n + 1 ELSE 0]
<1>1. /\ a \in Partitions /\ n \in Nat /\ n + 1 \in Offsets /\ n < produced[a]
      /\ Below(a, n) /\ Current(m) = <<a, n>>
  BY CurrentFacts, Zenon DEF Current
<1>2. e \in Log!Ends
  <2>1. n + 1 \in 0..MaxRecords /\ 0 \in 0..MaxRecords BY <1>1, KafkaAssumption DEF Offsets
  <2>2. QED BY <2>1, Zenon DEF Log!Ends
<1>3. \A p \in Partitions : e[p] <= produced[p]
  BY <1>1 DEF IInv, Shape, Offsets
<1>4. Log!Front(e) \subseteq Settled \cup {Current(m)}
  <2> SUFFICES ASSUME NEW r \in Log!Front(e) PROVE r \in Settled \cup {Current(m)}
    OBVIOUS
  <2>1. r \in Partitions \X (0..MaxRecords) /\ r[2] < e[r[1]] BY Zenon DEF Log!Front
  <2>2. r = <<r[1], r[2]>> /\ r[1] \in Partitions /\ r[2] \in 0..MaxRecords BY <2>1
  <2>3. r[1] = a /\ r[2] < n + 1 BY <2>1, <2>2
  <2>4. r[2] = n \/ r[2] \in 0..(n - 1) BY <1>1, <2>2, <2>3
  <2>5. QED BY <1>1, <2>2, <2>3, <2>4, Zenon DEF Below
<1>5. Current(m) \in Log!Front(e)
  <2>1. e[a] = n + 1 BY <1>1, Zenon
  <2> HIDE DEF a, n, e
  <2>2. n \in 0..MaxRecords /\ n < n + 1 BY <1>1, OffsetBefore, Zenon
  <2>3. <<a, n>> \in Partitions \X (0..MaxRecords) /\ <<a, n>>[2] < e[<<a, n>>[1]]
    BY <1>1, <2>1, <2>2, Zenon
  <2>4. QED BY <1>1, <2>3, Zenon DEF Log!Front
<1>6. Settled' = Settled \cup Log!Front(e) BY <1>4, <1>5, Zenon
<1>7. QED BY <1>2, <1>3, <1>6, Zenon DEF Log!Settle, brokerVars

(* A poll with an error settles the front of several partitions at once.   *)
LEMMA SettlesPoll ==
  ASSUME IInv, NEW m \in Members, PollError(m)
  PROVE  Log!Settle
<1>1. PICK f \in Fetched(m) : discarded' = discarded \cup RecordsOf(f)
  BY Zenon DEF PollError
<1>2. /\ f \in [Partitions -> Slices]
      /\ \A p \in Partitions : f[p].next = position[p] /\ f[p].end <= produced[p]
      /\ \A p \in Partitions : Remaining(f[p]) => owner[p] = m
  BY FetchedFacts, Zenon DEF IInv
<1> DEFINE e == [p \in Partitions |-> IF Remaining(f[p]) THEN f[p].end ELSE 0]
<1>3. e \in Log!Ends BY <1>2, KafkaAssumption DEF Log!Ends, Slices, Offsets
<1>4. \A p \in Partitions : e[p] <= produced[p]
  BY <1>2 DEF IInv, Shape, Offsets
<1>5. Settled' = Settled \cup RecordsOf(f) BY <1>1, Zenon DEF PollError, Settled, GivenUp
<1>6. RecordsOf(f) \subseteq Log!Front(e)
  BY <1>2 DEF RecordsOf, Log!Front, Records, Offsets, Remaining, Slices
<1>7. Log!Front(e) \subseteq Settled \cup RecordsOf(f)
  <2> SUFFICES ASSUME NEW r \in Log!Front(e) PROVE r \in Settled \cup RecordsOf(f)
    OBVIOUS
  <2>1. r \in Partitions \X (0..MaxRecords) /\ r[2] < e[r[1]] BY Zenon DEF Log!Front
  <2>2. r = <<r[1], r[2]>> /\ r[1] \in Partitions /\ r[2] \in 0..MaxRecords BY <2>1
  <2>3. Remaining(f[r[1]]) /\ r[2] < f[r[1]].end BY <2>1, <2>2
  <2>4. Below(r[1], position[r[1]])
    BY <1>2, <2>2, <2>3, PollerInFront, Zenon DEF PollError
  <2>5. position[r[1]] \in Nat /\ f[r[1]].next = position[r[1]]
    BY <1>2, <2>2 DEF IInv, Shape, Offsets
  <2>6. CASE r[2] < position[r[1]]
    BY <2>2, <2>4, <2>5, <2>6 DEF Below
  <2>7. CASE r[2] >= position[r[1]]
    BY <2>2, <2>3, <2>5, <2>7, Zenon DEF RecordsOf, Records, Offsets
  <2>8. QED BY <2>2, <2>5, <2>6, <2>7
<1>8. Settled' = Settled \cup Log!Front(e) BY <1>5, <1>6, <1>7, Zenon
<1>9. QED BY <1>3, <1>4, <1>8, Zenon DEF Log!Settle, PollError, brokerVars

(* No offset lies behind the end of its log.                               *)
Within == \A p \in Partitions : committed[p] <= produced[p] /\ position[p] <= produced[p]

(* No step moves one there.                                                *)
LEMMA WithinStep ==
  ASSUME IInv, ~FreshGroup, Within, [Next]_vars
  PROVE  Within'
<1> USE DEF brokerVars, groupVars, loopVars, historyVars
<1>1. /\ produced \in [Partitions -> Nat] /\ committed \in [Partitions -> Nat]
      /\ position \in [Partitions -> Nat]
  BY DEF IInv, Shape, Offsets
<1>2. CASE UNCHANGED <<produced, committed, position>>
  BY <1>2, Zenon DEF Within
<1>3. ASSUME NEW p \in Partitions, Produce(p) PROVE Within'
  BY <1>1, <1>3 DEF Produce, Within
<1>4. ASSUME NEW p \in Partitions, NEW m \in Members, Assign(p, m) PROVE Within'
  BY <1>1, <1>4 DEF Assign, StartOffset, Within
<1>5. ASSUME NEW m \in Members, Leave(m), UNCHANGED <<produced, committed>> PROVE Within'
  BY <1>1, <1>5 DEF Leave, Within
<1>6. ASSUME NEW m \in Members, NEW f \in Fetched(m), Advance(f),
             UNCHANGED <<produced, committed>>
      PROVE  Within'
  <2>1. \A p \in Partitions : f[p].end <= produced[p] BY FetchedFacts, Zenon DEF IInv
  <2>2. QED BY <1>6, <2>1, Zenon DEF Advance, Within
<1>7. ASSUME NEW m \in Members, CommitRecords(m) PROVE Within'
  <2>1. pc[m] \in Busy BY <1>7, Zenon DEF CommitRecords, Busy
  <2>2. /\ at[m] \in Partitions /\ batch[m][at[m]].next \in Nat
        /\ batch[m][at[m]].next < produced[at[m]]
    BY <2>1, CurrentFacts, Zenon
  <2>3. CommitOffset(m) <= produced[at[m]] BY <1>1, <2>2 DEF CommitOffset
  <2>4. QED BY <1>1, <1>7, <2>2, <2>3, Zenon DEF CommitRecords, Within
<1>8. ASSUME NEW m \in Members,
             \/ PollStops(m) \/ EachRecord(m) \/ HandlerSucceeds(m) \/ HandlerFails(m)
             \/ Backoff(m) \/ SendToDLQ(m) \/ Restart(m) \/ Cancel(m) \/ StartAgain(m)
      PROVE  UNCHANGED <<produced, committed, position>>
  BY <1>8, Zenon DEF PollStops, EachRecord, HandlerSucceeds, HandlerFails, Backoff, SendToDLQ,
     Restart, Cancel, StartAgain
<1>9. CASE UNCHANGED vars BY <1>2, <1>9, Zenon DEF vars
<1>10. ASSUME NEW m \in Members, Crash(m) \/ CloseClient(m) PROVE Within'
  BY <1>5, <1>10, Zenon DEF Crash, CloseClient
<1>11. ASSUME NEW m \in Members, PollRecords(m) \/ PollError(m) PROVE Within'
  BY <1>6, <1>11, Zenon DEF PollRecords, PollError
<1>12. QED
  BY <1>2, <1>3, <1>4, <1>7, <1>8, <1>9, <1>10, <1>11, Zenon DEF Next, Consume

(* What a Start on the same client passes over lies at the front, too.     *)
LEMMA SettlesPassedOver ==
  ASSUME IInv, Within, NEW m \in Members, StartAgain(m)
  PROVE  Log!Settle
<1> DEFINE e == [p \in Partitions |-> IF owner[p] = m THEN position[p] ELSE 0]
<1>1. e \in Log!Ends BY KafkaAssumption DEF Log!Ends, IInv, Shape, Offsets
<1>2. \A p \in Partitions : e[p] <= produced[p]
  BY DEF IInv, Shape, Offsets, Within
<1>3. Settled' = Settled \cup PassedOver(m) BY Zenon DEF StartAgain, Settled, GivenUp
<1>4. PassedOver(m) \subseteq Log!Front(e)
  BY DEF PassedOver, Log!Front, Records, Offsets
<1>5. Log!Front(e) \subseteq Settled \cup PassedOver(m)
  <2> SUFFICES ASSUME NEW r \in Log!Front(e) PROVE r \in Settled \cup PassedOver(m)
    OBVIOUS
  <2>1. r \in Partitions \X (0..MaxRecords) /\ r[2] < e[r[1]] BY Zenon DEF Log!Front
  <2>2. r[1] \in Partitions /\ r[2] \in 0..MaxRecords /\ r \in Records
    BY <2>1 DEF Records, Offsets
  <2>3. owner[r[1]] = m /\ r[2] < position[r[1]] BY <2>1, <2>2
  <2>4. QED BY <2>2, <2>3, Zenon DEF PassedOver
<1>6. Settled' = Settled \cup Log!Front(e) BY <1>3, <1>4, <1>5, Zenon
<1>7. QED BY <1>1, <1>2, <1>6, Zenon DEF Log!Settle, StartAgain, brokerVars

(* A commit moves the offset of the log, or fails.                         *)
LEMMA Resumes ==
  ASSUME IInv, NEW m \in Members, CommitRecords(m)
  PROVE  (\E p \in Partitions : Log!Resume(p)) \/ UNCHANGED <<produced, Settled, committed>>
<1> DEFINE a == at[m]
           n == batch[m][a].next
<1>1. pc[m] \in Busy /\ pc[m] = "commit" BY Zenon DEF CommitRecords, Busy
<1>2. /\ a \in Partitions /\ n \in Nat /\ n + 1 \in Offsets
      /\ Below(a, n) /\ <<a, n>> \in Settled
  BY <1>1, CurrentFacts, Zenon DEF IInv, BatchInv, Current
<1>3. Below(a, n + 1) BY <1>2, BelowNext, Zenon
<1>4. UNCHANGED <<produced, Settled>> BY Zenon DEF CommitRecords, historyVars, Settled, GivenUp
<1>5. CASE committed' = [committed EXCEPT ![a] = n + 1]
  <2>1. Log!Resume(a) BY <1>2, <1>3, <1>4, <1>5, Zenon DEF Log!Resume, Below, Offsets
  <2>2. QED BY <1>2, <2>1, Zenon
<1>6. QED BY <1>4, <1>5, Zenon DEF CommitRecords, CommitOffset

(* The members of a group implement GroupLog.                              *)
THEOREM Refinement == ~FreshGroup => (Spec => ImplementsGroupLog)
<1> SUFFICES ASSUME ~FreshGroup PROVE Spec => ImplementsGroupLog
  OBVIOUS
<1>1. Init => Log!Init
  BY Zenon DEF Init, Log!Init, Settled, GivenUp
<1>2. IInv /\ Within /\ [Next]_vars => [Log!Next]_(Log!logVars)
  <2> SUFFICES ASSUME IInv, Within, [Next]_vars
               PROVE  Log!Next \/ UNCHANGED <<produced, Settled, committed>>
    BY Zenon DEF Log!logVars
  <2> USE DEF brokerVars, groupVars, loopVars, historyVars, Settled, GivenUp
  <2>1. CASE UNCHANGED vars BY <2>1, Zenon DEF vars
  <2>2. ASSUME NEW p \in Partitions, Produce(p) PROVE Log!Append(p)
    BY <2>2, Zenon DEF Produce, Log!Append
  <2>3. ASSUME NEW p \in Partitions, NEW m \in Members, Assign(p, m)
        PROVE  UNCHANGED <<produced, Settled, committed>>
    BY <2>3, Zenon DEF Assign
  <2>4. ASSUME NEW m \in Members,
               \/ PollStops(m) \/ PollRecords(m) \/ EachRecord(m) \/ Backoff(m)
               \/ Crash(m) \/ Restart(m) \/ Cancel(m) \/ CloseClient(m)
        PROVE  UNCHANGED <<produced, Settled, committed>>
    BY <2>4, Zenon DEF PollStops, PollRecords, EachRecord, Backoff, Crash, Restart, Cancel,
       CloseClient
  <2>5. ASSUME NEW m \in Members,
               HandlerSucceeds(m) \/ HandlerFails(m) \/ SendToDLQ(m)
        PROVE  Log!Settle \/ UNCHANGED <<produced, Settled, committed>>
    <3>1. pc[m] \in Busy /\ UNCHANGED <<produced, committed>>
      BY <2>5, Zenon DEF HandlerSucceeds, HandlerFails, SendToDLQ, Busy
    <3>2. Settled' = Settled \cup {Current(m)} \/ Settled' = Settled
      BY <2>5, Zenon DEF HandlerSucceeds, HandlerFails, SendToDLQ, ProduceAsync
    <3>3. QED BY <3>1, <3>2, SettlesOne, Zenon
  <2>6. ASSUME NEW m \in Members, PollError(m) PROVE Log!Settle
    BY <2>6, SettlesPoll, Zenon
  <2>7. ASSUME NEW m \in Members, StartAgain(m) PROVE Log!Settle
    BY <2>7, SettlesPassedOver, Zenon
  <2>8. QED
    BY <2>1, <2>2, <2>3, <2>4, <2>5, <2>6, <2>7, Resumes, Zenon DEF Next, Consume, Log!Next
<1>3. Init => Within BY DEF Init, Within
<1>4. IInv /\ Within /\ [Next]_vars => Within' BY WithinStep, Zenon
<1>5. QED BY <1>1, <1>2, <1>3, <1>4, Invariant, PTL DEF Spec, ImplementsGroupLog, Log!Spec

-----------------------------------------------------------------------------
(* The types, for any group.                                               *)

(* Between two polls the loop is at a record of its batch.                 *)
AtRecord == \A m \in Members : pc[m] \in Busy => Remaining(batch[m][at[m]])

(* So that record has an offset of the log, and so has the one after it.   *)
LEMMA OffsetsFit ==
  ASSUME TypeOK, AtRecord, NEW m \in Members, pc[m] \in Busy
  PROVE  /\ at[m] \in Partitions /\ batch[m][at[m]] \in Slices
         /\ batch[m][at[m]].next + 1 \in Offsets /\ Current(m) \in Records
<1> DEFINE b == batch[m][at[m]]
<1>1. at[m] \in Partitions /\ b \in Slices
  BY Zenon DEF TypeOK
<1>2. b.next < b.end
  BY Zenon DEF AtRecord, Remaining
<1>3. b.next \in Offsets /\ b.next + 1 \in Offsets
  BY <1>1, <1>2, KafkaAssumption DEF Slices, Offsets
<1> QED
  BY <1>1, <1>3, Zenon DEF Records, Current

(* What remains of a batch is a batch.                                     *)
LEMMA RestFits ==
  ASSUME TypeOK, AtRecord, NEW m \in Members, pc[m] \in Busy
  PROVE  Rest(m) \in [Partitions -> Slices]
<1>1. /\ at[m] \in Partitions /\ batch[m][at[m]] \in Slices
      /\ batch[m][at[m]].next + 1 \in Offsets
  BY OffsetsFit, Zenon
<1> QED
  BY <1>1, Zenon DEF Rest, TypeOK, Slices

(* The broker and the group.                                               *)
LEMMA GroupTypes ==
  ASSUME TypeOK, AtRecord, NEW p \in Partitions,
         Produce(p) \/ \E m \in Members : Assign(p, m)
  PROVE  TypeOK' /\ AtRecord'
<1> USE KafkaAssumption DEF brokerVars, groupVars, loopVars, historyVars
<1>1. CASE Produce(p)
  <2>1. produced' \in [Partitions -> Offsets]
    BY <1>1 DEF Produce, TypeOK, Offsets
  <2> QED
    BY <1>1, <2>1, Zenon DEF Produce, TypeOK, AtRecord
<1>2. ASSUME NEW m \in Members, Assign(p, m) PROVE TypeOK' /\ AtRecord'
  <2>1. StartOffset(p) \in Offsets
    BY Zenon DEF StartOffset, TypeOK
  <2>2. owner' \in [Partitions -> Members \cup {Nobody}]
        /\ position' \in [Partitions -> Offsets]
    BY <1>2, <2>1, Zenon DEF Assign, TypeOK
  <2>3. faults' \in 0..MaxFaults
    BY <1>2 DEF Assign, Fault, TypeOK
  <2> QED
    BY <1>2, <2>2, <2>3, Zenon DEF Assign, TypeOK, AtRecord
<1> QED
  BY <1>1, <1>2, Zenon

(* A process that ends, begins or is told to end.                          *)
LEMMA ProcessTypes ==
  ASSUME TypeOK, AtRecord, NEW m \in Members,
         \/ Crash(m) \/ Restart(m) \/ Cancel(m) \/ CloseClient(m) \/ StartAgain(m)
         \/ PollStops(m)
  PROVE  TypeOK' /\ AtRecord'
<1> USE KafkaAssumption DEF brokerVars, groupVars, loopVars, historyVars
<1>1. ASSUME Leave(m)
      PROVE  owner' \in [Partitions -> Members \cup {Nobody}]
             /\ position' \in [Partitions -> Offsets]
  BY <1>1 DEF Leave, TypeOK, Offsets
<1>2. CASE Crash(m)
  <2>1. batch' \in [Members -> [Partitions -> Slices]]
        /\ attempt' \in [Members -> 0..MaxRetries]
    BY <1>2, EmptyBatch DEF Crash, Forget, TypeOK
  <2>2. faults' \in 0..MaxFaults /\ pc' \in [Members -> Places]
        /\ signal' \in [Members -> SUBSET Signals]
    BY <1>2 DEF Crash, Fault, TypeOK, Places
  <2>3. TypeOK'
    BY <1>1, <1>2, <2>1, <2>2, Zenon DEF Crash, TypeOK
  <2>4. AtRecord'
    BY <1>2, Zenon DEF Crash, Forget, TypeOK, AtRecord, Remaining, Busy
  <2> QED
    BY <2>3, <2>4, Zenon
<1>3. CASE Restart(m)
  BY <1>3, Zenon DEF Restart, TypeOK, AtRecord, Places, Busy
<1>4. ASSUME NEW t \in Signals, Send(m, t) PROVE signal' \in [Members -> SUBSET Signals]
  BY <1>4 DEF Send, TypeOK
<1>5. CASE Cancel(m)
  <2>1. signal' \in [Members -> SUBSET Signals] BY <1>4, <1>5, Zenon DEF Cancel, Signals
  <2> QED
    BY <1>5, <2>1, Zenon DEF Cancel, TypeOK, AtRecord
<1>6. CASE CloseClient(m)
  <2>1. signal' \in [Members -> SUBSET Signals] BY <1>4, <1>6, Zenon DEF CloseClient, Signals
  <2> QED
    BY <1>1, <1>6, <2>1, Zenon DEF CloseClient, TypeOK, AtRecord
<1>7. CASE StartAgain(m)
  <2>1. /\ pc' \in [Members -> Places] /\ signal' \in [Members -> SUBSET Signals]
        /\ faults' \in 0..MaxFaults
    BY <1>7 DEF StartAgain, Fault, TypeOK, Places, Signals
  <2>2. discarded' \subseteq Records BY <1>7, Zenon DEF StartAgain, PassedOver, TypeOK
  <2>3. TypeOK' BY <1>7, <2>1, <2>2, Zenon DEF StartAgain, TypeOK
  <2>4. AtRecord' BY <1>7, Zenon DEF StartAgain, TypeOK, AtRecord, Busy
  <2> QED
    BY <2>3, <2>4, Zenon
<1>8. CASE PollStops(m)
  BY <1>8, Zenon DEF PollStops, Move, TypeOK, AtRecord, Places, Busy
<1> QED
  BY <1>2, <1>3, <1>5, <1>6, <1>7, <1>8, Zenon

(* A poll.                                                                 *)
LEMMA PollTypes ==
  ASSUME TypeOK, AtRecord, NEW m \in Members, PollRecords(m) \/ PollError(m)
  PROVE  TypeOK' /\ AtRecord'
<1> USE KafkaAssumption DEF brokerVars, groupVars, loopVars, historyVars
<1>1. ASSUME NEW f \in Fetched(m)
      PROVE  f \in [Partitions -> Slices] /\ RecordsOf(f) \subseteq Records
  BY FetchedSlices, Zenon DEF TypeOK, RecordsOf
<1>2. ASSUME NEW f \in Fetched(m), Advance(f)
      PROVE  position' \in [Partitions -> Offsets]
  BY <1>1, <1>2, Zenon DEF Advance, TypeOK, Slices
<1>3. CASE PollRecords(m)
  <2>1. PICK f \in Fetched(m), p \in Partitions :
          /\ Advance(f) /\ Remaining(f[p])
          /\ batch' = [batch EXCEPT ![m] = f]
          /\ delivered' = delivered \cup RecordsOf(f)
          /\ at' = [at EXCEPT ![m] = p]
    BY <1>3, Zenon DEF PollRecords
  <2>2. /\ position' \in [Partitions -> Offsets] /\ delivered' \subseteq Records
        /\ batch' \in [Members -> [Partitions -> Slices]] /\ at' \in [Members -> Partitions]
    BY <1>1, <1>2, <2>1, Zenon DEF TypeOK
  <2>3. pc' \in [Members -> Places]
    BY <1>3, Zenon DEF PollRecords, Move, TypeOK, Places
  <2>4. TypeOK'
    BY <1>3, <2>2, <2>3, Zenon DEF PollRecords, TypeOK
  <2>5. AtRecord'
    BY <1>3, <2>1, Zenon DEF PollRecords, Move, TypeOK, AtRecord, Remaining
  <2> QED
    BY <2>4, <2>5, Zenon
<1>4. CASE PollError(m)
  <2>1. position' \in [Partitions -> Offsets] /\ discarded' \subseteq Records
    BY <1>1, <1>2, <1>4, Zenon DEF PollError, TypeOK
  <2>2. faults' \in 0..MaxFaults
    BY <1>4 DEF PollError, Fault, TypeOK
  <2> QED
    BY <1>4, <2>1, <2>2, Zenon DEF PollError, TypeOK, AtRecord
<1> QED
  BY <1>3, <1>4, Zenon

(* The callback, up to the commit.                                         *)
LEMMA CallbackTypes ==
  ASSUME TypeOK, AtRecord, NEW m \in Members,
         \/ EachRecord(m) \/ HandlerSucceeds(m) \/ HandlerFails(m) \/ Backoff(m)
         \/ SendToDLQ(m)
  PROVE  TypeOK' /\ AtRecord'
<1> USE KafkaAssumption DEF brokerVars, groupVars, loopVars, historyVars, Move
<1>1. pc[m] \in Busy
  BY Zenon DEF EachRecord, HandlerSucceeds, HandlerFails, Backoff, SendToDLQ, Busy
<1>2. Current(m) \in Records
  BY <1>1, OffsetsFit, Zenon
<1>3. ASSUME Forget(m)
      PROVE  batch' \in [Members -> [Partitions -> Slices]]
             /\ attempt' \in [Members -> 0..MaxRetries]
  BY <1>3, EmptyBatch DEF Forget, TypeOK
<1>4. CASE EachRecord(m) \/ Backoff(m)
  <2>1. /\ pc' \in [Members -> Places]
        /\ batch' \in [Members -> [Partitions -> Slices]]
        /\ attempt' \in [Members -> 0..MaxRetries]
    BY <1>3, <1>4, Zenon DEF EachRecord, Backoff, AfterCancel, TypeOK, Places
  <2>2. TypeOK'
    BY <1>4, <2>1, Zenon DEF EachRecord, Backoff, TypeOK
  <2>3. AtRecord'
    BY <1>1, <1>4, Zenon DEF EachRecord, Backoff, AfterCancel, Forget, TypeOK, AtRecord, Remaining,
       Busy
  <2> QED
    BY <2>2, <2>3, Zenon
<1>5. CASE HandlerSucceeds(m) \/ HandlerFails(m)
  <2>1. attempt' \in [Members -> 0..MaxRetries]
    <3>1. attempt \in [Members -> 0..MaxRetries] BY Zenon DEF TypeOK
    <3>2. \/ attempt' = [attempt EXCEPT ![m] = 0]
          \/ attempt[m] < MaxRetries /\ attempt' = [attempt EXCEPT ![m] = @ + 1]
      BY <1>5, Zenon DEF HandlerSucceeds, HandlerFails, MoreAttempts
    <3> QED
      BY <3>1, <3>2
  <2>2. /\ pc' \in [Members -> Places] /\ succeeded' \subseteq Records
        /\ exhausted' \subseteq Records
    BY <1>2, <1>5, Zenon DEF HandlerSucceeds, HandlerFails, TypeOK, Places
  <2>3. TypeOK'
    BY <1>5, <2>1, <2>2, Zenon DEF HandlerSucceeds, HandlerFails, TypeOK
  <2>4. AtRecord'
    BY <1>1, <1>5, Zenon DEF HandlerSucceeds, HandlerFails, TypeOK, AtRecord, Remaining
  <2> QED
    BY <2>3, <2>4, Zenon
<1>6. CASE SendToDLQ(m)
  BY <1>1, <1>2, <1>6, Zenon DEF SendToDLQ, ProduceAsync, TypeOK, AtRecord, Remaining, Places
<1> QED
  BY <1>4, <1>5, <1>6, Zenon

(* The commit, and the way on.                                             *)
LEMMA CommitTypes ==
  ASSUME TypeOK, AtRecord, NEW m \in Members, CommitRecords(m)
  PROVE  TypeOK' /\ AtRecord'
<1> USE KafkaAssumption DEF brokerVars, groupVars, loopVars, historyVars, Move
<1>1. pc[m] \in Busy
  BY Zenon DEF CommitRecords, Busy
<1>2. at[m] \in Partitions /\ CommitOffset(m) \in Offsets
  BY <1>1, OffsetsFit, Zenon DEF CommitOffset
<1>3. committed' \in [Partitions -> Offsets \cup {NoOffset}]
  BY <1>2, Zenon DEF CommitRecords, TypeOK
<1>4. CASE /\ \E p \in Partitions :
                 Remaining(Rest(m)[p]) /\ at' = [at EXCEPT ![m] = p]
           /\ pc' = [pc EXCEPT ![m] = "each"]
           /\ batch' = [batch EXCEPT ![m] = Rest(m)] /\ UNCHANGED attempt
  <2>1. PICK p \in Partitions : Remaining(Rest(m)[p]) /\ at' = [at EXCEPT ![m] = p]
    BY <1>4, Zenon
  <2>2. /\ batch' \in [Members -> [Partitions -> Slices]]
        /\ at' \in [Members -> Partitions] /\ pc' \in [Members -> Places]
    BY <1>1, <1>4, <2>1, RestFits, Zenon DEF TypeOK, Places
  <2>3. TypeOK'
    BY <1>3, <1>4, <2>2, Zenon DEF CommitRecords, TypeOK
  <2>4. AtRecord'
    BY <1>4, <2>1, Zenon DEF TypeOK, AtRecord, Remaining
  <2> QED
    BY <2>3, <2>4, Zenon
<1>5. CASE pc' = [pc EXCEPT ![m] = "poll"] /\ Forget(m) /\ UNCHANGED at
  <2>1. /\ batch' \in [Members -> [Partitions -> Slices]]
        /\ attempt' \in [Members -> 0..MaxRetries] /\ pc' \in [Members -> Places]
    BY <1>5, EmptyBatch DEF Forget, TypeOK, Places
  <2>2. TypeOK'
    BY <1>3, <1>5, <2>1, Zenon DEF CommitRecords, TypeOK
  <2>3. AtRecord'
    BY <1>5, Zenon DEF Forget, TypeOK, AtRecord, Remaining, Busy
  <2> QED
    BY <2>2, <2>3, Zenon
<1> QED
  BY <1>4, <1>5, Zenon DEF CommitRecords, NextRecord

(* Every variable keeps its type, in a group that has committed before and *)
(* in one that has not: no offset that is fetched, handled or committed    *)
(* goes beyond what a log can hold, and no handler is called more than     *)
(* MaxRetries times after its first failure.                               *)
THEOREM TypeCorrect == Spec => []TypeOK
<1>1. Init => TypeOK /\ AtRecord
  <2> SUFFICES ASSUME Init PROVE TypeOK /\ AtRecord
    OBVIOUS
  <2>1. batch \in [Members -> [Partitions -> Slices]]
    BY EmptyBatch, Zenon DEF Init
  <2>2. TypeOK
    BY <2>1, KafkaAssumption DEF Init, TypeOK, Offsets, Places
  <2>3. AtRecord
    BY Zenon DEF Init, AtRecord, Busy
  <2> QED
    BY <2>2, <2>3, Zenon
<1>2. TypeOK /\ AtRecord /\ [Next]_vars => TypeOK' /\ AtRecord'
  <2>1. TypeOK /\ AtRecord /\ UNCHANGED vars => TypeOK' /\ AtRecord'
    BY Zenon DEF vars, brokerVars, groupVars, loopVars, historyVars, TypeOK, AtRecord
  <2> QED
    BY <2>1, GroupTypes, ProcessTypes, PollTypes, CallbackTypes, CommitTypes, Zenon
       DEF Next, Consume
<1> QED
  BY <1>1, <1>2, PTL DEF Spec
=============================================================================
