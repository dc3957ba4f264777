--------------------------- MODULE KafkaConsumer ----------------------------
(***************************************************************************)
(* kafka/consumer.go: consumers of one group, each in the loop of          *)
(* consumer.Start.  The broker and the kgo client library are modelled by  *)
(* what the loop sees of them: partition logs, the group's committed       *)
(* offsets, and who is assigned a partition and from which offset.  The    *)
(* dead letter producer takes a record into its buffer; what becomes of it *)
(* there nobody but the log is told.                                       *)
(***************************************************************************)
EXTENDS Integers, FiniteSets

CONSTANTS
  Members,       \* processes that run Start
  Partitions,
  MaxRetries,    \* ConsumerOptions.MaxRetries
  WithDLQ,       \* ConsumerOptions.DLQProducer is set
  FreshGroup,    \* the group has not committed an offset yet
  MaxRecords,    \* bound: records of a partition
  MaxSignals,    \* bound: contexts that are cancelled and clients that are
                 \* closed at a time
  MaxFaults      \* bound: crashes, fetch errors, partitions taken from a live
                 \* member, and calls of Start after one that was cancelled

Nobody == "nobody"

ASSUME KafkaAssumption ==
  /\ MaxRetries \in Nat /\ MaxRecords \in Nat /\ MaxFaults \in Nat
  /\ MaxSignals \in Nat
  /\ WithDLQ \in BOOLEAN /\ FreshGroup \in BOOLEAN
  /\ Nobody \notin Members

VARIABLES
  produced,   \* broker: number of records in each partition
  committed,  \* broker: the group's offset of each partition, or NoOffset
  owner,      \* group: the member each partition is assigned to, or Nobody
  position,   \* kgo: offset the owner fetches next
  pc,         \* where each member is
  signal,     \* whether its context is cancelled and its client closed
  batch,      \* the records of its poll still to be seen, per partition
  at,         \* the partition EachRecord is in
  attempt,    \* handler calls for the record that have failed
  succeeded,  \* history: records the handler returned nil for
  exhausted,  \* history: records that used up their retries
  delivered,  \* history: records of polls that reported none
  discarded,  \* history: records that were fetched and passed over
  handedOver, \* records the dead letter producer was called with
  faults

brokerVars == <<produced, committed>>
groupVars == <<owner, position>>
loopVars == <<pc, batch, at, attempt>>
historyVars == <<succeeded, exhausted, delivered, discarded>>
vars == <<brokerVars, groupVars, loopVars, signal, historyVars, handedOver, faults>>

NoOffset == -1
Offsets == 0..MaxRecords
Records == Partitions \X Offsets
Signals == {"cancelled", "closed"}
Places == {"poll", "each", "handler", "backoff", "dlq", "commit", "stopped", "crashed"}

(* A slice of a partition's log: the offsets from next up to end.          *)
Slices == [next : Offsets, end : Offsets]
Empty == [next |-> 0, end |-> 0]
Remaining(s) == s.next < s.end

TypeOK ==
  /\ produced \in [Partitions -> Offsets]
  /\ committed \in [Partitions -> Offsets \cup {NoOffset}]
  /\ owner \in [Partitions -> Members \cup {Nobody}]
  /\ position \in [Partitions -> Offsets]
  /\ pc \in [Members -> Places]
  /\ signal \in [Members -> SUBSET Signals]
  /\ batch \in [Members -> [Partitions -> Slices]]
  /\ at \in [Members -> Partitions]
  /\ attempt \in [Members -> 0..MaxRetries]
  /\ succeeded \subseteq Records /\ exhausted \subseteq Records
  /\ delivered \subseteq Records /\ discarded \subseteq Records
  /\ handedOver \subseteq Records
  /\ faults \in 0..MaxFaults

Init ==
  /\ produced = [p \in Partitions |-> 0]
  /\ committed = [p \in Partitions |-> IF FreshGroup THEN NoOffset ELSE 0]
  /\ owner = [p \in Partitions |-> Nobody]
  /\ position = [p \in Partitions |-> 0]
  /\ pc = [m \in Members |-> "poll"]
  /\ signal = [m \in Members |-> {}]
  /\ batch = [m \in Members |-> [p \in Partitions |-> Empty]]
  /\ at \in [Members -> Partitions]
  /\ attempt = [m \in Members |-> 0]
  /\ succeeded = {} /\ exhausted = {} /\ delivered = {} /\ discarded = {}
  /\ handedOver = {}
  /\ faults = 0

Fault == faults < MaxFaults /\ faults' = faults + 1

(* The handler has returned nil for the record, or has failed for the last *)
(* time.                                                                   *)
Handled == succeeded \cup exhausted

(* What the code owes a record whose retries are used up: with a dead      *)
(* letter producer the record was handed over to it.                       *)
GivenUp == IF WithDLQ THEN handedOver ELSE exhausted

(* The group is done with the record.                                      *)
Settled == succeeded \cup GivenUp \cup discarded

-----------------------------------------------------------------------------
(* The broker, the group and the process of a member.                      *)

Produce(p) ==
  /\ produced[p] < MaxRecords
  /\ produced' = [produced EXCEPT ![p] = @ + 1]
  /\ UNCHANGED <<committed, groupVars, loopVars, signal, historyVars, handedOver, faults>>

(* Where a new owner begins: the committed offset, or the end of the log   *)
(* (ConsumeResetOffset) if there is none.  The broken form resets always.  *)
StartAtEnd(p) == produced[p]
StartOffset(p) == IF committed[p] = NoOffset THEN produced[p] ELSE committed[p]

(* The client takes part in the group as long as it is open, whether Start *)
(* is running or has returned.                                             *)
InGroup(m) == pc[m] # "crashed" /\ "closed" \notin signal[m]

(* Partition p goes to member m.  Whoever had it goes on with what it has  *)
(* fetched.                                                                *)
Assign(p, m) ==
  /\ InGroup(m) /\ owner[p] # m
  /\ owner' = [owner EXCEPT ![p] = m]
  /\ position' = [position EXCEPT ![p] = StartOffset(p)]
  /\ IF owner[p] = Nobody
       THEN UNCHANGED faults
       ELSE Fault
  /\ UNCHANGED <<brokerVars, loopVars, signal, historyVars, handedOver>>

(* Member m leaves the group; its partitions have to be assigned again,    *)
(* and the position it had in them is forgotten.                           *)
Leave(m) ==
  /\ owner' = [p \in Partitions |-> IF owner[p] = m THEN Nobody ELSE owner[p]]
  /\ position' = [p \in Partitions |-> IF owner[p] = m THEN 0 ELSE position[p]]

(* The records of the poll and the count of attempts are local to the      *)
(* loop's body.                                                            *)
Forget(m) ==
  /\ batch' = [batch EXCEPT ![m] = [p \in Partitions |-> Empty]]
  /\ attempt' = [attempt EXCEPT ![m] = 0]

Crash(m) ==
  /\ pc[m] # "crashed"
  /\ Fault
  /\ pc' = [pc EXCEPT ![m] = "crashed"]
  /\ signal' = [signal EXCEPT ![m] = {}]
  /\ Forget(m)
  /\ Leave(m)
  /\ UNCHANGED <<brokerVars, at, historyVars, handedOver>>

Restart(m) ==
  /\ pc[m] = "crashed"
  /\ pc' = [pc EXCEPT ![m] = "poll"]
  /\ UNCHANGED <<brokerVars, groupVars, batch, at, attempt, signal, historyVars, handedOver,
                 faults>>

Send(m, s) ==
  /\ Cardinality({x \in Members \X Signals : x[2] \in signal[x[1]]}) < MaxSignals
  /\ s \notin signal[m]
  /\ signal' = [signal EXCEPT ![m] = @ \cup {s}]

(* The application cancels the context of Start.                           *)
Cancel(m) ==
  /\ pc[m] \notin {"stopped", "crashed"}
  /\ Send(m, "cancelled")
  /\ UNCHANGED <<brokerVars, groupVars, loopVars, historyVars, handedOver, faults>>

(* It closes the client, during Start or after it: only this leaves the    *)
(* group.                                                                  *)
CloseClient(m) ==
  /\ InGroup(m)
  /\ Send(m, "closed")
  /\ Leave(m)
  /\ UNCHANGED <<brokerVars, loopVars, historyVars, handedOver, faults>>

(* Start is called again on a client that is still open.  The client goes  *)
(* on behind what it has fetched, so that what the cancelled Start had not *)
(* dealt with is passed over.                                              *)
PassedOver(m) ==
  {r \in Records : owner[r[1]] = m /\ r[2] < position[r[1]]} \ Settled

StartAgain(m) ==
  /\ pc[m] = "stopped" /\ InGroup(m)
  /\ Fault
  /\ pc' = [pc EXCEPT ![m] = "poll"]
  /\ signal' = [signal EXCEPT ![m] = {}]
  /\ discarded' = discarded \cup PassedOver(m)
  /\ UNCHANGED <<brokerVars, groupVars, batch, at, attempt, succeeded, exhausted, delivered,
                 handedOver>>

-----------------------------------------------------------------------------
(* The loop of consumer.Start, run by member m.                            *)

Move(m, to) == pc' = [pc EXCEPT ![m] = to]

(* The record the loop is at.                                              *)
Current(m) == <<at[m], batch[m][at[m]].next>>

(* What one poll can return: some of what the owned partitions hold.       *)
Fetched(m) ==
  {f \in [Partitions -> UNION {[next : {position[p]}, end : position[p]..produced[p]] :
                                 p \in Partitions}] :
     \A p \in Partitions :
       /\ f[p].next = position[p] /\ f[p].end <= produced[p]
       /\ owner[p] # m => f[p].end = position[p]}

RecordsOf(f) == {r \in Records : f[r[1]].next <= r[2] /\ r[2] < f[r[1]].end}

(* kgo has handed the records over, whatever becomes of them.              *)
Advance(f) ==
  position' = [p \in Partitions |-> IF Remaining(f[p]) THEN f[p].end ELSE position[p]]

(* ctx.Err() # nil, or fetches.IsClientClosed(): Start returns, and does   *)
(* nothing about the client, which stays in the group if it is open.       *)
PollStops(m) ==
  /\ pc[m] = "poll" /\ signal[m] # {}
  /\ Move(m, "stopped")
  /\ UNCHANGED <<brokerVars, groupVars, batch, at, attempt, signal, historyVars, handedOver,
                 faults>>

PollRecords(m) ==
  /\ pc[m] = "poll" /\ signal[m] = {}
  /\ \E f \in Fetched(m) :
       /\ Advance(f)
       /\ batch' = [batch EXCEPT ![m] = f]
       /\ delivered' = delivered \cup RecordsOf(f)
       /\ \E p \in Partitions : Remaining(f[p]) /\ at' = [at EXCEPT ![m] = p]
  /\ Move(m, "each")
  /\ UNCHANGED <<brokerVars, owner, attempt, signal, succeeded, exhausted, discarded,
                 handedOver, faults>>

(* The poll reports an error, of another partition say: the loop goes on   *)
(* with the next poll, without a look at the records of this one.          *)
PollError(m) ==
  /\ pc[m] = "poll" /\ signal[m] = {}
  /\ Fault
  /\ \E f \in Fetched(m) : Advance(f) /\ discarded' = discarded \cup RecordsOf(f)
  /\ UNCHANGED <<brokerVars, owner, loopVars, signal, succeeded, exhausted, delivered,
                 handedOver>>

(* The callback of EachRecord begins.  Once the context is cancelled it    *)
(* returns at once, for this record and all that follow.                   *)
EachRecord(m) ==
  /\ pc[m] = "each"
  /\ \/ "cancelled" \in signal[m] /\ Move(m, "poll") /\ Forget(m)
     \/ "cancelled" \notin signal[m] /\ Move(m, "handler") /\ UNCHANGED <<batch, attempt>>
  /\ UNCHANGED <<brokerVars, groupVars, at, signal, historyVars, handedOver, faults>>

(* The loop condition attempt <= MaxRetries, for the attempt that follows. *)
(* The broken form makes one attempt more.                                 *)
MoreAttemptsOffByOne(m) == attempt[m] <= MaxRetries
MoreAttempts(m) == attempt[m] < MaxRetries

HandlerSucceeds(m) ==
  /\ pc[m] = "handler"
  /\ succeeded' = succeeded \cup {Current(m)}
  /\ Move(m, "commit") /\ attempt' = [attempt EXCEPT ![m] = 0]
  /\ UNCHANGED <<brokerVars, groupVars, batch, at, signal, exhausted, delivered,
                 discarded, handedOver, faults>>

HandlerFails(m) ==
  /\ pc[m] = "handler"
  /\ \/ /\ MoreAttempts(m)
        /\ attempt' = [attempt EXCEPT ![m] = @ + 1]
        /\ Move(m, "backoff")
        /\ UNCHANGED exhausted
     \/ /\ ~MoreAttempts(m)
        /\ exhausted' = exhausted \cup {Current(m)}
        /\ Move(m, IF WithDLQ THEN "dlq" ELSE "commit")
        /\ attempt' = [attempt EXCEPT ![m] = 0]
  /\ UNCHANGED <<brokerVars, groupVars, batch, at, signal, succeeded, delivered,
                 discarded, handedOver, faults>>

(* A callback that returns during a backoff leaves its record uncommitted, *)
(* and those that follow return at once.  The broken form only leaves the  *)
(* retry loop.                                                             *)
AfterCancelCommits(m) == Move(m, "commit") /\ UNCHANGED <<batch, attempt>>
AfterCancel(m) == Move(m, "poll") /\ Forget(m)

Backoff(m) ==
  /\ pc[m] = "backoff"
  /\ \/ Move(m, "handler") /\ UNCHANGED <<batch, attempt>>
     \/ "cancelled" \in signal[m] /\ AfterCancel(m)
  /\ UNCHANGED <<brokerVars, groupVars, at, signal, historyVars, handedOver, faults>>

(* Produce puts the record into its buffer and returns nil; whether the    *)
(* broker takes it is told to a callback that logs it.  Another Producer   *)
(* may return an error, which is logged as well: the record is committed   *)
(* in any case.                                                            *)
ProduceAsync(r) == handedOver' = handedOver \cup {r}

SendToDLQ(m) ==
  /\ pc[m] = "dlq"
  /\ ProduceAsync(Current(m))
  /\ Move(m, "commit")
  /\ UNCHANGED <<brokerVars, groupVars, batch, at, attempt, signal, historyVars, faults>>

(* What remains of the batch after the current record.                     *)
Rest(m) == [batch[m] EXCEPT ![at[m]] = [next |-> @.next + 1, end |-> @.end]]

(* The next record: of the same partition, or of another once it is done.  *)
NextRecord(m) ==
  \/ /\ \E p \in Partitions :
          /\ Remaining(Rest(m)[p])
          /\ Remaining(Rest(m)[at[m]]) => p = at[m]
          /\ at' = [at EXCEPT ![m] = p]
     /\ Move(m, "each")
     /\ batch' = [batch EXCEPT ![m] = Rest(m)] /\ UNCHANGED attempt
  \/ /\ \A p \in Partitions : ~Remaining(Rest(m)[p])
     /\ Move(m, "poll") /\ Forget(m) /\ UNCHANGED at

(* The offset after the record.  The broken form is the one after the      *)
(* records of the poll.                                                    *)
CommitWholePoll(m) == batch[m][at[m]].end
CommitOffset(m) == batch[m][at[m]].next + 1

(* CommitRecords: it fails, or replaces the committed offset even if that  *)
(* is greater or the partition is no longer the member's.  An error is     *)
(* logged and the loop goes on.                                            *)
CommitRecords(m) ==
  /\ pc[m] = "commit"
  /\ \/ /\ "closed" \notin signal[m]
        /\ committed' = [committed EXCEPT ![at[m]] = CommitOffset(m)]
     \/ UNCHANGED committed
  /\ NextRecord(m)
  /\ UNCHANGED <<produced, groupVars, signal, historyVars, handedOver, faults>>

-----------------------------------------------------------------------------
Consume(m) ==
  \/ PollStops(m) \/ PollRecords(m) \/ EachRecord(m) \/ HandlerSucceeds(m)
  \/ HandlerFails(m) \/ Backoff(m) \/ SendToDLQ(m) \/ CommitRecords(m)

Next ==
  \/ \E p \in Partitions : Produce(p) \/ \E m \in Members : Assign(p, m)
  \/ \E m \in Members :
       \/ Consume(m) \/ PollError(m) \/ Crash(m) \/ Restart(m)
       \/ Cancel(m) \/ CloseClient(m) \/ StartAgain(m)

Spec == Init /\ [][Next]_vars

(* The loop runs, a partition without an owner is assigned, and a crashed  *)
(* process is started again.                                               *)
FairSpec ==
  /\ Spec
  /\ \A m \in Members : WF_vars(Consume(m) \/ Restart(m))
  /\ \A p \in Partitions : WF_vars(owner[p] = Nobody /\ \E m \in Members : Assign(p, m))

-----------------------------------------------------------------------------
(* Properties.                                                             *)

(* A record below a committed offset has succeeded or was given up, and    *)
(* with a dead letter producer not before that had it.  This holds through *)
(* crashes, shutdowns in the middle of a batch or of a backoff, commits    *)
(* that fail and commits of a member that has lost the partition.  The     *)
(* only other records that are skipped are those of a poll with an error,  *)
(* and those a cancelled Start leaves behind when the same client starts   *)
(* again.                                                                  *)
CommittedIsSettled ==
  \A p \in Partitions : \A o \in 0..(committed[p] - 1) : <<p, o>> \in Settled

(* The records of a partition are handled in order: none for the first     *)
(* time before those in front of it, whichever members they went to.       *)
HandledInOrder ==
  \A r \in Handled : \A o \in 0..(r[2] - 1) : <<r[1], o>> \in Handled \cup discarded

(* The members together implement GroupLog: whichever of them takes the    *)
(* step, the group settles a partition from the front and commits no       *)
(* offset behind a record that is not settled.                             *)
Log == INSTANCE GroupLog WITH length <- produced, settled <- Settled, resume <- committed
ImplementsGroupLog == Log!Spec

(* Every record is handled in the end: again and again all that a          *)
(* partition holds was handled or passed over.  Nothing is assumed of the  *)
(* application, so there is one exception: from some time on nobody polls  *)
(* the partition, because the Start of its owner has returned and the      *)
(* client is left open, or because no client is open any more.             *)
Unattended(p) ==
  IF owner[p] = Nobody THEN \A m \in Members : ~InGroup(m) ELSE pc[owner[p]] = "stopped"
EveryRecordIsHandled ==
  \A p \in Partitions :
    \/ []<>(\A o \in 0..(produced[p] - 1) : <<p, o>> \in Handled \cup discarded)
    \/ <>[]Unattended(p)

-----------------------------------------------------------------------------
(* What a comment says and the code does not guarantee.                    *)

(* "in-flight messages won't be committed and will be redelivered on       *)
(* restart" (consumer.go:15): no record that a poll delivered is passed    *)
(* over by the group before the handler is done with it.  It is, when the  *)
(* group has no committed offset yet: the next owner begins at the end of  *)
(* the log.  (It is also when Start is called again on the same client,    *)
(* which this run leaves out.)                                             *)
InFlightIsRedelivered ==
  \A p \in Partitions : \A o \in 0..(committed[p] - 1) :
    <<p, o>> \in delivered => <<p, o>> \in Handled
=============================================================================
