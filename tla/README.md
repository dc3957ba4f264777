# Ghost: a TLA+ verification project

Ghost is a collection of Go modules that wrap infrastructure: RabbitMQ, Kafka,
a Redis cache, OAuth2/OIDC login, PostgreSQL, translation, hashing and logging.
Most of its risk lies where goroutines, several processes and an unreliable
broker meet. These modules model those parts; TLC checks them on small
instances, and TLAPS proves the central invariants for all instances.

## 1. Inventory

| Part | State | Operations | What makes it hard |
|---|---|---|---|
| rabbitmq/client.go | `state`, two connections, `closeChan` | `NewClient`, `connect`, `handleConnectionClose`, `triggerReconnect`, `reconnectWithBackoff`, `Close` | two handlers per connection pair, stale handlers, loss before registration, Close against connect |
| rabbitmq/pool.go | buffered Go channel of AMQP channels, `closed` | `fill`, `get`, `returnCh`, `drain`, `close` | blocking send, send on a closed channel, channels that die while borrowed |
| rabbitmq/producer.go | none of its own | `PublishMessage` (retries `GetPublisherChannel`) | holds a channel across reconnections |
| rabbitmq/topology.go | cache of exchanges, queues, bindings | `DeclareExchange/Queue`, `BindQueue`, `restoreTopology`, `SetupDeadLetterExchange`, `SetupQueueWithDLX` | reset, redeclare, append with failures and overlaps |
| rabbitmq/consumer.go | delivery in hand, batch, timer | consume loop, reconnect wait, `processDelivery`, batch flush | settling after the channel is gone, x-death, dead lettering |
| cache/cache_aside.go | Redis key and lock | `GetOrSet` | lock expiry, double check, spin deadline, crash of the holder |
| oauth2/state.go, manager.go, handler.go, oidc_google.go | states with expiry, providers | `GetAuthURL`, `HandleCallback`, `removeExpired`, `Cleanup` | concurrent callbacks, expiry against cleanup, deferred deletion |
| kafka/consumer.go, producer.go, client.go | batch of a poll, attempts; group offsets at the broker | `Start`, `SendToDLQ`, `Produce` | rebalances, crashes, shutdown in a backoff, reset offset |
| db/postgres.go | connection pool, derived contexts, transactions | `ExecContext`, `PrepareContext`, `QueryContext`, `QueryRowContext`, `WithTransaction`, `Close`, error classification | contexts that end at any point, rollback on error and panic, a lost COMMIT answer, cancel before rows are read, `fn` waiting for the connection it holds |
| i18n/translator.go | map of localizers under one lock | `getLocalizer` | nothing beyond the lock |
| kafka/health.go, */config.go, cryptoutil, logger | none | pure functions or I/O | nothing for a model checker |

Interactions: the consumers, the producer and the topology functions live on
the connections of `Client`; a reconnection empties and refills the pool,
restores the topology, and closes the channels under the consumers. The Kafka
consumer hands failed records to the Kafka producer. `GetOrSet` uses the Redis
client for key and lock. The OAuth manager uses the state storage. The postgres
client shares its connections with the functions given to `WithTransaction`.

`PROJECT.json` lists every component with its status, every hazard with the
line where it bites, and the source lines behind every definition.

## 2. Modules

### ChannelPool and RabbitClient

`ChannelPool` has the state of the pool (`channels`, `poolClosed`,
`chanClosed`, `panicked`) and of the AMQP library (`conn`, `chans`), and the
steps of the pool's operations. `RabbitClient` extends it with the client:
*loops* are executions of `connect` (0 is the one in `NewClient`, the others
are `reconnectWithBackoff` goroutines), *handlers* are `handleConnectionClose`
goroutines, *publishers* run `PublishMessage`. A step is the code between two
accesses to shared state, so `returnCh` is two steps (`ReturnChecks`,
`ReturnSelects`) and `connect` is nine places from `backoff` to `connected`.
`drain` closes one channel per step. A send on a closed Go channel sets
`panicked`, which ends the behaviour. Connections, loops and handlers nobody
refers to are reused, which keeps the space finite without a bound on time.

### Topology

`topology.go` with what it needs of the client: state, the current pair of
connections, the lost ones, and those of them whose handler has still to react.
Connections are lost one by one, also those of earlier pairs, which `connect`
leaves open; a pair that is lost at once is two such steps. A caller runs
one of the two setup functions, a restore runs a snapshot of the cache; both
are lists of declarations taken one by one through `Check` and `Open` (the two
halves of `CreateConsumerChannel`), `Declare` and `Cache`, and both end at the
first error. Losing the last connection may take everything at the broker away.
Restores overlap: one runs after each reconnection, in its own goroutine.

### Delivery

`consumer.go` on a queue made by `SetupQueueWithDLX`. A message is in a queue,
unacknowledged at a consumer, or done. `stream` is a consumer's channel: open,
cancelled by the broker (no deliveries, settling still works) or closed
(settling is an error that is only logged). A start fails without a connection,
and with one when the broker refuses the QoS or the consumer. Handler and settlement are
separate steps, and a batch settles one delivery at a time, so a channel can
close anywhere in between. After a cancel by the broker what was delivered
before is still handed out; the batch consumer takes it, `Consumer` may leave
first because it listens for the cancel too (`Ended`). `Singles` are the calls of
`StartConsumer`, `Reconnecting` those of them with AutoReconnect. `xdeath` has one entry per queue and reason, as the
broker keeps it; `getRetryCount` is its size. Rejected messages follow
`DLXBindings`. Deliveries buffered in the library are dropped when the channel
closes.

### WorkQueue

What the queue and its consumers promise together: a message is ready, set aside
by a rejection, assigned to one consumer, or finished for good. Only the consumer
it is assigned to settles it, and it is finished only after it was handled. A
consumer that has lost its channel may still handle what it has in hand, but all
it can do with it is to put it down. `ImplementsWorkQueue` maps `place` to the place
of each message (`loc`), `hand` to the deliveries in hand and `worked` to the messages
that were handled.

### CacheAside

`GetOrSet` for one key by several callers on one or many machines. Every Redis
command is one step. What `fn` computes is a version of changing source data
together with its form (plain, empty), so that the sentinel for empty values
is a real conversion (`ToStore`, `FromStore`). Time is abstracted: TTLs and
deadlines may end at any moment, and the history variables `lapsed` (a lock's
TTL ended under its holder) and `slow` (a spin-wait ended before the holder it
waited for) say whether one ended that was meant not to. Every Redis command
takes effect at most once and within its call.

### OAuthLogin

Logins (calls of `GetAuthURL`) and callback requests, each of which brings any
state and any code together, also unknown ones. The provider gives a code for
one login and puts that login's nonce into the token. `EnforcesPKCE` says
whether the provider looks at the verifier; the run has it FALSE. `now` counts
up to `MaxTime`.

### KafkaConsumer

Members of a group in the loop of `Start`, partition logs, committed offsets
and assignment. A poll returns any part of what the owned partitions hold. A
commit replaces the group's offset, whoever sends it and whatever it was.
Crashes lose the local state, and rebalances may take a partition from a
member in the middle of a batch. The application may cancel the context of `Start`
and may close the client, independently of each other. A cancelled `Start` returns
and its client stays in the group with its partitions; only closing the client (or
a crash) gives them to somebody else. `Start` may be called again on a client that
is still open (`StartAgain`): it goes on at the fetch position, so what the
cancelled one had fetched and not dealt with is passed over (`discarded`). The dead letter producer accepts a record
into its buffer (`handedOver`); what happens there is only logged by the code.

### GroupLog

What the consumers of a group promise together: the records of a partition are
settled from the front without a gap, and the offset the group would resume
from never lies behind a record that is not settled. It may fall back, as a
late commit of a former owner can replace a newer one. `ImplementsGroupLog` maps
`length` to the partition logs, `settled` to the records that were handled, given
up or discarded, and `resume` to the committed offsets.

### Postgres

One use of the client by the application is a *call*: a statement
(`ExecContext`, `PrepareContext`, `QueryContext`, `QueryRowContext`) or a
`WithTransaction`. A call waits for a connection (`conn`, `begin`), waits for the
server (`run`, `sent`, `txrun`), reads rows (`rows`), is in `fn` (`fn`), or is about to
commit or roll back (`finish`). `fn` may run statements on its transaction, or on
the client with the same context (`FnUsesClient`), and returns nil, an error or a
panic. Time is the order in which deadlines pass: a caller's deadline is `tight`
(not later than the query timeout, so `withQueryTimeout` adds nothing) or
`loose`, and a loose one does not pass before the derived one. The goroutines
database/sql keeps for done contexts are `Claim`, `RollbackClaimed` (of `sql.Tx`)
and `CutRows` (of `sql.Rows`); pool, driver and server are external. A done context
makes the driver send a cancel request and no more: the call goes on waiting until
the server gives in. A rollback on a connection whose context is done may fail with
the error of the context. An error is
what `errors.Is` and `errors.As` find in it together with what its text says,
because `WithTransaction` formats the error of `fn` with `%v` when the rollback
fails too (`Both`), and the two classification functions fall back on the text.

### AtomicTx

What `WithTransaction` promises its callers: what a call does to the database is
decided once, as a whole; it is committed only after `fn` has returned nil and
before the call returns, and then the call returns nil; a call that has returned
an error may still be aborted later, never committed. The one exception is a
COMMIT whose answer was lost (`LoseAnswer`). `ImplementsAtomicTx` maps `verdict` to
what `fn` returned, `outcome` to the transaction at the server (undecided as long
as it is neither committed nor aborted), `answer` to the result of the call and
`lost` to the history variable `unsure`. It says more than `OutcomeIsTrue`: an
outcome is never revised, and nothing happens in another order.

## 3. Runs

| Run | Checks | Instance |
|---|---|---|
| client_safety | `TypeOK`, `SingleConnector`, `LossIsNoticed`, `NoChannelLeak`, `ChannelsBounded`, `ClosedPoolStaysEmpty`, `FillWaitsForOthers` | 1 publisher, pool of 1, 2 reconnect loops at once, 1 loss, 1 error, Close; 998,000 states |
| client_live | `ReconnectsOrFillBlocks` | no Close, 3 loops; 383,000 states |
| client_fill_deadlock | `AutoReconnects` is **violated** | see below |
| topology | `TypeOK`, `Conserved`, `FirstRestoreSucceeds`, `CachedIsRestored` | 1 caller, 1 setup call, 2 lost connections, 1 refusal; 184,000 states |
| delivery | `TypeOK`, `AckedWasHandled`, `HeldIsUnacked`, `HandledOnce`, `ImplementsWorkQueue`, `EveryMessageIsHandled` | a reconnecting and a batch consumer, 2 good messages and 1 poison, prefetch 2, batches of 2, 2 faults; 410,000 states |
| delivery_parking_lot | `FailingIsParked` is **violated** | see below |
| cache | `TypeOK`, `OneLeader`, `ReturnsAreTrue`, `FnOnce`, `NeverStoresOlder`, `EveryCallReturns` | 2 callers, 3 calls, 2 writes, 1 expiry, 1 fault; 511,000 states |
| oauth | `TypeOK`, `SessionsMatch`, `RetrievedInTime`, `UsedIsGone`, `ExpiredAreRemoved` | 2 logins, 2 requests, time 0..3, timeout 2; 1,061,000 states |
| kafka | `TypeOK`, `CommittedIsSettled`, `HandledInOrder`, `ImplementsGroupLog`, `EveryRecordIsHandled` | 2 members, 1 partition, 2 records, 1 retry, 2 signals at a time, 2 faults; 830,000 states |
| kafka_fresh_group | `InFlightIsRedelivered` is **violated** | see below |
| postgres | `TypeOK`, `OutcomeIsTrue`, `NothingLeftOpen`, `KindSurvives`, `ImplementsAtomicTx`, `BoundedCallsEnd` | a statement and a transaction, one connection, query timeout, 1 broken connection; 125,000 states |
| postgres_rows | `RowsUntilDeadline` is **violated** | see below |

What the violated runs show:

* **client_fill_deadlock.** `connect` drains the pool and fills it with blocking
  sends, but leaves the connection it replaces open. A publisher that returns a
  channel of it after the drain takes a place; `fill` then blocks, the state
  stays Connecting, and nobody can take a channel out. `ReconnectsOrFillBlocks`
  (client_live) says this is the only way in which a reconnection hangs, and
  `FillWaitsForOthers` (client_safety) that `fill` never blocks on a pool that holds
  only its own channels: the old ones are the whole cause.
* **delivery_parking_lot.** A requeued message gets no x-death entry, so
  `MaxRetries` never takes effect; and rejected messages are routed to the retry
  queue, because the main queue's dead letter routing key is its own name.
* **kafka_fresh_group.** The reset offset is the end of the log, so what was in
  flight before the first commit of a group is skipped after a restart.
* **postgres_rows.** `QueryContext` and `QueryRowContext` derive a context with the
  query timeout and cancel it, by `defer`, when they return. The rows belong to
  that context: database/sql closes them, and the caller's `Next` or `Scan` fails
  unless it is faster.

Three properties of passing runs name their exceptions, because the code has them:

* `FirstRestoreSucceeds`: after one lost connection the first restore fails only if
  the broker refuses a declaration. With two lost connections it may fail for
  another reason, and the property says which: the connection it declares on is
  gone, or a handler has sent the client back to Connecting. When both connections
  of a pair are lost, the second handler may do so after the reconnection that
  answers the first one (client.go:238).
* `EveryRecordIsHandled`: not if from some time on nobody polls the partition,
  because its client is left open after `Start` has returned, or no client is open.
* `BoundedCallsEnd`: not if the call waits for the server for ever, which no
  deadline ends.

Three further disagreements between comments and code are in the models, without
a run of their own. IsTimeoutError's comment (postgres.go:158-162) lists 57014, which
the server returns for a statement that was interrupted because of a done context.
When the rollback fails too, `WithTransaction` keeps only its text ("canceling
statement due to user request"), which has none of the keywords, and the timeout is
no longer recognised; the last conjunct of `KindSurvives` states this
exception exactly. `returnCh` tests `closed` and then sends, and `close` may
close the Go channel in between (the model ends in `panicked`), although
pool.go:13 calls the pool safe for concurrent use. `restoreTopology` empties the
cache and stops at the first error, so that what it did not reach is forgotten;
`Conserved` says that this is the only way in which an entry leaves the cache.

Every property has a *broken form* of one definition, kept next to it in the
module, under which TLC finds it violated: this is how we know that the
instance is large enough for the property to be at stake.

### Bounds

Named bounds (`MaxLosses`, `MaxErrors`, `MaxFaults`, `MaxCalls`, ...) limit what
the environment does, never what the code may do in answer. Two callers,
members or requests are enough for every race between two of them. A pool of
one shows the blocking send and the full pool; one loss already has two
handlers and, with a stale one, two reconnections. One setup call of topology
has all three kinds of entries, and two lost connections give two restores,
overlapping or one after the other. With two records a crash can fall before,
between and after them; with two signals (`MaxSignals`) one member can be cancelled
and closed, or each of the two can get one. With one connection a statement waits for a
transaction, and a transaction for itself. What the bounds leave out: three or more actors in one
race, more than one retry, several losses of the RabbitMQ client in a row
(which the proofs cover), two setup calls of topology at the same time, several
partitions and two transactions at once (for safety, covered by the proofs).

### Fairness

`FairSpec` of each module has weak fairness on the steps goroutines take by
themselves: the Go scheduler runs what can run. Of the application nothing is
assumed (it need not publish, cancel, close or call). Of the environment we
assume: the broker answers dials again once the bounded failures are over; an
unassigned partition is assigned, as long as a client is open, and a crashed Kafka member is started again;
timers fire (`FlushTimeout`, `removeExpired`, `Tick`, the spin deadline); queues
are first in first out (strong fairness of `Advance` in Delivery: no message is
passed over for ever). TTLs of cache entries and locks are *not* assumed to
end. `fn` and handlers return. In Postgres deadlines pass and the goroutines of
database/sql run, `awaitDone` of `sql.Tx` claiming a transaction unless its Commit
or Rollback is under way. Nothing is assumed of the server, which need not answer
a statement, BEGIN, COMMIT or ROLLBACK, nor give in to a cancel request:
`BoundedCallsEnd` holds by the deadlines alone. `FnReturns` is strongly fair, as
`fn` may run statements in between but not for ever.

All runs have deadlock checking off, as every one of these programs may come to
rest: callers are done, consumers have returned, bounds are used up.

## 4. Proofs

TLAPS checks these theorems for all values of the constants, under the
assumptions named in the modules: bounds are natural numbers; pool size, prefetch
count, `MaxRetries` and state timeout are positive, as the configurations make
them; so is the batch size, which the code takes as it comes and compares only
after a delivery was added; `MaxOpenConns` is positive, as the code sets no limit
otherwise; publishers and postgres calls are finite in number (what
counts them needs it); a call is either a statement or a transaction, a consumer
either single or batching; and the names of callers are not those the model uses
for restores, queues or nobody. Every safety property of every passing run is the
subject of a theorem.

**RabbitClientProofs.** `TypeCorrect`, `OneConnector`,
`LossNoticed`, from one inductive invariant (`Invariance`). `SingleConnector` is
not inductive by itself: that the compare-and-swap admits one loop needs that
no loop is connecting while the state is Connected or Disconnected, that
Connecting always has its loop, that the state Closing and a closed `closeChan`
mean that Close was called, and that nothing else runs until `NewClient` has
connected. `LossIsNoticed`
needs in addition that the client has had connections since it first assigned
them, which connection each handler watches, that a handler that waits does so
on an open connection (losing it wakes the handler in the same step), and that
each current connection has a handler, or a loop that is about to start one or
to replace the connection. Frame
lemmas say what each group of variables needs to stay well-typed. `NeverAbandoned`
is the safety part of automatic reconnection, which has no run of its own: unless
`NewClient` failed or Close was called, a client that is not Connected is
Connecting, and a goroutine is in `connect` or about to retry it. It adds
`Stopped` to the invariant: the client is Disconnected or Closing only after Close
was called.

**ChannelPoolProofs.** `ChannelsWithinPool`, from `Bounds`: a connection that is not
open has no channels, so a dial starts from none; until `fill` is done, the
connection a loop has dialled carries at most what that loop has opened on it;
everything else only closes channels (`NoGrowth`). The one step that opens a
channel uses `SingleConnector`: no other loop is connecting, so no other count is
about that connection. `PoolStaysEmpty`, from `Shut`: the Go channel is closed by the
time its items are taken out, and every step but those of Close changes only a
pool that is open or not empty. `NoLeak`, from `Balanced`: the number of channels
open on a connection is the number of its live channels in the pool, plus those
with publishers, plus the one `fill` is about to send. Each step moves a channel
from one of the three sets to another, or opens or closes it together with its
entry; the counting rests on the publishers being finite in number.
`FillBlockedByOthers` uses the same counting for the channels, dead or alive, of
the connection a loop fills from: `OwnBound` says that pool and publishers
together have at most as many of them as the loop has sent. As a loop that is
about to send has sent fewer than the pool has room for (`Locals`), a pool that is
full holds at least one channel of another connection. Two loops never fill from
the same connection, and a connection that is dialled is one that nothing in the
pool or with a publisher belongs to.

**CacheAsideProofs.** `TypeCorrect`, `LeaderIsAlone`, `NeverOlder`, `TrueReturns`,
from `Invariance`. The strengthening says: the lock exists while somebody is in the
section; the key holds the version stored last, which is not newer than the
source; who is about to store holds a version at least as new as the newest;
who is about to return has one at least as new as what it could have read, in
the form `fn` gave it. What depends on the lock is conditional on `~lapsed`, and
a lapse is never undone. The promises
about single callers are put into one predicate `Promise(c)`, so that a step of
one caller has to be examined for that caller and for the others as one.
`OneCallOfFn`, from `Once`: as long as nothing expires, fails or gives up, `fn` has
not run yet, or its result is stored or about to be stored; a lock has a holder,
a holder leaves only once the key is there, so who waits for it finds the key.

**OAuthLoginProofs.** `TypeCorrect`, `Matching`, `InTime`, `UsedOnce`, from `Invariance`: a stored
state was made by its login and expires `StateTimeout` after; what a request has
retrieved was valid then; a request at the application's callback has passed
the nonce check.

**KafkaConsumerProofs.** `CommittedSettled`, `InOrder`, `Refinement`, for groups that
have committed an offset before, which the model counts from (`~FreshGroup`; for
a fresh group see kafka_fresh_group), from `Invariant`. Neither property
is inductive: a commit is justified by what the member has in its batch, and a
batch by where the fetch position was when it was polled. `BatchInv` says that
everything in front of a member's next record is settled, whoever settled it,
and that the records of its batch are in front of the end of the log;
`PositionInv` says that what lies in front of the fetch position of an owner is
settled, or its batch reaches up to there, or it is cancelled and will not poll
before `Start` is called again, which discards what is left; `GroupInv` that everything in front of a committed offset, and in front of
a handled record, is settled. A member that has lost a partition keeps its batch,
which is why `BatchInv` does not mention ownership. For the refinement each
action is shown to be a step of GroupLog (`Append`, `Settle`, `Resume`) or to leave
its variables alone. `TypeCorrect` holds for every group, fresh ones included. It
has an invariant of its own, `AtRecord`: a member that works on a record has one
left in its batch, so the offset it commits, one further, is still an offset.

**DeliveryProofs.** `AtLeastOnce`, `NoDoubleAck`, `AtMostOnce`, from `Invariant`:
what a consumer holds on a channel that is not closed is unacknowledged on that
channel (`ConsumerInv`), what it is about to acknowledge has been handled
as well, and, unless a connection was lost, a message that was handled is done
or about to be acknowledged (`Acknowledged`, `MessageInv`). `TypeCorrect`, with the
bound on the size of a batch, needs `HandInv` in addition: a Consumer has one
delivery in hand at most, and none while it waits for the next; a batch that is
still being collected has room for one more. `Refinement` shows that broker and
consumers implement WorkQueue: each action is one of its steps or is not seen. By
`ConsumerInv` a delivery settled on a channel that is not closed is assigned to the
consumer that settles it and has been handled if it is acknowledged; by
`ClosedHasNone`, a consumer without a channel is assigned nothing, so what it
settles in vain it puts down.

**PostgresProofs.** `Truth`, `Released`, `Recognised`, from `Invariant`. `CallInv(c)`
ties, for one call, its place in the code to the state of its `sql.Tx`, to the
transaction at the server and to who holds the connection: for example a
transaction that is open at the server belongs to an `sql.Tx` that is active, or
that `awaitDone` has claimed because the context is done. A step of one call does
not touch another one's variables (`Only`, `OthersAlone`), so each action is
examined for its own call. `Recognised` goes through what a rollback can return
(`AfterRollbackFacts`): it keeps the kind of the error of `fn` in the chain or in the
text, but for a 57014, which the text does not show. `TypeCorrect` adds `InLimit`, that statements, rows and
transactions together use at most `MaxOpenConns` connections: only `GetConn` and
`BeginGetConn` take one, each for a call that has none of that kind (`LentStep`).
`Refinement` shows that the calls implement AtomicTx. A step of one call changes
what AtomicTx sees of that call only (`SeenOfOne`), so each action is a step of
AtomicTx for its call, or is not seen. It rests on `CallInv`: until a call is done
it has no result and nothing is committed, so `FnReturns`, `Rollback` and `Commit`
meet an undecided or aborted outcome; and a statement on the transaction runs
only while the server has it open or failed, so its answer decides nothing.

**TopologyProofs.** `TypeCorrect`, from `Invariance`. That the connections named by
`Links` suffice is an argument about cost, `Paid`: every reconnection, finished or
under way, and every handler that will still trigger one, is paid for by a lost
connection, the first one by a connection of the first pair. `FirstRestoreWorks`, from `FirstInv`: what a binding needs comes before
it in what a caller has to declare, or is in the cache (`Supported`); so it is in
the snapshot, where `RestoreOrder` puts exchanges and queues first, and at the
broker by the time the binding's turn comes. So an undisturbed restore does not
fail; what disturbs it without a refusal is a second lost connection, by `Paid`
when it has led back into the reconnect loop, and because the first one was of the
first pair when it is the connection of the restore. `NothingLost`: `Conserved` is
inductive together with the types and `Control`. How often a declaration occurs in
a sequence is the number of its positions, and how often it occurs in what all
restores have left is the number of pairs of a restore and a position; so what
concatenation, `Append` and `Tail` do to these numbers follows from bijections
between finite sets and needs no induction over sequences.

Only model-checked are the properties about what must eventually happen, as
liveness under fairness is out of the prover's reach: `ReconnectsOrFillBlocks`,
`CachedIsRestored`, `EveryMessageIsHandled`, `EveryCallReturns`, `ExpiredAreRemoved`,
`EveryRecordIsHandled` and `BoundedCallsEnd`. The four violated properties are
refuted by TLC and have no theorem.

## 5. Not modelled

* `i18n`: the only shared state of the translator is a map that is accessed
  inside one `RWMutex`, each access one critical section, and `getLocalizer` looks
  again before it creates. There is no sequence of steps that another goroutine
  could come between and that a property could be about.
* `AutoAck` consumers: the broker forgets a message when it sends it, so what is
  in a lost channel is lost by choice of the option.
* `PublishBatch` (a loop over `PublishMessage`), broker back-pressure
  (`handleConnectionBlocked` logs), `PingContext` (only reads), the lifetimes of
  idle database connections, and a `runtime.Goexit` inside `fn`.
* Retries inside go-redis and kgo; a Redis command or a commit takes effect at
  most once, within its call.
* Validation of configurations, health checks, hashing, logging, tracing: no
  state, or pure I/O.

## 6. Plan

Done: the RabbitMQ client and pool; topology; consumers with the queue they
implement; cache, login flow, Kafka consumer with the log it implements; the postgres client with the promise
it implements; proofs of the safety properties of all of them.

Open, in the order of their worth:

1. An abstract specification of the channel pool (a bounded bag of channels)
   and of the client's state diagram (rabbitmq/README.md), with the detailed
   modules shown to implement them where they do.
2. Composition of Delivery with Topology, where a consumer starts before its
   queue is declared again.
