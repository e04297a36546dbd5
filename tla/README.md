# Formal models of anabranch

TLA+ models of the packages in this repository, with TLC configurations that
check them on small instances and proofs, checked by TLAPS, of what matters most
for every instance. The code is TypeScript on one event loop: nothing runs in
parallel, but everything interleaves at each `await`, callback, timer and
resumed generator, and with the other processes that talk to the same broker,
database or file system. That is where the models put their steps.

Paths below are under `packages/` unless they say otherwise. `PROJECT.json`
names, for every definition that models code, the lines it stands for.

## 1. Inventory

The core is the package `anabranch`; the other packages wrap services in its
`Task`, `Source`, `Stream` and `Channel`, usually behind an adapter interface
with an in-memory adapter and one or more real ones.

### Channel (`anabranch/channel/`)
* State: an array of items with a dead prefix (`head`), the `closed` and
  `started` flags, resolvers of waiting senders (`producers`) and of sleeping
  generators, an abort listener.
* Operations: `send` (waits for room), `trySend`, `fail`, `waitForCapacity`,
  `close`, iteration by any number of generators, `with*()` configuration.
* Hard: a woken sender may find its slot taken; a generator must not miss the
  push or close just before it sleeps; a generator that is left closes the
  channel under everyone; the array is compacted between two items.
* Correct if: accepted items come out once and in order, no wakeup is lost, the
  buffer is not outgrown, `close` releases everybody, `with*()` loses nothing.

### Stream (`anabranch/stream/`)
* `concurrentTransform`, under `map`, `tap`, `filter`, `flatMap` and others: a
  pump, running handlers and the consumer share `inFlight`, a queue, a list of
  waiters and `cancelled`. Hard: handlers settle in any order and after a
  cancellation, and the end is a condition on all three parties.
  Correct if: bounds hold, every output is delivered once, nothing starts after
  a cancellation, everything ends.
* `splitN`, `splitBy`: one pump sends to several channels and waits for room on
  them; branches are left or closed at any point, a signal closes all.
  Correct if: each branch sees its part of the source in order, a slow branch
  holds the source back, and a branch that is left never blocks the others.
* `merge`, `zip`: two generators raced or paired. Hard: the `next()` that lost
  the race must be kept for the next round; both sides are to be closed though
  one owes an answer. Correct if: both sides keep their order, pairs are aligned,
  everything ends.
* The sequential operators (`take`, `scan`, `fold`, `chunks`, `recover`, ...) are
  loops over one generator, each with its own way to end, throw and pass errors.
  Correct if: they give what their definition says and release the source.

### Source and cron (`anabranch/source/`)
* `fromSchedule` parses a cron expression, looks for its next instant field by
  field, sleeps with `setTimeout` and gives a tick. Hard: the carries and resets
  of the search, its horizon, the width of a timer.
* Correct if: no instant is missed, none is wrong, no tick is early.

### Task (`anabranch/task/task.ts`)
* State: none of its own; a task is a function of a signal. `run` races it with
  the signal, `timeout` adds a controller and a timer, `retry` a loop with
  delays, `acquireRelease` a scope. `all`, `allSettled`, `race` and `chain` put
  several tasks under one signal.
* Hard: nothing can be cancelled. An attempt that has timed out goes on, and its
  resource is acquired, used and released while the next attempt runs; the losers
  of a race go on.
* Correct if: what goes on has been told to stop, resources are released,
  nothing begins once the caller has its result, the result is the right one.

### Queue (`queue/`, `queue-redis/`, `queue-rabbitmq/`)
* `queue.ts` wraps an adapter in tasks; `stream` takes a batch, `continuousStream`
  polls with a backoff or reads a subscription until its signal is aborted.
* In-memory adapter: per queue the available messages, delayed messages in
  buckets of a second, deliveries in flight with their time, timeouts that
  promote buckets; dead letter routing through the adapter's own `send`.
* Redis adapter: sorted sets of pending, delayed and in-flight ids and a hash of
  messages. An operation is several round trips; consumers share only the server.
* RabbitMQ adapter: deliveries found by the id in their envelope; requeue is a
  publish and an acknowledgement; the channel may close and the broker redeliver.
* Hard: expiry against late acknowledgement, negative acknowledgement of a
  message that is no longer in flight, timers against `receive`, time rounding,
  a connection lost between two round trips.
* Correct if: no accepted message vanishes or multiplies, none is given out
  while it is held, delayed ones come out, and not early.

### Event log (`eventlog/`, `eventlog-kafka/`)
* In-memory adapter: events per topic, committed cursors per group, consumers
  that are driven by each append. `EventLog.consume` puts a channel behind it.
* Kafka adapter: cursors are offsets per partition; the handler of a batch commits
  runs of malformed messages itself, and a rebalance moves positions.
* Hard: drives overlap and block on the channel; cursors are committed by
  handlers that may be late or run several at a time; consumers resume.
* Correct if: a consumer gets every event once and in order, is never forgotten
  with events to come, and a resumed one skips nothing.

### DB (`db/`, `db-sqlite/`, `db-postgres/`, `db-mysql/`)
* Transactions: the number of open ones per adapter (`transactionDepths`) and
  `settled` per transaction object; the database keeps the rest.
  `withTransaction` is an `acquireRelease` around BEGIN or SAVEPOINT.
* Connections: reference counts on the SQLite sessions, pools elsewhere;
  batches, streams, a signal per connection. Notifications: a list of channels
  in memory, a client per listener on PostgreSQL.
* Hard: the count is read before an answer and written after it; an abort rolls
  back while the callback goes on; COMMIT, RELEASE and ROLLBACK can be refused;
  a connection ends in several ways at a time.
* Correct if: what reported success is durable, what did not is not; connections
  come back once and clean; listeners are told of everything since they began.

### The other packages
* Check runs (`check-runs/`, `check-runs-github/`): a batcher whose interval,
  loop and `close` share one buffer; watchers that poll for completion.
* Broken link checker: a crawl feeding its own channel, closed when a counter of
  pending pages reaches zero.
* Web client: classification of responses, timeout and retries.
* Cache (`cache/`, `cache-redis/`): `getOrSet` is a read, a computation and a
  write; entries expire in between.
* Storage (`storage*/`): objects in maps, IndexedDB, S3 and GCS; a listing is
  pulled page by page or entry by entry while objects come and go.
* File system (`fs/`): a depth-first walk of a tree that changes.
* NoSQL: one adapter call per operation, queries are pure functions.
  `scripts/` is build tooling.

## 2. Modules

| module | models | composes |
| --- | --- | --- |
| `BoundedChannel` | what a channel promises (abstract) | |
| `ChannelSource` | `channel-source.ts`, `channel.ts` | implements `BoundedChannel` |
| `ChannelSourceProofs` | theorems about `ChannelSource` | |
| `ConcurrentTransform` | `concurrentTransform`, `concurrentMap` | |
| `SplitPump` | `splitN`, `splitBy` | channels at the level of `BoundedChannel` |
| `StreamCombine` | `merge`, `zip` | two generators |
| `StreamOperators` | the loops over one generator | |
| `Schedule` | `fromSchedule`, `cron.ts` | |
| `ScopedTask` | `run`, `withSignal`, `timeout`, `retry`, `acquireRelease` | |
| `TaskGroup` | `all`, `allSettled`, `race`, `chain`, the callbacks behind one task | |
| `QueueStreams` | `queue.ts` | any adapter, by how its calls settle |
| `StreamsProofs` | theorems about systems that `MCStreams` runs | |
| `InMemoryQueue` | `queue/in-memory.ts` | |
| `RedisQueue` | `queue-redis/` | an external server, several consumers |
| `RabbitQueue` | `queue-rabbitmq/` | an external broker |
| `QueuesProofs` | theorems about systems that `MCQueues` runs | |
| `EventLog` | `eventlog/in-memory.ts` under `EventLog.consume` | a channel per consumer, with its wakeups |
| `EventLogProofs` | theorems about `EventLog` | |
| `KafkaLog` | `eventlog-kafka/` | an external broker |
| `KafkaLogProofs` | theorems about `KafkaLog` | |
| `DbTransactions` | `DB.withTransaction` | `acquireRelease` and a connection |
| `DbTransactionsProofs` | theorems about `DbTransactions` | |
| `DbConnections` | `DB.withConnection` on the four connectors | pools, sessions, batches |
| `Notifications` | `listen`, `notify` in memory and on PostgreSQL | channels, clients |
| `WebClient` | `web-client/client.ts` | retry and timeout of tasks |
| `LinkChecker` | `broken-link-checker/` | a channel and `concurrentMap` |
| `CheckRuns` | `check-runs/`, `check-runs-github/` | a channel and a batcher |
| `DirectoryWalk` | `fs/dir.ts` | a tree that others change |
| `TasksProofs` | theorems about the six systems that `MCTasks` runs | |
| `Cache` | `cache/`, `cache-redis/` | a store with expiry |
| `Storage` | `storage*/` | four stores |
| `StoresProofs` | theorems about systems that `MCStores` runs | |

A module models one system. `MCStreams`, `MCTasks`, `MCQueues` and `MCStores`
put several of them into one run: the variable `model` says which of them a
behaviour runs, and the others stay in their initial state, so the states of the
run are the sum of the states of the systems and not their product. An invariant
of such a run is the conjunction of an invariant of each. The remaining `MC*`
modules give the constants that a configuration cannot write down.

Operators commented `Fault:` are not part of a model: each is a definition as a
plausible bug would have it, used to see that a property notices.

How state and actions correspond to the code:

* **Steps.** Code between two awaits is one action. A promise is pending, then
  resolved ("woken"), and the code behind it resumes in a later step, with
  anything in between. This is coarser than the microtask queue in one
  direction only: the models allow orders of resumptions that a given build may
  not produce, and no order that happens is left out.
* **Data.** A message, event, row or object is a number or a model value; an error
  is a kind. A callback of the user is how it settles.
* **`ChannelSource`.** `queue`, `head`, `closed`, `started` and `producers` are
  the fields. `SendNow`, `Block`, `ResumeSend`, `Drop` are the paths through
  `send`; `gen` is where each generator stands.
* **`ConcurrentTransform`.** `pump`, `task` and `consumer` are the three kinds of
  process; `early` and `outputs` are history.
* **`SplitPump`.** The pump is a process with its place in the loop; a branch is
  the buffer of its channel. `Begin` chooses the mode.
* **`StreamCombine`.** `answer` is the settled `next()` of a side that the loop
  has not looked at, `racing` the sides whose `next()` is pending.
* **`StreamOperators`.** One loop, with the body of the operator that was chosen;
  `fate` is how the callback settled for each result.
* **`Schedule`.** A calendar with units of two or three values; `_nextCronTick`
  is the search as it is written, as a recursive function.
* **`ScopedTask`.** One record of controller, race, scope and user function per
  attempt, and the loop of `retry`. Values and errors are not told apart.
* **`TaskGroup`.** A task is its promise, which an abort rejects, and the work
  behind it, which goes on.
* **`InMemoryQueue`.** Each method is synchronous up to its end and is one
  action. Selections from a sequence name the places that stay (`Keep`). Clients call them with any id, also late. Time is an integer, `Second`
  units to the bucket.
* **`RedisQueue`.** `job` is where a consumer stands in its operation; each round
  trip, or pipeline, is one action, and any of them may fail.
* **`RabbitQueue`.** `ready` and `unacked` are the broker's; `inflight` maps ids to
  delivery tags as in the adapter.
* **`EventLog`.** An event is its index; a batch is a pair of indices. Cursors
  are kept as numbers, formatting as `CursorOf`.
* **`KafkaLog`.** A fetch starts at `position`, which only the client library's
  `resolveOffset`, `seek` and a rebalance move.
* **`DbTransactions`.** `depth`, `settled` as in the code. `wire` holds the
  statements that are executed but not answered; answers arrive in order.
* **`DbConnections`**, **`Storage`**, **`Notifications`**, **`Cache`**,
  **`CheckRuns`.** The first step chooses the connector or client; actions that
  exist on some of them only are guarded by it.

## 3. Runs

| run | configuration | shows |
| --- | --- | --- |
| `channel_safety` | `MCChannelSource` | order, no lost wakeup, pristine until started, refinement of `BoundedChannel` |
| `channel_live` | `MCChannelLive` | blocked sends return, `close` releases callers and drains consumers |
| `streams` | `MCStreams` | the transform, split, merge, zip, operators, schedules and the streams of a queue: limits, what comes out, and that everything ends |
| `tasks` | `MCTasks` | the scoped task, groups, the web client, the crawl, a check run, a walk: who is aborted, what is released, what the result is |
| `queues` | `MCQueues` | the three adapters: nothing lost, multiplied, early or forgotten |
| `stores` | `MCStores` | event logs, transactions, connections, notifications, cache, storage: nothing skipped, half written, leaked, stale or missed |
| `channel_poller_takes_wakeup` | `MCChannelPoller` | finding 1 |
| `queue_attempt_count` | `MCQueueAttempts` | finding 2 |
| `event_log_order` | `MCEventOrder` | finding 3 |
| `db_nested_abort` | `MCDbAborted` | finding 4 |
| `schedule_overflow` | `MCSchedule` | finding 5 |
| `db_memory_closed` | `MCDbClosed` | finding 6 |

### Bounds, and why they are enough
* Channel: three senders, a poller and two consumers, one of which may break
  out; a buffer of two, five calls. Two senders can compete for one slot while a
  third overtakes, and the array is compacted every other item (`CompactAt` is
  256 in the code; the condition is the same). The liveness run has a buffer of
  one and four calls, so that senders block.
* Transform: four items with up to two outputs each, two handlers, a buffer of
  two: both limits bind, alone and together.
* Split: two branches, buffer of one, four items: one branch can be full, left or
  closed while the other runs ahead. Merge and zip: two results a side, so that
  one side can be a round ahead. Operators: four results, chunks and `take` of
  two, so that there is a full chunk, a rest, and an error in each of them.
* Schedule: units of two or three values, a year of 48 seconds: each unit carries
  into the next within the 30 seconds that pass and the two years of the horizon.
* Queue streams: three messages in batches of two, two parallel sends.
* Scoped task: three attempts, so that two overlap with a third. Groups: three
  tasks. Crawl: four links, with a redirect to a known one, one outside and one
  filtered, two at a time. Check run: three annotations in batches of two, so that
  one is left over. Walk: two names on two levels, three changes.
* In-memory queue: two ids (two messages, or one and its dead letter), two
  attempts, delays below, at and above the second of two units, a buffer of one,
  one requeue that comes too late. Redis: two consumers of one message and two
  units of time: a visibility timeout passes within a round trip. RabbitMQ: two
  messages, a prefetch of one, the channel closes once.
* Event log: one consumer of four events in batches of two, or two consumers of a
  group and two events; buffers of one or unbounded, one or two handlers at a
  time. Kafka: three messages of one partition, two consumers in turn.
* DB: a chain of four nested calls; or one call in another and one after both:
  savepoint names collide from the second level on. Two calls of
  `withConnection`, batches of two rows. Two listeners, two notifications.
* Cache: two callers, one key, two values and one unit of time: an entry expires
  between any two steps. Storage: two callers, two keys, pages of one, three puts.

`CHECK_DEADLOCK FALSE` is set throughout: every one of these systems stops when
the calls are made, the source ends or the adapter is closed.

### Fairness
* `channel_live`: each woken caller and generator is resumed, and consumers that
  do not break go on reading. Senders need not send and nobody need close.
* Transform: the source answers, handlers settle, resumed code runs and the
  consumer reads on or leaves once it has asked for the first result; nobody is
  made to ask. A handler that never settles holds its slot for ever, in the code
  too.
* Split: once a branch is read, the source and the callback answer, and every
  branch is read or left. Merge and zip: a side that was asked answers, the loop
  goes on, the consumer reads on or leaves.
* Queue streams: after an abort, the calls of the adapter settle and the loop goes
  on. The timer of the backoff need not fire.
* Scoped task: timers fire, resumed code runs, `acquire` and `release` settle.
  The function that uses a resource may hang; releasing does not depend on it, and
  nobody is made to run the task.
* Groups: tasks settle and the loops go on. Crawl: requests settle and items of
  the channel are taken; a callback that throws is excluded by the property.

In each case it is weak fairness of single steps: the event loop runs every
callback that is queued, and a promise that stays resolved stays queued. The
models of brokers and stores state safety only: how long a server takes is not
the code's to say.

### Findings
1. `waitForCapacity` is resolved by the one wakeup of a free slot. A caller that
   is woken and does not send leaves a blocked `send` waiting although there is
   room (`channel_poller_takes_wakeup`; comment at `channel-source.ts:50`).
2. A delivery whose visibility timeout expires goes back with its `attempt`
   unchanged. `attempt` is documented as the number of deliveries, and
   `maxAttempts` as the maximum before dead lettering; a message whose consumers
   die is delivered for ever (`queue_attempt_count`).
3. With a bounded buffer the batch of a later append can be sent before one that
   waits for room, so events with one key arrive out of order
   (`event_log_order`).
4. The rollback of a nested transaction that outlives its aborted parent hits
   the savepoint of the next transaction, which has the same name; that one
   commits and reports success without its writes (`db_nested_abort`). On a
   database that refuses SAVEPOINT outside of a transaction, the next
   transaction fails instead.
5. `fromSchedule` gives `setTimeout` a delay of any length. Above 2^31 - 1 ms the
   timer fires at once: a yearly schedule ticks immediately and then spins
   (`schedule_overflow`, `source.ts:162`).
6. When the last adapter of an in-memory database connector is closed, the
   database is closed for good, and the adapter of the next `connect()` has none
   (`db_memory_closed`, `db/in-memory.ts:71`).

### Observations without a run
Some properties are stated in a module because the code or its documentation
says so, and are false of the model; no run checks them, and they are kept as a
record.

* `StreamOperators!ErrorsKeepTheChunk`: "Errors pass through without breaking the
  current chunk" (`stream.ts:418`), but `chunks` flushes at an error
  (`stream-impl.ts:643`).
* `StreamCombine!NothingIsDropped`: `zip` drops errors of one side that came
  after the other side ended (`stream-impl.ts:829`).
* `QueueStreams!InFlightIsProcessed`: what is left of a batch at an abort stays
  in flight until its visibility timeout (`queue.ts:333`), where `queue.ts:260`
  says that in-flight messages are processed.
* `RedisQueue!HeldMessagesAreHidden`: `receive` reads the pending ids and moves
  them in a second round trip, so that two consumers may be given one message
  (`adapter.ts:151`); and a late `nack` writes the data of an acknowledged
  message again.
* `KafkaLog!FailuresAreReported`: a consumer that cannot start says nothing
  (`kafka.ts:339`). Also, a cursor names its own partition only
  (`kafka.ts:270`), and an error of the user's `onBatch` is taken for a malformed
  message (`kafka.ts:282`).
* `WebClient!TransientErrorsAreRetried`: network errors are marked `isRetryable`
  (`client.ts:166`) and `isRetryable()` does not look at the mark (359-368).
* `CheckRuns!BatchesAreSmall`: the interval may flush more than the limit of a
  batch (`types.ts:55`).
* Not stated: `check([])` of the link checker never ends, nor does a crawl in
  which a callback throws (`checker.ts:258`); a PostgreSQL client is released
  twice when its connection is closed after an abort (`postgres.ts:30`, `79`);
  `executeBatch` within a transaction fails on SQLite, and all adapters of a
  SQLite connector share one session; `Task.race` is documented with the "first
  settled result" (`task.ts:264`) and waits for the first success; the horizon
  of a cron search is four years of 365 days (`cron.ts:74`), which can miss the
  29th of February; a get from GCS may pair metadata with a later body
  (`gcs.ts:79`), which `Storage!BodyHasItsMetadata` allows.

## 4. Proofs

`ChannelSourceProofs`, for any sets of callers and consumers, any buffer size and
any compaction threshold, from `ChannelAssumption` (the sets of callers are
finite, the buffer has a slot, quitters are consumers):

* `TypeCorrect`: the type invariant, by itself inductive. The facts about
  `TakeHead` say that the splice and the reset of `head` go together.
* `ClosedReleases`, `SleepersEmpty`: from `WakeInv`, inductive given the types,
  because closing and pushing look at the same flag as going to sleep.
* `InOrder`: delivered items followed by the pending ones are the accepted ones.
  Inductive as a statement about indices (`OrderInv`), since `SubSeq` and
  concatenation are not what an action changes.
* `WaitersRegistered`: the list of resolvers holds the waiting callers, each
  once (`WaitInv`).
* `NoLostSenderWakeup`: needs all of these. A slot that becomes free is claimed
  by a woken caller; `SlotInv` counts the woken ones, so one lemma per kind of
  step says how the cardinality changes.
* `Pristine`: until the first `next()` the source holds no item, no `send` waits
  and no generator runs that could change that (`FreshInv`).
* `Refinement`: `ChannelSource` implements `BoundedChannel`, step by step, under
  the invariants above.

`TasksProofs` is about the systems of `MCTasks`. Its theorems are about the
behaviours of that module: a step of the system that `model` names is a step of that
system, the others stutter (`EachStutters`), so each has an inductive invariant of its
own. The properties are the conjunctions that the run checks.

* The scoped task, for any number of attempts (`AttemptsAssumption`):
  `TypeCorrect`, `Orphans` and `NothingBegins`. The invariant has three parts: the
  attempts behind the loop have settled and those ahead are untouched (`LoopInv`),
  an attempt that has settled has aborted what it still runs (`ScopeInv`), and a
  value comes from the attempt at which the loop ended (`ValueInv`). The second is
  not inductive without the first: that the outer signal reaches the attempt that
  is awaited, and no other, rests on the others having settled.
* Groups, for any number of tasks from two on (`GroupAssumption`): `Losers` and
  `GroupOutcome`. In a group that runs one task after the other, the tasks before one
  that has begun have been seen (`GroupOrder`); a race has the value of a member or the
  errors of all (`GroupRace`), which is a matter of counting: a list of errors without
  repetition that is as long as the members are many has them all (`FullList`); and
  with a result and no abort every task that has begun has been seen (`GroupOver`).
* The web client, for any number of attempts: `Respected`, from `ClientInv`. The error
  at hand is that of the last answer, also when it comes from parsing the body
  (`ClientLast`), and every answer before it was one that the default options
  retry (`ClientEarlier`).
* The walk, for any names, options and depth (`WalkAssumption`): `WalkIsComplete`. A
  path that was there all the time has been given, or is under a directory on the
  stack, or is or is under one of the entries that the loop has not been through
  (`WalkFinds`). The directories on the stack and these entries lie apart, and nothing
  has been given under them (`WalkStack`, `WalkEntries`), so nothing is given twice.
  Others change the tree at any step.
* Check runs, for any number of annotations and any size of a batch
  (`ChecksAssumption`): `AnnotationsKept`. What was sent, is in flight, is in the
  batcher's buffer and in the channel, put together, is what was accepted, in that
  order (`Kept`), and the run is completed when the last three are empty
  (`ChecksOver`). A watcher has seen what it has at hand (`ChecksWatch`).
* The crawl, for any finite site, aliases and depth (`CrawlAssumption`):
  `CrawlDone`. Every url that was found waits in the channel, is being checked, has
  a result or threw, once (`CrawlPlaces`), and the counter is the number of those
  without a result (`CrawlCount`): it reaches zero only when there are none.

`StreamsProofs`, first about `ConcurrentTransform`, for any number of items and
outputs and any limits, from `TransformAssumption`:

* `TypeCorrect`, `Bounded`, `NoLostWakeup`, `NothingStarts`: from `IInv`. The
  counter that the pump tests is the cardinality of the tasks in flight
  (`CountInv`), the item the pump holds is the next one and has no task yet
  (`HoldInv`), and nothing happens before the first `next()` or is cancelled
  while the consumer is there (`StageInv`).
* `DeliveredOnce`: from `OutInv`. What was delivered followed by what is queued
  is, without repetition, the set of outputs produced (`GivenInv`, stated about
  the concatenation because a delivery only moves its boundary). A push keeps it
  because a handler that is not through has produced nothing yet (`FreshInv`),
  and the end is reported only once every item that was read has been through
  (`StartedInv`, `EndInv`).
* `Limits`: tasks in flight and queued outputs stay within their limits. The
  buffer is tested before an item is read and not when its handler pushes, so
  what is bounded is the queue together with all that the running handlers may
  still add: the invariant speaks of that sum at the step that reads.

and then about the systems of `MCStreams`, in the form of `TasksProofs`:

* The split, for any number of branches and items and any buffer
  (`SplitAssumption`): `BranchesOfSplit`. For every branch there is a number of items
  that the pump is through with as far as that branch goes (`Through`): while it sends
  a value to one after the other it is one less for those whose turn is still to come.
  What a branch was given is stated up to that number, for `splitN` as a run of numbers
  (`BranchPrefix`) and for `splitBy` as those of its key, each above all before it
  (`BranchKeys`), and what waits in its channel is the end of it (`BranchBuffer`). A
  step then does one of three things at each branch (`Moves`): it passes it by, gives
  it the next item or fails it. That a branch has room when an error goes to all of
  them at once follows from `SplitStage`: one that is full at that point is still in
  the set the pump waits for.
* The streams of a queue, for any number of messages and sends
  (`PollsAssumption`): `StreamsOfQueues`. What was given out followed by the rest of
  the batch is what was received (`PollsData`), and a batch is never looked at when it
  is empty (`PollsStage`).
* Merge and zip, for any number of results: `ResultsInOrder`, from `CombineInv`. An
  answer that is a result is the last one of its side, also while `zip` keeps it for
  the next round (`SideInv`). What `merge` has given out of a side is all that the side
  has yielded, but for an answer the loop has not looked at (`MergeInv`). For `zip` the
  number of pairs and the values that are kept or answered make up the number of values
  of each side, and its errors likewise (`ZipInv`); pairs and errors are compared by
  their rank among those of their kind (`Aligned`), so that a consumer who leaves only
  cuts what was given to a prefix (`AlignedCut`).
* The sequential operators, for any number of results, chunk size and limit
  (`OperatorsAssumption`): `OperatorsFaithful`, from `OperatorsInv`. What the loop has
  taken and not yet handed on decides where it goes next (`Heads`), so that a delivery
  changes no promise, and the source is open just as long as the loop has not decided
  to end (`OpStage`). What was given are the answers to the results looked at, and the
  accumulator lists those its callback did not throw at (`AnswersInv`). Chunks hold the
  runs of items that follow one another, and the unfinished chunk is what came since
  (`ChunkInv`, `Whole`); `take` counts the values it gives (`TakeInv`). The 23 operators
  are each reduced to one of six steps they are made of (`PassShape`, `SkipShape`,
  `CallGives`, `CallDrops`, `CallShape`, `AccumulateShape`), and the invariant is
  proved about these.

`QueuesProofs`, about the systems of `MCQueues`, in the same form (`EachStutters`):
`NoMessageIsLost`.

* Redis, for any consumers, ids and visibility timeouts (`RedisAssumption`):
  `NotStranded`. The data and the sorted sets agree for every message that nobody has
  settled (`AgreeInv`), which is inductive only with what a consumer knows in the
  middle of its round trips (`JobInv`): the ids it has read still have their data or
  have been settled by another, data is deleted for settled ids only, and a requeue
  writes the message it has read. Scores and attempts keep their bounds because what a
  job writes is a time that has been, or an attempt it has compared with the limit
  (`RedisBounds`).
* RabbitMQ, for any ids, prefetch and number of attempts: `NoLoss`. A tag names one
  delivery (`TagInv`; a new tag is free by counting), the adapter's map leads to an
  outstanding delivery of that very message (`MapInv`), and a delivery that waits for
  its drain does not count, since its successor has been published (`SafeInv`). Without
  the second, an `ack` could acknowledge another message; without the third, the
  acknowledgement at the end of a requeue would lose one. `SubscriptionsEnd`: whoever
  waits waits for a consumer that is there, and one that is there after the end is being
  cancelled (`StreamInv`), also when the abort came before the consumer tag.
* In memory, for any queues, dead letter routes, delays, limits and length of a second
  (`QueueAssumption`): `MessagesKept`, `HeldAreHidden`, `DelaysKept`, from `MemoryInv`.
  - The copies of a message are counted queue by queue (`HereAt`, `CopiesMove`), in each
    as the number of items of three sequences (`Among`). An id that was accepted and is
    not settled has one, and one more for each requeue that came when its delivery had
    expired; a settled one has only the latter (`Limit`). That is inductive only with the
    fact that one queue has an id in flight at most once (`Unique`), since the map of
    deliveries replaces: a delivery of the second copy drops the first (`DeliverOne`,
    `DeliverMany`).
  - What `receive` gives out was available, due or expired. A message with one copy that
    is in flight is none of the first two, so its delivery has expired (`HiddenStep`).
  - What is delayed sits in the bucket of its due time (`InBucket`), and for each entry some
    timeout comes no later than its bucket (`Covered`): a timeout that fires empties the
    due buckets and sets the next one for the least of the rest (`TimerProperties`).

`EventLogProofs`, for any events, consumers and buffers, with the hypothesis that
batches are not empty (`BatchSizeIsPositive`; the code does not check the option):

* `NotForgotten`: whatever an open consumer has not been sent has somebody who will:
  a `drive` that sleeps in `send`, was woken from it, or whose `send` has settled so
  that it looks at the log again (`Attentive`). An append that comes between the
  last look of a drive and its end is the case that matters.
* `CommitsAreHonest`: with unbounded buffers and one handler at a time, every event
  below the committed cursor was processed, for any number of consumers of the
  group. What precedes the batches of a consumer was processed or is in an earlier
  batch of the same consumer (`Covered`), from the moment it resumes at a cursor.
* `NoneSkipped`: every event taken by the drives of an open consumer is in exactly one
  batch. The batches in four places (given out, buffered, in a blocked send, in a
  woken one) tile the events up to `current` (`Tiled`); every step either adds the next
  batch at the end of one place (`TiledByNext`) or moves the first of one place to the
  end of another (`TiledByMove`), and neither depends on the order of the batches,
  which finding 3 shows is not kept.
* `EventLogTypes`: no batch, cursor or place lies outside the topic as it is, given
  `EventsAreBounded`. The sets that hold them grow with the topic (`BoundsGrow`).

`KafkaLogProofs`, for any partitions and logs: `AtLeastOnce`. Everywhere a consumer
may start, stand or commit, all good events behind it have been given out and
spoken for (`OffsetInv`, `CommitsInv`); within a batch, what is behind the reading
place of the handler was given out or waits in the batch being collected
(`HandlerInv`). A cursor without the partition makes a consumer begin at the end,
and that partition is excluded from then on (`jumped`). `KafkaTypes`: every offset names
a message of its partition or its end, given `OffsetsAreBounded`; a consumer that has
joined stands at a real offset, which is why nothing is resolved below zero.

`DbTransactionsProofs`, for any finite tree of calls (`CallsAreKnown`), whatever
callbacks throw and return, the database refuses and the signals abort:

* `TransactionTypes`: the count of open transactions is at most the number of calls
  that have begun, and with the number of those that are settled it is never negative
  (`Counts`), also once a callback goes on after an abort and the rest is lost; what is
  known even then of calls and statements is `Fits`. As long as none goes on, the
  count is exactly the number of calls on the path that are open (`Control`).
* `NothingHalfDurable`. The calls in progress form a path from a root; all but the
  innermost wait in their callback, and what is on the wire belongs to the innermost
  (`Control`). The stack has a frame for each call on the path that may still commit,
  in the order of their depths (`StackOK`). The invariant about data (`WritesOK`) says
  of a write that is not durable yet that the frames around it are exactly those of the
  calls around its own that are still open, and that the others are through: it moves
  outwards by one frame as a savepoint is released and is dropped as one is rolled back.
  That a call is through (`Done`), or never will be (`Doomed`), stays true, so what is
  durable at the end belongs to calls that succeeded all the way up. The case that
  decides is a ROLLBACK sent behind a COMMIT whose answer came too late: the write is
  then durable, or gone with its frame, and never in the frame of another call.

`StoresProofs`, about the systems of `MCStores`, in the same form
(`EachStutters`):

* The cache, for any callers, clock and values (`CachingAssumption`):
  `CacheIsFresh`. The history keeps when each value was written and when it ceased
  to be there; `CacheInv` ties the entry of the store to it, and an answer given
  at this time to both (`WasThere`).
* Connections, for any finite set of calls and any size of a batch, on all four
  connectors (`ConnectionsAssumption`): `ConnectionsComeBack`. The reference count of
  the in-process connectors is a cardinality (`ConnCount`), what a call holds is
  fixed by its stage, and its transaction keeps its client out (`ConnHolds`), and
  the rows of a batch that have been written are those behind it (`ConnRows`).
* Notifications, for any listeners and notifications (`NotesAssumption`):
  `EveryNotificationArrives`. What a listener has got, what its channel buffers and
  what is on the wire of its client are consecutive runs of numbers from the first
  one after it began up to the last one sent (`NoteRuns`).
* Transactions, for a chain of calls of any length and any number in turn
  (`TransactionsAssumption`): `NoLateCommit`, since the only step that begins a commit
  looks at the signal (`CommitMoves`), and `NothingHalfCommitted`, from the theorems
  of `DbTransactionsProofs` for those two trees of calls.
* Storage, for any finite set of keys, callers and page size, on all four
  connectors (`StorageAssumption`): `StoreIsFaithful`. A listing of pages has, up to
  the token of its next page, all that was there all the time, in ascending order
  (`PagesAreSound`); one of the map in memory has the keys of the slots it has
  passed (`ScanIsSound`), and a key that stays there stays in its slot. In both
  cases this holds of the objects in the history of the call (`CallIsSound`), and
  others come and go. The service gives out the ascending sequence of what is
  there: it is chosen from the set `Sorted`, of which the theorem needs no more
  than that its members ascend and leave nothing out.
* Event logs: `EveryEventArrives` and `CommittedCursorsAreHonest`. The theorems of
  `EventLogProofs` and `KafkaLogProofs` are instantiated with the constants of the
  three systems (`LongFacts`, `SharedFacts`, `KafkaFacts`), and the steps of the
  composition are shown to be theirs (`SameLongLog`, `RunsTheLongLog`, and so on), for
  any size of a batch and of a buffer (`ConnectionsAssumption`, `KafkaAssumption`);
  the number of events and of consumers is what `MCStores` fixes, since the theorems
  themselves are for any.

Only model-checked:

* every liveness property (fairness and ENABLED are out of the prover's reach);
* schedules (`TicksFollowTheSchedule`): the search is recursive, and what a recursive
  definition computes takes induction over data, which cannot be instantiated for the
  installed provers.

The proofs about the in-memory queue do without induction over data: `Keep` selects by
places, and of the recursive functions there (`DeliverAll`, `DelayBatch`: one call
after the other) what holds at each place follows from a least place at which it would
not (`LeastOfSome`).

## 5. Not modelled, and the plan

Left out, and why:

* NoSQL: one adapter call per operation, and queries that are pure functions.
* `scripts/`: build and release tooling.
* File system: reading, writing and watching are single calls of the system in a
  `Task` or `Source`; patterns (`glob_match.ts`) are string matching and appear as
  the set of paths they match.
* Storage: presigned addresses. Kafka: administration of topics. RabbitMQ:
  exchanges and bindings, which exist before a message does.
* GitHub: pagination and the form of requests. Link checker: parsing of pages.
* The mapping of SQL and driver errors; the operators of `Task` and `Stream` that
  only map a value or an error; the sources that are one generator each.
* Calls that overlap on one database adapter (`db.ts:200`: the depth is read before
  the answer to BEGIN), and the statements of a callback that goes on after its
  transaction was aborted (`db.ts:265`).
* PostgreSQL's state of a failed transaction, in which all but ROLLBACK is refused.

What would come next:

1. An abstract at-least-once queue that the three adapters implement, and an
   ordered log for the two event logs. The adapters give different promises about
   late acknowledgements, so the abstract queue has to let a settled message come
   back.
2. Overlapping calls on one database adapter, with PostgreSQL's semantics.
3. A proof that the search of `Schedule` finds the next instant.
