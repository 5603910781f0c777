# Zenoh Explorer in TLA+

Zenoh Explorer is a desktop program: a UI thread that draws frames and sends
commands, and a worker thread that owns the Zenoh sessions and answers with
events. Nearly everything that can go wrong in it goes wrong between the two:
an answer that arrives after the question no longer matters, a flag of the UI
that outlives what it stands for, a subscription lost between two sessions.
These modules model the two threads and the channels between them, check them
with TLC on small instances, and prove the central facts with TLAPS for every
instance. The parts of the UI thread that take the samples - the message list,
the browse tree, the export store - and the panels with a state of their own
have modules beside these.

Paths below are relative to the crate, `src/src/`.

## The system

| Component | State | Operations | Hard behaviour |
|---|---|---|---|
| Worker loop, sessions (`worker/mod.rs`, `state.rs`, `session.rs`) | two sessions, discovery task, active and kept subscriptions, queryable task | one arm per command; `teardown`; a connect in two phases | the UI acts between the phases; a teardown aborts tasks without waiting for them; kept subscriptions are declared again one by one |
| Subscriptions (`worker/subscribe.rs`) | id counter, sample tasks | declare, end, forward samples | one operation, several answers; failures in the middle of a list |
| Publish (`worker/publish.rs`) | local store | one put, or one per 64 MiB chunk | exactly one answer on every path; chunks already sent when one fails |
| Query (`worker/query.rs`) | one task per query | get; forward replies; say when there were none | the tasks outlive sessions; replies can be dropped |
| Queryable (`worker/queryable.rs`) | the task and its cancel channel | enable, disable, serve | the task fails on its own, later, or after it was aborted |
| Pipeline (`worker/pipeline.rs`) | two bounded channels, one batch, the repaint request | blocking, non-blocking and moved-aside sends; batching | order and loss at capacity |
| Event processing (`events/mod.rs`) | status, rows, pending keys, publish status, alert, health | one arm per event; `end_pending_work`; `health_tick` | events of an old session in a new one |
| Panels (`app/layout.rs`, `ui/*.rs`) | the same, plus inputs | the clicks that send commands | what is enabled when |
| Ingest (`events/ingest.rs`, `types/limits.rs`) | message list, byte total, dedup table, rate window, pauses | dedup, list, evict, store; the controls of the messages view | accounting at the limits; copies from several sources that overtake each other |
| Chunk transfer (`transfer.rs`, the loop of `worker/publish.rs`) | export store, a transfer state per topic | insert, purge, expire, evict, reassemble | generations that mix; transfers that lose chunks, stall or fail in the middle |
| Browse tree (`types/tree.rs`, `ui/topic_tree.rs`) | tree with cached leaf counts, filter cache, open branches | insert, record a chunk, filter, draw | incremental counts; a throttled cache that must catch up without input |
| Alert banner (`app/layout.rs`) | the alert and the moment it was first drawn | raise, expire, dismiss | the frame in which it leaves must be asked for |
| Publish form (`ui/publish.rs`) | text, imported bytes, name, staged size, encoding | import, clear, expand, type, publish | six fields about one payload |

The worker receives one command at a time and awaits its handler; the tasks it
spawned run meanwhile. Commands travel in an unbounded channel. Events travel
through a channel of 10,000 places, a buffer thread that batches samples, and a
channel of 256 places to the UI. The UI processes what has arrived at the start
of a frame and lets the user click afterwards.

What makes the components correct: the UI's rows are the worker's
subscriptions; every wait it shows has an answer under way; no flag outlives
what it stands for; subscriptions survive a reconnect; the pipeline is one FIFO
that loses samples only when it counts them; an exported file is one
publication, whole; the list's byte total is the sum of its rows; a cached leaf
count is the number of leaves.

## The modules

- `Channels` holds the two channels. `cmds` is the command channel; `events` is
  the whole event pipeline as one queue of `EventCapacity` places. `Command` and
  `Event` keep the fields some handler branches on. Samples are left out, except
  query replies, which the alert of the query panel reacts to. `Post` is the
  UI's send (it fails when the worker is gone), `Emit` the worker's.
- `Worker` is `zenoh_worker` with its handlers and tasks. `pub`, `monitor`,
  `active`, `kept`, `discovery` and `queryable` are the fields of `WorkerState`.
  `handle_connect` is four kinds of step, cut where it awaits and the UI can see
  the difference: `StartConnect` (teardown), `PublishingOpens` or
  `PublishingFails`, `MonitorReturns`, and one `Redeclare` per kept
  subscription; `redeclaring` is the list `mem::take` took. The other arms are
  one step each. A query's task is a state per selector; an aborted task that
  was past its last await is a member of `aborted` and may still send.
- `Ui` is the UI thread: one action per click that sends a command or changes
  what the events change, one per match arm of `process_events`, and the three
  things `health_tick` does (a ping goes out, a ping times out, a stall of the UI
  forgets the ping), with the clock abstracted to "may happen now".
- `Explorer` composes the two and states the properties.
- `Subscriptions` is the abstract specification of the worker's promise about
  user subscriptions; `Explorer` implements it (`SubscriptionsKept`), with
  `active`, `kept` and `redeclaring` together as the abstract set.
- `MCExplorer` instantiates `Explorer` for TLC.
- `Pipeline` looks inside `events`: the worker's channel (`wq`) with its senders,
  the buffer thread (`hand`, `batch`, and its place `bpc`), the UI's channel
  (`uq`), and the frames that drain it (`wake` is egui's repaint request). An
  item is an event reduced to its number, in the order of acceptance, and
  whether it is a sample. `Flush` is every non-empty call of the closure `flush`;
  `WindowOver` and `Closed` skip the empty ones. `owes` separates a send to the
  UI from the `notify()` after it, because a frame may fall between the two.
- `EventFifo` is what `Channels` takes the pipeline for: one bounded FIFO.
  `Pipeline` implements it (`FifoImplemented`), with its four places one behind
  the other as the abstract queue. TLC needs no module of its own for it.
- `Transfer` is a file transfer from end to end: `BeginChunks`, `ChunkArrives`,
  `ChunkLost` and `PutFails` are the loop of `handle_publish` in copies of this
  program; `InsertChunk` and `InsertPlain` are the two halves of
  `insert_payload`; `RecordChunk` is the tree's `record_chunk`; `NewestGroup`,
  `SaveOffered` and `Exported` are what the details panel and Save File read. A
  stored chunk is a record of its key's fields, its length, and its publication,
  which the program does not know. `streak` is history.
- `Ingest` is `process_single_message` and what it calls. `Process`, `Deduped`
  and `Reply` are its three ways through; `EditControls` and `Clear` are the
  controls. Publications are fixed in `Init` and brought by each source in
  order. `accepted` and `uncounted` are history.
- `BrowseTree` is the tree panel: `Receive` is `insert_path` with `update_data` or
  `record_chunk`, `Draw` the panel's filter block and `show_tree_node`. The
  frames somebody asked for (`repaintIn`) are part of the state.
- `Banner` is the life of `ui_alert`, with the same account of frames.
- `PublishForm` is the fields of the Publish tab; its text box is modelled by
  where its text comes from.
- `Panels` is those three side by side. They share no state, so that a behaviour
  of it follows the user in one of them; one run checks all three.
- `MCTransfer`, `MCIngest` and `MCPanels` instantiate them for TLC.
- `ExplorerProofs`, `SessionProofs`, `PipelineProofs`, `TransferProofs`,
  `IngestProofs` and `PanelsProofs` hold the theorems; `QueueOrders` the lemmas
  about FIFO queues that `SessionProofs` rests on; `SumLemmas` induction, and
  the lemmas about sums over finite sets that the others use.

Operators named as the mutant of another (`KeptCloned` of `KeptAfterTake`, and
so on) are the plausible mistakes the properties are known to catch; nothing
else uses them.

### Abstractions worth knowing

- Whether a Zenoh operation succeeds is a free choice. The publishing open and
  the monitor open end by their own 30 and 15 second timeouts; a declare, a put
  and a close are taken to return, as the code takes them to.
- A handler's uninterrupted sends are one `Emit`, which waits for room for the
  first; `events` may exceed `EventCapacity` by one.
- A key has been trimmed and validated; ids are the numbers behind `sub_{n}`.
- A frame's batch of events is processed one event per step, which allows a
  click between two of them: more behaviours than the program has.
- `Dies` is a panic of the worker thread. Queued commands are lost, events
  already sent are delivered. It is enabled by `MayDie`. A panic of the UI
  thread or of the buffer thread ends the program or is out of the model.
- The user may click anything that is enabled. Two bounds are on the user:
  at most `MaxCmds` commands in flight when he clicks, and two queries under way
  at once have different selectors (`QueryIsOver`). `MaxSubs` bounds the
  subscriptions ever made, `MaxUpdates` the discovery updates queued.
- In `Transfer` a sample arrives in the step that puts it, or never. One
  publisher's chunks so arrive in order, as its puts do; those of two interleave
  freely. The publishers cut with the receiver's `CHUNK_SIZE`, so no chunk's
  metadata is insane and the last index fits its total; `IsSane` is evaluated
  all the same. A store's clock shows the time of arrival, and a tie between two
  entries of one instant, which a hash map breaks, is a free choice.
- `Ingest` keeps one value per key where `Transfer` has the store's evictions:
  `SaveMatchesTree` is about which samples reach the store, and holds of a topic
  as long as its entry is not evicted there. The capacities that
  `calculate_size` adds up are one size per content.
- In `BrowseTree` a path is its segments and a filter matches whole segments. The
  root's own name is not a segment. Nodes never leave the tree, as in the code.
- egui draws the earliest frame that was asked for, and input brings one at once.
  The idle repaint is left out on purpose: what the three panels promise must
  not wait for it.

## The runs

`pipeline` is an instance of `Pipeline` itself, `transfer` and `torn` of `MCTransfer`,
`ingest` and `toggle` of `MCIngest`, `panels` of `MCPanels`, all others of
`MCExplorer`, whose constant `Panels` selects which panels the user touches, so
that each run spends its states on one question.

| Run | Instance | Shows |
|---|---|---|
| `subscriptions` | 2 keys, 2 subscriptions, 3 commands, 3 events | types; the worker's bookkeeping; Connected means there is a session and nothing queued ends it; rows match the worker once the queue is processed; a pending key has its answer under way; refinement of `Subscriptions` |
| `services` | publish, queryable, health check; the worker may die | "Sending" has its answer under way; the end of a session never finds work of the next one; "monitor off" is true; "Active" beside the queryable is true |
| `queries` | 2 selectors, pipeline of 2 | "Waiting for responses" has something to wait for, and ends |
| `liveness` | subscribe, publish, health; the worker may die | connect attempts, publishes, unsubscribes and unhealthy verdicts end |
| `pipeline` | 2 senders, channels of 2, batches of 2, 7 items | refinement of `EventFifo`; nothing lost or reordered; the buffer thread sleeps empty-handed; no wake-up is lost; what is accepted arrives, also after the worker's end; no sender waits for ever; both threads end after the UI |
| `transfer` | 3 topics, 2 publishers, 3 publications of 1, 2 or 3 chunks, a store of 2 plain entries and 4 bytes, stale after 2 of 3 ticks | an offered Save succeeds (`SaveWorks`); an undisturbed transfer is kept; the tree's progress covers the store; plain entries keep number and bytes and the oldest goes |
| `ingest` | 2 sources, 3 publications of 2 contents on a topic and a chunk key, a reply, a change of the controls, lists of 1 or 2 rows, 2 or 3 bytes, window and rate of 2 ticks | the byte total and every counter add up; Save matches the tree; copies count once; the list grows within its limits |
| `panels` | 5 nested topics, 3 filters, 3 samples, a throttle of 2 ticks; 3 kinds of alert raised 4 times; 2 files, 2 texts | leaf counts are exact; a lagging filtered tree has a frame coming, and its picture is right again and again; a banner keeps its time; the form's fields agree |
| `subscribe_twice` | 2 keys, 3 subscriptions | violation: see below |
| `dead_worker` | publish, health; the worker may die | violation: see below |
| `torn` | as `transfer` | violation: see below |
| `toggle` | 2 sources, 3 publications, no clock, no controls, wide limits | violation: see below |

The bounds are chosen so that every interesting case occurs: three commands in
flight hold a Disconnect, a Connect and one request behind them; two
subscriptions are enough for one to be re-declared while the other fails, and
for one to be active while the other is kept; a pipeline of two or three places
is full often. Seven items fill every place of the pipeline (two messages in the
UI's channel, a batch or an event in the buffer thread, two items in the
worker's channel) with a sender waiting besides. `MaxDrops` bounds the dropped
samples counted.

Three topics let one transfer run while a second goes stale and a third makes
room; payloads of three chunks have a first, a middle and a last one, and the
last is shorter for size 5 and full for size 4. Three publications brought
twice, with a window of two ticks in a clock of two, give every order of copies
inside the window and at its edge; limits of one and two rows make every
eviction happen and the two limits disagree. The five topics hold a topic with
others below it, siblings, and one sample that makes two levels. `MaxTime`,
`MaxPublications`, `MaxReplies`, `MaxEdits`, `MaxSamples`, `MaxAlerts` and the sets
of sizes, contents, filters and files are the bounds of those modules.

Deadlock is not checked where the bounds or the program end a behaviour:
`pipeline`, where the program may end, and `transfer`, `ingest` and `panels`,
where the publications and the clock run out. Between them the runs take every
action.

**Fairness.** `FairSpec` assumes that the worker's loop (`LoopStep`) and the end
of a query's replies (`RepliesEnd`) are strongly fair: both wait for room in the
pipeline, which other senders may take again and again, and `SyncSender::send`
queues its waiters, so a waiting sender gets its turn. Event processing and the
sending of pings are weakly fair, because the UI repaints at least every idle
interval. The user and everything that may fail owe nothing: no fairness makes
an open or a declare succeed.

In `Pipeline` the buffer thread and a frame's draining are weakly fair, a frame
is owed only when one was requested (never by the idle tick, so that the runs
show the requests suffice), a waiting sender is strongly fair for the reason
above, and the worker leaves its loop once the UI has dropped the command
channel, as `recv_timeout` then fails.

In `Panels` a frame that was asked for is drawn (weakly fair, egui's promise), and
time passes however much the user clicks (strongly fair, because clicks can
disable it again and again). No sample, no key stroke and no idle frame has to
come.

### What the code does not keep

- `subscribe_twice`. `OperationFailed(Subscribe)` names no key, and
  `events/mod.rs:151` clears every pending key. With one Subscribe failing and a
  second one just sent, the second key is offered again, and ends up with two
  rows. The comment on `subscribe_enabled` (`ui/topic_tree.rs:1068`) says it is
  enabled only when no pending Subscribe has the key.
- `dead_worker`. `health_tick` notices a dead worker by a failing send of a
  Ping, and sends one only when no Ping is out (`events/mod.rs:189`). A worker
  that dies between a Ping and its Pong, as one that dies in a long handler does,
  is never noticed: the header blames a busy worker and the publish stays
  "Sending", unless the UI stalls and forgets the Ping.
- `torn`. A generation is its size and its number of chunks (`transfer.rs:115`).
  While a file of the same size as the last one comes in, the first chunks of
  the new and the last ones of the old are one complete group: the panel says
  "All chunks received" and Save writes both into one file. The README says a
  transfer is reassembled "with progress shown until every chunk has arrived".
- `toggle`. A sample is dropped as a copy when another source recorded its like
  within the window, whatever came in between (`types/limits.rs:56`). Of `a, a, b`
  from two sources, the slower one's second `a` can be counted after the faster
  one's `b`, and its `b` dropped: the tree stays at `a`, although a node keeps
  "the last received message for that key path" (`types/tree.rs:36`).

## The proofs

`ExplorerProofs` proves for every `Keys`, `Selectors`, `Panels` and all bounds:

- `TypeCorrect`: `Spec => []TypeOK`. One lemma per group of actions (the loop,
  the tasks, the clicks, the events, the health check), each from lemmas about
  the queues: the head of a well-typed queue has the fields its tag promises,
  and what a handler sends is an event.
- `BookkeepingHolds`: `Spec => []WorkerConsistent`. `WorkerConsistent` is
  inductive together with `TypeOK`. Its conjuncts need each other: that ids are
  unique needs every id to be below `nextId`; that a session opens with no active
  subscription needs that there are none without a session; that re-declaring
  does not double a subscription needs `kept` to be empty while a session is
  ready.
- `SubscriptionsImplemented`: `Spec => SubscriptionsKept`. Teardown and the
  `mem::take` only move subscriptions between the three places; a step that ends
  one is `Unsubscribe`, of an id whose command was in the queue, or a `Redeclare`
  that failed.

`SessionProofs` proves the invariants of `Explorer` that relate the contents of both
queues to the worker and the UI. None of them is inductive: that an event cannot
arrive is a fact about the commands and events before it. `QueueOrders` names what
a queue can say (it holds something of a class; at most one; none of A after a B;
some A before every B; every A has a B after it; the last of R is an A), with one
lemma each for receiving and for sending. The inductive invariants are:

- `Handshake` (`HandshakeInOrder`): the commands' order, the events' order, and
  `Stages`, one conjunct per place where a session's command, await or event can
  be, with all that is excluded meanwhile. A step is either aside (it neither
  starts nor ends a session, and keeps every order) or one of the steps of a
  session, which have lemmas of their own. It gives `ConnectedMeansSession`.
- `MonitorReported`: a failed monitor is reported between the session's
  `PublishingConnected` and `MonitorConnected`, so the flag is right by the time
  the UI says Connected. It gives `MonitorFlagTruthful`.
- `AnswersFirst` (`AnswersComeFirst`): the command of a pending publish or
  subscribe is queued, or an answer is, before any event that ends a session; or
  the worker is dead and none is queued. It gives `SendingHasAnswer`,
  `PendingHasAnswer` and `EndOfSessionFindsNothingPending`, whose commands are
  excluded by `Stages`.
- `BoxTold` and `NoticeTold`: while no end of the session is on its way, the last
  command about the queryable declares it, or the worker runs it, or its failure
  is queued; and a notice that waits has its command, its task, an answer or a
  dropped event. They give `ActiveQueryableRuns` and `WaitingQueryHasAnswer`.
- `RowsTold`: per id the last word, queued or shown, is the worker's, and every
  row and every announcement has the key of the id. It is inductive with
  `WorkerConsistent`, without which two subscriptions could share an id, and the end
  of one would remove the other's row. It gives `RowsMatchWorker`.

`PipelineProofs` proves for any senders, capacities, batch size and bounds:

- `PipelineTypes`: `Spec => []TypeOK`, with the limits of both channels and of the
  batch. The batch's limit is inductive only with what `QueuesTypeOK` adds: it is
  reached nowhere but on the way to a flush. The flags are a part of their own
  (`FlagsTypeOK`).
- `OrderKept`: `Spec => []InOrder`. `InOrder` is inductive given the types. One
  lemma says what forwarding a message does to the UI's channel, one what
  accepting an item does to the worker's, one what taking a message does; the
  buffer thread's other steps only move an item from one place to the next.
- `SleepsHolds` and `WakeUpsHold`: `SleepsEmptyHanded` and `NoLostWakeUp`, each
  inductive given the types.
- `OneFifo`: `Spec => FifoImplemented`. The abstract queue is the concatenation of
  the UI's messages, the batch, the thread's hand and the worker's channel
  (`Held`). What the community modules' `FlattenSeq` does to a message appended or
  taken is proved from its definition, which chooses a recursive function: that
  the function exists is an induction of its own. A step of a sender is `Accept`;
  the buffer thread only moves items from one part to the next, which leaves the
  concatenation as it is; taking a message is `Deliver` of its items; and the
  steps that throw items away come after the UI is gone. That an accepted item
  finds room in the abstract queue needs `Room`: no message is empty or longer
  than a batch.

`TransferProofs` proves for any topics, publishers, sizes and limits:

- `UndisturbedIsKept`: `Spec => []UndisturbedSavable`. The inductive invariant
  `RunInv` says what a chunk loop and a stored chunk look like, that a run's last
  chunk belongs to the publication whose loop may go on with it, and that the
  whole run is in the store while it is not stale (`StreakHeld`). That a chunk of
  a loop `IsSane` comes down to one arithmetic lemma about the rounded-up
  quotient. The step that matters is the collection: a group is dropped only
  when every chunk of it is old, and the run's last one is not.
- `ProgressCoversStore`: `Spec => []StoreWithinTree`. A chunk that resets the
  tree's state purges the topic's other chunks in the same step, and everything
  else only removes chunks or adds to the progress.
- `TransferTypes`: `Spec => []TypeOK`. Its inductive form `TypesInv` adds what the
  types do not say: a loop that goes on is of a chunked size and has a chunk
  left, and a stored chunk has the length its index cuts it to (`CutOK`).
- `SaveIsNeverRefused`: `Spec => []SaveWorks`. As the tree keeps one transfer of a
  topic, `StoreWithinTree` leaves the topic one group in the store, so that the
  newest group is the one the button counts. Its lengths add up to the announced
  size: by induction the first `k` chunks have `k * ChunkSize` bytes, and the last
  one has the rest (`CutOK`).
- `OldestMakeRoom`: `Spec => PlainMakesRoom`, from the invariant `PlainFits` (the
  store is within both its limits). The eviction by number takes one entry only,
  which is enough because the store was within its number before, and because
  an entry that is replaced leaves a place as well.

`IngestProofs`:

- `CopiesCountOnce`: `Spec => []CountedOnceAtMost`. Its invariant `DedupInv` says
  of every counted sample that within the window its record is still in the
  table, under the source that counted it: the sweep spares younger records, and
  only the same source can renew it, since another one's like is a copy.
- `SaveWritesTheTree`: `Spec => []SaveMatchesTree`.
- `IngestTypes`: `Spec => []TypeOK`, with one record per sample in the deduper.
- `HeaderIsExact`: `Spec => []HeaderAddsUp`, inductive given the types. The bytes of
  a list are those of any first part and of the rest, by induction over the
  part's length; so what a trim subtracts is what the rows it takes away had, and
  the subtraction that saturates at 0 in the code never does. On the other side
  a sample adds one to the tree's sum and is a row, trimmed, over the rate or of
  a paused topic.
- `ListKeepsItsLimits`: `Spec => GrowsWithinLimits`. The loop that evicts for memory
  ends with an empty list or below both limits; what the one eviction for the
  count takes away after it can only lower the bytes.

`PanelsProofs` proves the facts of each panel by itself, for any segments, topics,
filters, alerts and files, and then of the window:

- `StaleTreeIsRepainted`: while the tree panel runs, `[]StaleMeansRepaint`
  (invariant `RepaintInv`: one cached filter result, no older than the interval,
  and one frame asked for at most).
- `TreeCountsItsLeaves`: `[]LeavesCounted`. The code does not count leaves: it
  walks down and adds one to every node on the way, unless the node it attaches
  the path to was a leaf before. `TreeInv` says that the nodes are a finite set of
  paths with a root, which has every prefix of its paths. The node a new path is
  attached to is then the longest prefix of it that is there; everything between
  the two is new and has the new path as its one leaf; and above it the number
  of leaves grows exactly when that node was no leaf.
- `BannerTimes`: a stamp is as old as its alert has been shown and has a frame
  coming at the end of its life (`BannerInv`).
- `FormKeepsTogether`: `FormConsistent` is inductive with the form's types.
- `PanelTypes`, `WindowRepaints`, `WindowCounts`, `WindowTimes` and
  `WindowFormAgrees` carry these to the composition that the run checks: each of
  its steps is a step of one panel and a stutter of the others.

Where something is counted or summed, the proofs use induction in the form of
`CountingUp` (`SumLemmas`): a set that contains 0, and `n + 1` with `n`, contains every
natural number. It follows from two theorems of the library that take sets and
relations, where its induction theorems take operators, which the provers
here cannot instantiate: the order of the naturals is well-founded, and under
such an order every nonempty set has a minimal element. From it come that
`SumFunctionOnSet`, which adds in an order that CHOOSE picks, gives the same
whichever element is added last, that a part sums to no more than the whole, and
that a finite set of numbers has a maximum. `Received`, `BytesOf` and `Bytes` are
written as such sums for that reason.

The constants' assumptions are the ASSUMEs of the modules, which TLC evaluates on
every run; the proofs rest on nothing else. Of those, the proofs about data use
that a topic is a sequence of `Segments`, and that the keys and the limits on
offer are finite sets: the program has met finitely many keys, and clamps each
limit to a range (`ui/messages.rs:124`, 132, 140).

Every safety invariant and action property of the passing runs is so proved for all
constants, and so are both refinements. Only model-checked is liveness, which the
prover cannot reach because fairness is about ENABLED: `WaitingEnds`, `ConnectEnds`, `SendingEnds`,
`UnsubscribeEnds`, `WorkerRecovers`, `EverythingArrives`, `SendersReleased`, `ShutdownEnds`
and `PictureCatchesUp`.

## Plan

In order of importance:

1. (done) `Channels`, `Worker`, `Ui`, `Explorer`, `Subscriptions`, with their
   runs and the three theorems above.
2. (done) `Pipeline` and `EventFifo`, with one run and five theorems, the refinement
   among them.
3. (done) `Transfer`, with two runs and five theorems.
4. (done) `Ingest`, with two runs and five theorems.
5. (done) `BrowseTree`, `Banner`, `PublishForm` and `Panels`, with one run and
   nine theorems.
6. (done) The invariants of `Explorer` over both queues: `QueueOrders` and
   `SessionProofs`, with ten theorems.
7. (done) Sums and counts over data, and the types of every module: `SumLemmas` and
   the theorems that rest on it.
8. A safety half for each promise that only TLC checks so far: that while a wait
   goes on, the step that brings it nearer to its end stays possible, as a state
   predicate without ENABLED.
9. The local store and what the built-in queryable answers from it
   (`matching_entries`), with publishes and queries in flight.

## Not modelled

Not planned: the building of a Zenoh configuration from the form
(`worker/connect.rs`), conversions and previews of single values
(`worker/samples.rs`, `payload.rs`, `events/json_cache.rs`), input validation,
file names and the write of an exported file, the history of a topic and the
text filter of the messages (`ui/messages.rs`, `ui/topic_tree.rs`), the memory
readout, help, theme and everything else that only draws. They are sequential
functions of one input, with no state the others share, and unit tests reach
them.
