# daqingest in TLA+

daqingest is a daemon that subscribes to EPICS Channel Access channels, turns
their events into database rows and keeps doing so while IOCs come and go.  It
is a set of asynchronous tasks that own their state and talk over bounded
queues, so the behaviours worth checking are the orders in which messages and
wake-ups come, what happens at a full queue, and what a task that ends leaves
behind.  This directory holds TLA+ models of those tasks, the TLC
configurations that check them, and proofs of the results that should hold for
any number of channels, addresses and queue places.

Line numbers in comments and in `PROJECT.json` refer to the source tree.

## 1. Inventory of the system

| Part | Source | State it keeps | Operations |
|---|---|---|---|
| Daemon | `daqingest/src/daemon.rs` | `shutting_down`, the last health report, its event queue (32) | timer tick, channel add and remove, set item, shutdown |
| CaConnSet | `netfetch/src/ca/connset.rs`, `statemap.rs` | `channel_states`, `ca_conn_ress`, `shutdown_stopping`; event queue (10000) | the ten handlers of `handle_event`, `run`, `ca_conn_item_merge` |
| CaConn | `netfetch/src/ca/conn.rs`, `senderpolling.rs` | connection state, channels, `init_state_count`, insert queue, lookup queue, ticker; command queue (32) | `poll_next` and everything below it |
| Series lookup | `dbpg/src/seriesbychannel.rs`, `batchtools/src/batcher.rs` | the batch being collected, the query in the database | batch, select, insert missing, answer |
| Address finder | `netfetch/src/ca/finder.rs` | batches of names | query and answer |
| UDP search | `netfetch/src/ca/findioc.rs`, `search.rs` | channels to search, batches in flight, search ids, send queue and buffer | `push`, `poll_next` |
| Channel Access protocol | `netfetch/src/ca/proto.rs` | receive state, input buffer, output queue | `poll_next`, `parse_item`, `attempt_output` |
| Byte buffer | `slidebuf/src/slidebuf.rs` | array, read and write position | put, read, `wadv`, `adv`, slide |
| Event insertion | `conn.rs` 1020-1272 | msp/lsp split, insert interval | `handle_event_add_res` |
| Time binning | `netfetch/src/timebin.rs`, `patchcollect.rs` | collected events, the bins of a patch | push, tick, `ingest` |
| Insert workers | `scywr/src/insertworker.rs`, `daemon/inserthook.rs` | back-off | take an item, write it |
| Schema migration | `dbpg/src/schema.rs`, `scywr/src/schema.rs` | what is there | check, make |
| ZMTP (bsread) | `ingest-bsread/src/zmtp` | connection state, frames | `loop_body`, `parse_item` |
| Store, Postgres, HTTP, statistics, configuration | `scywr`, `dbpg`, `netfetch/src/metrics.rs`, `stats*`, `conf.rs` | none that controls anything | I/O |

How they interact:

    HTTP / ticker / config --> Daemon --connset_tx--> CaConnSet
    CaConnSet --channel_info_query_tx--> series lookup --connset_tx--> CaConnSet
    CaConnSet --search_tx--> finder --connset_tx--> CaConnSet
    CaConnSet --connset_tx--> itself
    CaConnSet --command queue--> CaConn --merge task, connset_tx--> CaConnSet
    CaConn --channel_info_query_tx--> series lookup --command queue--> CaConn
    CaConn <--TCP, SlideBuf, CaProto--> IOC
    CaConnSet --connset_out--> adapter --> Daemon
    CaConnSet --storage_insert_tx--> hook --> insert workers --> Scylla

What is hard, and the property that makes each part correct:

* **CaConnSet**: everything comes through one queue, which the set also sends
  to.  The end of a CaConn is only an event in that queue, so everything handled
  before that event works with a CaConn that is no more.  Correct: the map of
  CaConns agrees with the tasks and the queued end events; a channel is given to
  one CaConn, once; a removed channel stays removed; a shutdown reaches every
  CaConn; nothing but the own full queue, and a report that nobody takes, brings
  the system to a standstill.
* **CaConn**: a hand-written state machine inside a poll function, where a
  missing wake-up stops the task and a state that changes between two polls makes
  an `unwrap` panic.  Correct: it acts as the command-taking, finally ending
  stream that the set awaits; it announces every channel; it never overlooks or
  counts twice a channel that waits to be created; it does not drop data at its
  end.
* **Byte buffer**: positions that slide.  Correct: it is a FIFO, and refuses only
  what does not fit.
* **UDP search**: answers are late, repeated or missing.  Correct: each channel
  pushed is reported once per push, unless a datagram kills the search.
* **Series lookup**: a batch has known and unknown channels, workers insert the
  same channel at the same time, and the database fails.  Correct: a query is
  answered once with its own series, or lost, and lost only for a cause that can
  be named.
* **Channel Access protocol, ZMTP**: messages cut anywhere by the socket, output
  that blocks, wakers.  Correct: messages come out whole and in order, and the
  task never sleeps on what it could do.
* **Daemon and insert pipe**: two queues in opposite directions between daemon and
  set, a ticker that waits for the daemon, stages that end when their senders are
  gone.  Correct: a signal ends the daemon, and then nothing is left on the way.
* **Event insertion**: a partition is found only by a row that one item of it
  writes.  Correct: what is stored is found.
* **Time binning**: bins are taken apart at patch edges.  Correct: no bin is lost,
  and a patch that is finished alone is where it is looked for.  One that is
  finished together with another is not (section 4).
* **Migration**: daemons race and crash.  Correct: a daemon that runs has its schema.

## 2. Plan

| | Modules | About | State |
|---|---|---|---|
| 1 | `ConnSet`, `ConnSetProofs` | the set, its queues, its CaConns as seen from outside | done |
| 2 | `CaConn`, `ConnStream`, `CaConnProofs` | one CaConn; the stream it implements | done |
| 3 | `SlideBuf`, `ByteFifo`, `SlideBufProofs` | the byte buffer; the FIFO it implements | done |
| 4 | `FindIoc`, `FindIocProofs` | the UDP search for addresses | done |
| 5 | `SeriesLookup`, `LookupService` | batcher and lookup workers; the service that 1 and 2 rely on | done |
| 6 | `PatchCollect`, `TimeBin` | patches and their rows | done |
| 7 | `InsertPipe`, `Daemon`, `DaemonProofs` | event loop, ticker, signals, shutdown; the way of the items to the database | done |
| 8 | `EventInsert` | partitions and grid cells, extra inserts, the rows a worker writes | done |
| 9 | `CaProto` | the protocol stream between socket and CaConn | done |
| 10 | `Zmtp`, `Migrate` | the ZMTP stream; the schema migration | done |
| 11 | `ConnSetProofs` | `AddedOnceWhereKnown`, `RemovalIsFinal`, `ShutdownReachesEveryConn`: the first two need an invariant over a channel's way through the set | done |
| 12 | `CaConnProofs` | `LookupAnswersItsChannel`, `DataYieldedBeforeEnd`, the safety part of `ImplementsStream` | done |
| 13 | `SeriesLookupProofs`, `CaProtoProofs` | the lookup refines its service; framing for any number of messages, no wake-up missed | done |
| 14 | `StoreProofs` | the schema; partitions and cells of the events, whatever is stored is found | done |
| 15 | `ConnSetProofs` | the two standstills of the set: no other queue brings the tasks to one, by the guards of the actions | done |
| 16 | `StoreProofs`, `SlideBufProofs` | no bin is lost and which patches are found, for any size of a patch; messages are whole, for any frames: induction over sequences, by hand | done |

## 3. The modules and the code

### ConnSet

`CaConnSet::run` takes one event at a time, so a handler is one action,
`Handle...`, named after the function it models.  Where a handler awaits a send
or a join, it leaves that in the variable `out`; the actions `SendSelf`,
`SendLookup`, `SendSearch`, `SendHealthy`, `SendCommand`, `SendCommandFails` and
`Join` complete it when there is room (or the receiver is gone), and no event is
taken before `out` is empty.  This is where the tasks interleave in the code.

| Variable | In the code |
|---|---|
| `evq` | `connset_tx` / `connset_rx` |
| `setpc`, `stopping` | how far `run` is, `shutdown_stopping` |
| `chst` | `channel_states`; the wait states for an address and the address itself |
| `ress` | the keys of `ca_conn_ress` |
| `phase`, `cmdq`, `hold` | a CaConn's task, its command queue, its merge task awaiting a send |
| `lookups`, `searchq`, `finding` | the lookup pipeline, `search_tx`, the finder's batches |
| `outq` | the reports in `connset_out_tx` and with the adapter task of `daemon.rs:118` |
| `sending`, `gone`, `crowded` | the daemon: the send to the set that its handler awaits, whether it has left its loop, whether its own queue is full |
| `sent` | history: at which addresses each channel was added |

A name is a model value, an answer of the finder a function from the names of its
batch to addresses or `NoAddr`.  Sends that a handler makes one after another in
an order the code does not fix (rows of the database) may complete in any order.
In `handle_ioc_query_result` the channel states are updated between these sends;
the model updates them at once, which nothing can see since only the set reads
them.  The handlers' early returns on `shutdown_stopping` are dead code: `run`
leaves its loop right after the Shutdown event.  `storage_insert_tx` is always
taken from by the insert workers and is left out.

The daemon awaits its sends to the set one at a time (`CtrlSend...`, `CtrlSent`), and
takes nothing from its own queue in the meantime, nor after its loop.  So this queue
may fill up then (`CtrlCrowds`), and the adapter cannot pass the set's reports on
(`CtrlReceive`) until a handler is done (`Passes`), which never comes once the loop
has ended.  `Daemon` has that queue place by place.

### CaConn

One iteration of the loop in `poll_next` is cut into the parts named in `task`,
between which other threads may act.  `Wake` says which wakers the sleeping task
has registered: `cmdWaker` is true only if the last poll of the command queue
found nothing, `ticker` is `"spent"` if the 500 ms sleep has elapsed and was not
made anew, `selfWoken` is `wake_by_ref`.  `TriggerShutdown` is
`trigger_shutdown` with `channel_state_on_shutdown`.  A panic on unwrapping the
protocol is `task = "panicked"`.  The environment consists of the set (commands,
none after Shutdown), the lookup pipeline, and the IOC, which answers what it was
asked, now and then twice, and may close or garble the connection at any time.
It does not answer with ids it was never given.

The contents of what is inserted are in `EventInsert`, the protocol below in
`CaProto`.  `insert_queue_max`, the pings, the CheckHealth and ChannelRemove commands (which
nobody sends) are left out.

`ConnStream` is what the CaConnSet relies on: commands are taken in order, a stop
is final, and a stopped stream ends.  `CaConn!Stream` maps a CaConn to it.

### SlideBuf

The methods as actions over `buf`, `rp`, `wp`.  `rewind` and `rewind_if_needed`
are operators on a buffer taken as a value, because the writers call them one
after the other.  `AvailableWritableArea` includes what the caller does with the
slice it gets: it fills a prefix, which `filled` remembers until `Wadv` commits
it.  `ByteFifo` is the promise: bytes past, content, and bytes filled but not
committed.

### FindIoc

One turn of the loop in `poll_next` is cut at its parts (`task`); between two
polls the socket may become writable and batches run out of time.  A channel
stands for its search id, a batch for its number; `batchOf`, `inFlight`, `left`
and `answered` are what `in_flight` holds of the batches, `index` the keys of
`bid_by_sid`.  `Poll(cut)` is `clear_timed_out`, where the batches up to `cut` are
out of time: they are made in the order of their ids.  A datagram is a sequence
of channels that some datagram sent has asked for, at any later time and any
number of times; unknown ids have no effect and are the empty sequence.  A datagram
without one whole message makes `try_read` index a message that is not there:
`ReadPanics`, after which the task is `"panicked"`.  The first datagram sent is the 1024 zeros that `buf1` starts
with.  What a datagram that was sent contains beyond its channels, and which
target gets it, is left out, as are the statistics (`bids_all_done`,
`bids_timed_out`, `sids_done`) and a search that does not stop when its queue is
empty, which `ca_search` does not use.

### SeriesLookup, LookupService

The batcher is `recv` or `emit`; `all` is the batch it collects, which it sends
when `Limit` is reached or time passes, and drops when its input closes.  A
worker goes through `work`: select, and if keys are missing, insert and select
again; `wk[w].found` has what it found so far, in order.  `WorkerFails` is a
database error or a receiver that is gone: the worker ends.  When all workers have
ended the queries left are lost.  A new series is any that no channel has (the
code draws it from a hash, and the unique constraint refuses others).

`LookupService` is what ConnSet and CaConn assume of the pipeline: a query is
answered at most once, with the series that the database keeps for its key, or
lost.  `SeriesLookup!Lookup` maps the pipeline to it.

`Rows(table, keys)` is what a select returns: the keys of the batch that the table
has, as a sequence whose rows are numbered by `RowNo`.  The answers to a batch go
by position, which is why a batch of which some keys are known and others not loses
the queries behind the gap (`Meets`).  There is at least one worker
(`daemon.rs:99` starts four).

### CaProto

Bytes are counted.  `arrived`, `taken` and `pos` are positions in the peer's
stream: what is at the socket, read into `buf`, parsed.  A turn of `loop_body` has
the steps `"place"` (the output queue into `outbuf`), `"flush"` (to the socket) and
`"read"`; `readWaker` and `writeWaker` are what the last attempts have registered
with the socket, `Tick` is the CaConn's ticker, which polls the stream every
500 ms.  A message is a head, perhaps extended, a payload, and whether `CaMsg` can
decode it.  `IoFails` is an error of the socket, which ends the stream.  As in the
code, the payload of an extended message is read with the length that the standard
head has, 0xffff.

### InsertPipe and Daemon

`InsertPipe` has the queues between `storage_insert_tx` and the database as counts,
the hook that forwards items, and the insert workers; `Daemon` extends it.
`loop` is the place in the daemon's loop: a handler's awaits on the set's queue
are `tosend`, and no event is taken before it is empty.  `ticker` is the ticker's
task: it sleeps, posts a `Shutdown` if there was a signal, then a `TimerTick`, and
awaits the token that the daemon gives back after handling it (`tokens`).  Of the
set, only its queue and the two sends in which it may wait are here, its reports
(`outq`, forwarded by `adapter`) and the items it stores.  `SetError` is the end
of the set that `ConnSet` describes.  The daemon ends after `join`, when the insert
workers have ended, which they do when the only sender of the insert queue, the
set, is gone, and the hook after it.  The rate limiter in the pipe is left out: the
daemon switches it off (`daemon.rs:153`).

### EventInsert

`st` is the part of `CreatedState` that says where an event goes.  `DoEventInsert`
is all that one event causes: its extra inserts, the last one first, then itself,
each `EventAddInsert` with the partition captured before them.  A worker writes
up to three rows for an item (`WorkerWritesMsp`, `Grid`, `Data`), may fail at each,
and several workers do so at the same time.  Queue and hook are one sequence here,
since `InsertPipe` has them.  `ts_lsp` keeps its width: it is computed modulo
`Wrap`.  The moving average behind `insert_next_earliest` is a choice of the pause.
`Inserts(ts)` is a function of the number of the insert, from the last copy down to
0, the event itself; `Due` says which copies an event has.  The constants are as in
the code up to a scale: a partition starts at multiples of 10 s and is taken for an
hour (`Div <= Hour`) or 64000 events, which is less than 2^64 (`MaxInMsp < Wrap`).

### PatchCollect, TimeBin

`PatchCollect` has `ingest` as operators on a collector and an item: passes that
look for a first edge while not locked, and for the last edge once locked.
`TimeBin` adds what is around it: events collected until the tick, the binner
(external: it finishes bins in order, any number at a tick), `store_patch`.
`Ingest` is a recursive function of the pass.  The code looks at the item at the
start of its 20th turn and fails if bins are left, so 19 passes must do: `item` is
what pass `PassLimit - 1` left.  `ticks` remembers where the ticks came
between the bins.  The code's one `PatchCollect` has a `bin_count` of 1
(`timebin.rs:56`), the model any; the run takes 3, where bins are also carried over
from one tick to the next.  The variable `patches` and the names `BinInit`,
`BinNext`, `BinSpec`, `BinTypeOK` let `StoreProofs` extend this module too.

### Zmtp

`Turn` is one turn of `loop_body`: output, reading and parsing, in this order, each
with what it reports (nothing to do, pending, progress).  `conn` is `conn_state`
with what is kept of a frame and a message.  The output buffer has its two
positions, as the room asked for depends on where the data lies.  `ParseItem` is
one operator per state, from the output buffer to what the state becomes (`Parsed`);
`ParseFails` says what is an error.  `LockScan` is never entered and is left out.
The names `ZmtpInit`, `ZmtpNext`, `ZmtpSpec`, `ZmtpTypeOK`, `PutOut` let
`SlideBufProofs` extend both `SlideBuf` and `Zmtp`.

### Migrate

Each object of the two schemas is looked up (`Check`) and made if missing (`Make`)
in two statements.  `TryConstraint` drops its errors, as the code does.  A daemon
may crash or lose the database anywhere and is started again.  Its names
(`SchemaInit`, `SchemaNext`, `SchemaSpec`, `SchemaTypeOK`) differ from those of
`EventInsert`, so that `StoreProofs` can extend both.

## 4. What the runs check

| Run | Size | Shows |
|---|---|---|
| `conn_set` | 2 channels, 2 addresses, 2 adds, 1 removal, 2 health checks, 1 shutdown, 1 item; event queue of 3, others of 1; lossy pipeline | safety of the set where senders wait for each other, and that every standstill has the set's own full queue in it, or a report to a daemon that has left its loop |
| `conn_set_live` | 2 channels, 1 address, 2 adds, 2 health checks, 1 shutdown, 1 item, nothing lost, an event queue of 8 | shutdown completes, CaConns end, channels are placed, each but for that report |
| `ca_conn` | 2 channels, one added twice, 1 repeated answer, command queue of 2, lookup queue and wire of 1 | safety of the connection, that it implements `ConnStream`, and announces its channels |
| `slide_buf` | 4 bytes, accesses of up to 3 bytes, 2 byte values | it implements `ByteFifo`, refuses only when full |
| `find_ioc` | 4 channels, batches of 2, 2 in flight, 2 targets, datagrams of up to 2 answers | no channel is lost or reported twice, no batch is forgotten, the search ends and is complete, unless a datagram kills it |
| `series_lookup` | 3 queries for 2 keys, 2 workers, batches of up to 3, 2 faults | it implements `LookupService`, loses a query only for a cause, and settles every query |
| `ca_proto` | 2 messages of the peer in 4 kinds, 2 of our own, a socket of 3 bytes | framing, no wake-up missed, input and output get through |
| `daemon` | all queues of 1, 2 workers, 1 post, 1 item, the set may fail | a signal ends the daemon, so does the end of the set, and nothing is left in the pipe |
| `event_insert` | 3 events at any of 3 times, up to 2 extra inserts, 2 workers | partitions are announced and left, what is stored is found |
| `time_bin` | patches of 3 bins, up to 7 bins at a tick, 17 bins | no bin is lost, and which patches are found |
| `zmtp` | 8 pairs of frames of 4 kinds, a message of 2 frames with a PING between, a socket of 2 bytes, a buffer of 6 | messages are whole, frames get through |
| `migrate` | 3 daemons, 5 objects, 2 faults | a daemon that runs has its schema, and all come to run |

The bounds.  Two channels and two addresses let every pair of a channel's states
and of CaConns meet, and an answer for one channel come between two steps of
another; handlers look at one channel and at one address at a time.  A queue of 3
is filled by the answers for two channels and an end event, and empties again.
Two health checks are one more than the place for reports, and so the
fewest that can leave the set before a report nobody takes.  `item` is bounded because a CaConn may yield for ever, `add`, `remove`, `health` and
`shutdown` because each input adds an event.  A wire of one message is enough for
CaConn because proto yields one message per poll and no step looks at the second;
a lookup queue of one is the smallest that can be full with a query left behind.
The byte buffer of four with accesses of three has every combination of a position
at the front, inside and at the end, and two byte values tell a byte in its place
from one that is not.  Four channels in batches of two make two batches in flight,
one of which is answered or out of time while the other is made, sent or answered;
the proofs cover more.  Two of the three queries share a key, so two workers insert
the same channel at once, and a batch can have a known and an unknown one.  In the
two protocol runs the lengths keep the order of those in the code (head, extended
head, longest payload; greeting, frame heads, bodies just within and beyond the
limit), the socket takes less than a message, so every cut of the input and every
partial write occurs.  Daemon queues of one make every sender wait.  Three times are
in the same partition, in the next one within the hour, and beyond it, in any
order, so the IOC's clock may run back; `Hour`, `Div` and `GridLen` keep the order
of the code's.  Seven bins at a tick contain up to three patch edges.

Symmetry is used in runs that check no liveness.  `CHECK_DEADLOCK FALSE`: all
these tasks end, or may have nothing to do.

Some disagreeable facts that the runs establish rather than refute:

* The set's `run` does fail, and takes all channels with it, when a command goes to
  a CaConn that has just ended (`FailsOnlyByEosRace` says that this is the only
  way), and the set can wait for room in its own full queue for ever, or
  stand at its health report (`connset.rs:502`) with room in its queue, because the
  daemon has left its loop and all between them is full (`Backlog`).
  `StandstillCauses` says that there is no other standstill.
* A signal ends the daemon unless the set stands in front of a report that nobody
  takes, because the daemon does not take reports while it sends or shuts down
  (`Backlog`, here with the queues themselves): the one standstill that
  `SignalEndsDaemon` allows.  Items that
  CaConns yield after the set has handled its Shutdown never reach the database.
* In the search, a datagram that has the same id twice reports the channel twice,
  because the ids are removed after the whole datagram, and a datagram whose
  sending fails stays in the buffer and holds up those behind it; their batches run
  out of time unsent.
* A datagram without one whole message makes the search's task panic
  (`findioc.rs:320` indexes an empty `msgs`), and the channels it had get no result:
  the other end of a search that `SearchEnds` names.
* What a lookup worker found in a batch with missing series is dropped, and
  those queries are never answered (`LossNeedsFault` names this as the one loss
  without a fault).  The lookup relies on a unique constraint, which
  `RunsWithSchema` shows may be missing without anybody having seen an error.
* After a message with an extended head, framing is lost, since its payload is read
  with the standard head's length (`FramingKept` is about the messages before).
* A partition stays unknown if the insert of the item that announces it fails or is
  left out; with extra inserts, the event itself may go to the partition before
  (`OpenedByCopy`).
* Patches that end at the same tick become one row (`patchcollect.rs:70`), at the
  place of the first, with more bins than the `bin_count` in its key.  The check in
  `patchcollect.rs:100`, "PatchCollect bin count mismatch", reports it, and the row is
  stored all the same; the patches behind the first are not where a reader looks.
  `FoundUnlessJoined` says which patches are found: those that end alone.  With the
  code's `bin_count` of 1 these are the bins that are the only one of their tick.
* A ZMTP stream whose input has ended sleeps for ever.  A PING is refused, with the
  connection, although nothing waits in `outbuf`, if what was there has left no room
  behind the write position (`zmtpproto.rs:533`).

Fairness.  In the set, every task is scheduled again and again and async_channel
serves waiting senders in order, so a step that remains possible is taken;
nobody is obliged to send inputs, to yield items or to lose a connection, but a
CaConn told to stop does stop (which is what `ImplementsStream` in `ca_conn` shows).
The adapter takes a report when the daemon's queue has room; nothing is assumed of
how soon that queue fills up while nobody takes from it.  `conn_set_live` has room in
the event queue and in the command queues, so a CaConn that blocks at a full event
queue for good, which `conn_set` contains, is outside its liveness.  In CaConn:
the runtime polls a woken task, timers elapse, a connect has an outcome (it has a
timeout of a second), the set takes what the merge task sends, a lookup is
answered or dropped.  Nothing is assumed of the IOC.  In FindIoc: the stream is
polled after each item and every 200 ms, so each batch's time is over at some poll;
datagrams come and reads fail only finitely often in a row (that a datagram kills the
task is possible at each read and never obliged), also in turns in which
nothing else was done.  Nothing is assumed of the sending.  The set does not always take
what it is sent (see above), so the liveness of the whole system holds as long as
its event queue does not fill up.  In Daemon: strong fairness for whoever sends to
a bounded queue, because async_channel serves waiting senders in their order; for
`AsksHealth`, because time passes, so some tick comes two seconds after the last
report.  In SeriesLookup the database answers or fails, but workers do not have to
fail.  In CaProto and Zmtp a woken task is polled, and a poll goes on to its end;
nothing is assumed of the peer, which need not read (`OutputGetsThrough` has that
as its premise).  In Migrate a daemon that is down is started again.

## 5. What is proved

All proofs are checked by TLAPS for any sets of channels, addresses and bytes and
any capacities, under the `ASSUME` of each module (names and bounds are what they
say, `NoAddr` is not an address).

* `ConnSetProofs`: `TypeCorrect`, `EosAccountsCorrect`, `FailureIsEosRace`,
  `AddedOnceCorrect`, `RemovalIsFinalCorrect`, `ShutdownReachesEveryConnCorrect`,
  `StandstillsNamed`, `BacklogStays`.  The inductive invariant says, while `run` is in its loop, that each address's end
  events agree with its task and the map (`EosAccountsForEnd`, per address), and
  ties what a handler awaits to the map: a command awaited is for an address in the
  map, and what the set sends to itself is never an end event.  Without that, a
  command awaited could meet an address whose end event is already handled.
  `FailureIsEosRace` follows: a send fails only if the task has ended; it is in the
  map, so its end event is queued.

  `AddedOnceCorrect` rests on `JourneyInv`: on its way from the search for its address
  to the CaConn a channel is at one place at a time, and there once (a send awaited,
  the search queue, the finder, the event queue, the CaConn), and the state that the
  set keeps for it is that of the place.  `RemovalIsFinalCorrect` is an action
  property: no handler takes a channel out of the removed state.
  `ShutdownReachesEveryConnCorrect` rests on `ShutdownInv`: while the set is stopping
  each CaConn that runs has `Shutdown` in its queue, or a handler awaits that send, and
  no send is left when `run` ends well.

  `StandstillsNamed` is freedom from deadlock, up to the two standstills: whatever
  the handler awaits, `StepPossible` names a step whose guard holds (the send itself, or
  of the task that can make room for it or has to end), unless the event queue is full
  or there is a `Backlog`.  New requests to the daemon do not count as such a step.
  It needs `AwaitInv`: a task that is joined has told its end, and so does not wait
  for room; and `DaemonInv`: the daemon's queue fills up only while it sends or after
  its loop, and a report is all that the handler of a health check awaits.  So a set
  that waits with its report and has room in its queue has let the daemon's send
  through, and only a daemon that has left its loop leaves the report where it is.
  That a full `channel_info_query_tx` has a lookup to be answered (`NoLookups`) is where
  the channels have to be finite.  `BacklogStays` is the other half: such a report is
  never taken.
* `CaConnProofs`: `TypeCorrect`, `NeverUnwrapsNoneCorrect`,
  `NeverReconnectsCorrect`, `InitCountCorrect`, `LookupAnswersCorrect`,
  `DataYieldedCorrect`, `StreamSafety`.  The invariant relates the
  protocol to the connection state (there is a protocol exactly in Init, Listen
  and PeerReady), the position in the loop to the state (`"poll"` only in
  PeerReady), and a channel past Init to PeerReady or Shutdown, so that a lookup
  result which subscribes a channel finds a protocol.  `InitCountCorrect` rests on
  the cardinalities of the set of channels in Init before and after each change.

  `LookupAnswersCorrect` follows from `OneLookup`: a channel has at most one query, at
  one place (the CaConn's queue, the pipeline, the answers), and only while it fetches
  its series or has ended.  `DataYieldedCorrect` follows from `YieldedInv`, along one
  iteration of `poll_next`: no command is taken before the queue of items is empty, and
  all that a command or the connection can leave in it afterwards is that a channel
  was opened or closed.  `StreamSafety` is the part of `ImplementsStream` without
  fairness: `Spec => Stream!Init /\ [][Stream!Next]_Stream!vars`, one step per action.
* `SlideBufProofs`: `TypeCorrect`, `FifoCorrect` (`Spec => ImplementsFifo`, the
  initial states and every step mapped), `RefusalsCorrect`.  The invariant adds to
  the types that the bytes filled lie behind the write position.  The lemmas say
  what a slide does to the content and how much room `MakeRoom` leaves.
* `SlideBufProofs`, of the ZMTP stream: `ZmtpTypeCorrect`, `MessagesWholeCorrect`,
  for any frames, sizes and buffers, and any cut of the input.  `ZmtpInv` has three
  parts besides the types: the position in the input is where the state begins, so
  that the bytes it takes are those of its frame (`InPlace`, until an error);
  what is kept of a message are frames of messages with the more flag, and
  `has_more` is the flag of the frame being read, which a command between them
  leaves alone (`Unfinished`); and the events yielded with what is kept are all
  frames of messages so far, in order (`Complete`).  One lemma per state says that
  `ParseItem` keeps it, and that its answers fit the output buffer.  Where frames
  end and which belong to messages are recursive functions of the stream, `InMessages`
  one of the events; they have their values by the least number principle
  (`EndType`, `DataIs`, `InMessagesAppend`).
* `FindIocProofs`: `TypeCorrect`, `IndexCorrect`, `NoneLostCorrect`,
  `ReportedOnceCorrect`, `EndsCompleteCorrect`, `NoneForgottenCorrect`.  The invariant is the first five
  together with what is true while a datagram is handled: the channels it has
  answered so far are not open any more and belong to a batch, and what is left of
  a datagram without repetitions is about other channels.  Once the steps that
  touch none of this are set aside (`AsideKeeps`), one lemma per remaining action
  shows that it is kept.

  `NoneForgotten` is inductive by itself; it rests on two lemmas about queues, that
  moving the head to the end keeps all elements and dropping it loses no other.
* `DaemonProofs`: `TypeCorrect`, `OneTickCorrect`, `LeavesForCauseCorrect`,
  `DrainedCorrect`.  The invariant says where a tick can be (in the queue, with the
  handler, as a token), which bounds the tokens and so makes the send of a token
  never wait; that a Shutdown event is there only after a signal; that every item
  stored is inserted, given up, or at one place of the pipe (`Balance`, with the
  number of workers that hold one as a cardinality); and that a stage has ended only
  after the one before it (`EndInOrder`).  `DrainedAtEnd` follows: when all workers
  have ended, all these places are empty.
* `SeriesLookupProofs`: `TypeCorrect`, `HeldOnceCorrect`, `LookupRefines`,
  `LossNeedsFaultCorrect`.  `LookupInv` says that a query is at one place of the
  pipeline (input, batcher, batch queue, a worker), that what a worker has found is
  what the table says, and why a worker may have ended.  With it every step maps to
  a step of `LookupService` or to none: a select that answers a prefix of its batch,
  an insert, a batch that is dropped.
* `CaProtoProofs`: `TypeCorrect`, `SleepsCorrect`, `FramingCorrect`.  The positions
  where messages end are a recursive function, `End`.  That it increases, and that a
  position between two ends belongs to one message, is shown by the least number
  principle: a first number at which it fails has a predecessor at which it does not.
  `FramingInv` says that what is parsed ends at the end of a message or of its head.
  `SleepInv` follows a poll through its steps: whoever finds nothing to do at the
  socket leaves a waker there, and whoever finds something takes another turn.
* `StoreProofs`, of the schema: `SchemaTypeCorrect`, `MadeInOrderCorrect`,
  `RunsWithSchemaCorrect`, for any number of daemons, crashes and any schema without
  repetitions.  The invariant is that what a daemon has passed is there (objects are
  never removed).
* `StoreProofs`, of the events: `InAnnouncedPartitionCorrect`,
  `PartitionIsLeftCorrect`, `StoredIsFoundCorrect`, for any times, copies, partition
  sizes and any number of workers.  One event causes any number of inserts, so its
  step is itself an induction, downwards over the numbers of the inserts
  (`InsertsAre`, `DownToZero`); `InsertEffect` says that an insert opens a partition,
  stays in a full one or goes on in the one captured before the event, and
  `EventSoFar` is what each insert hands down to the next.  `PartitionInv` relates the
  channel's state to all items made: it is in the partition announced last (`Knows`)
  and has counted at least the items in a row that are in it (`Counts`), without
  which a full partition would not be left.  `QueueInv` says that the row for an
  item in the queue is in the store, lost, with a worker, or ahead of it in the
  queue; a row that a worker lets go of has gone to the store or is lost
  (`RowsGrow`).
* `StoreProofs`, of the time bins: `BinTypeCorrect`, `NoBinLostCorrect`,
  `FoundUnlessJoinedCorrect`, `TicksSucceed`, for any size of a patch and any number
  of bins at a tick.  The invariant says that once locked, the rows have all bins
  from the first edge up to some edge, and the collector those from there on, fewer
  than a patch.  The lemmas say what each kind of pass does to consecutive bins: the
  first finds the first edge, one takes all up to the last edge, one what is left,
  so the fourth finds nothing.  `FoundUnlessJoined` needs the rows tied to the ticks
  (`RowsByTick`): each row holds the patches from one edge to another, no tick came
  between their ends, one came before the first of them and one before the next
  patch ends; and every complete patch is in a row.  `TicksSucceed` is the reason that `ingest` never
  reports an error: only a value of another type makes the accumulator fail.

Proofs have changed the models in a few places.  `CaProto` and `Zmtp` had a CASE
with overlapping guards, whose value TLA+ leaves open: TLC takes the first, a proof
may not, and in `CaProto` the two arms differed (an error while the output holds the
input up).  The guards now exclude each other.  `EventInsert` had its inserts, and
`PatchCollect` its passes, as folds, about which nothing can be proved here; they
are recursive functions now.  The assumptions on constants that a proof needed, and
the code justifies, have come to `ConnSet`, `EventInsert`, `SeriesLookup`,
`TimeBin`, `PatchCollect` and `Zmtp`.  The invariant that a proof of `NoBinLost` needs showed
that the property had said too little: it now names the bin that the rows begin
with, and says that before the first edge nothing is collected.  None of this has
changed the states of a run; what `Ingest` reports is now what the code finds at the
start of its 20th turn.

Only model-checked: liveness (`ShutdownCompletes`, `ConnsEnd`,
`ChannelGetsPlaced`, the fairness in `ImplementsStream`, `ChannelsAnnounced`,
`SearchEnds`, `QueriesSettle`, `InputGetsThrough`, `OutputGetsThrough`,
`SignalEndsDaemon`, `SetErrorIsNoticed`, `FramesGetThrough`, `AllRun`), which rests
on fairness; and `StandstillCauses`, which contains ENABLED:
`StandstillsNamed` proves it of the guards of the actions instead, and that a
guard is all an action needs is read off the actions.  Every other property of a run
is a theorem.  Induction over data, which no installed prover
does by itself, is done with the least number principle, as above, where a
definition is a recursive function.

## 6. What is not modelled

* HTTP routing and metrics, generated counters, configuration and system-call
  wrappers: they control nothing.  HTTP only posts events to the daemon, which
  `Daemon` has.
* The encoding and decoding of Channel Access messages (`CaMsg`): their lengths, and
  whether they can be decoded, are in `CaProto`.
* Statements, prepared queries and the futures around the database drivers: what a
  statement changes is in `EventInsert`, `SeriesLookup` and `Migrate`.
* The bsread client behind the ZMTP stream, which the daemon does not build with.
* A UDP search that does not stop on an empty queue, which nobody starts.

Two hazards that no property covers, as the models show them by what they contain:
an IOC that announces another version leaves the connection in Listen for good
(`conn.rs:1290`), and an unknown data type leaves a channel in Creating
(`conn.rs:1410`).
