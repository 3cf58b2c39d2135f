# wealth-bond-quote-service in TLA+

The service logs in to the Aden ATS, receives bond quotes over STOMP on a
WebSocket, parses them, and writes them to two MySQL tables per day: every
price to `t_bond_quote_detail_<day>`, the newest message of each ISIN to
`t_bond_latest_quote_<day>`. It creates those tables once a week, exports the
latest quotes to Excel periodically, and has HTTP handlers for exports on
request. This directory models its concurrent core and its data flow, checks
the models with TLC and proves the main results with TLAPS.

Paths below are relative to `src/`.

## The system

| Part | State | Operations | Talks to |
|---|---|---|---|
| `main.go`: start, select loop, shutdown | settings, channels, `errChan`, WaitGroup, context | read Nacos or the local file; start goroutines; restart the listener on an error; on an interrupt `cancel`, four closes, `wg.Wait` | everything |
| `main.go:280`, `service/establish_service.go`: STOMP session | token, WebSocket, STOMP connection | login, dial, CONNECT, SUBSCRIBE, message loop, deferred closes | `RawChan`, `errChan` |
| `service/establish_service.go:341`: `WebSocketNetConn` | - | `Read` of a message of the WebSocket into the STOMP library's buffer | the session |
| `main.go:175`: test generator | - | non-blocking sends | `RawChan` |
| `service/bond_quote_service.go`: parse workers | two `sync.Pool`s | `ParseBondQuote`, forward or dead-letter | `RawChan`, `ParsedChan`, `DeadChan` |
| same: dispatcher, DB workers | a channel, a batch and a ticker per worker | partition by `hash(isin)`, flush at `batchSize`, at a tick, at exit | MySQL |
| same: `InsertBatch` | the detail slice and the latest map of a call | aggregate, insert in chunks of 1000, upsert, in one transaction | MySQL |
| `service/create_table_service.go` | the next Monday | create the tables of a week, sleep | MySQL |
| `service/export_service.go` | a local file | SELECT, layout, save, upload, message, remove | MySQL, OSS, DingTalk |
| `service/query_service.go`, `router/` | a local file | current-latest, daily-end, time-range | MySQL |
| `pkg/log` | a line channel, a file and its older copies | write, look at the size, shift the files | every part |
| `internal/conf`, `pkg/nacos` | settings by key | fetch and parse each key, or fall back to the file | `init` |
| `pkg/db`, `pkg/crypto_utils`, `pkg/oss`, `pkg/dtalk`, `internal/jsonrpc` | clients | one call each, which succeeds or fails | |

What is hard here: goroutines that block on each other's channels; closes that
race with sends; a WaitGroup that goroutines join by themselves; parse workers
that reorder their messages; dead letters that nobody reads; batches dropped when a transaction fails; pooled
objects whose arrays outlive their release; a session that breaks at any time and
a `Read` that hides errors; renames that stop half-way;
table names that follow the clock while midnight passes between statements.
`PROJECT.json` lists each of these with its line and the properties about it.

What makes each part correct: the pipeline neither loses, repeats nor splits a
message and drains at shutdown; one DB worker writes an ISIN; the latest row
agrees with the detail rows; a parsed quote is that of its message; there is
one session at a time, with its connections closed at the end; the tables of
the day exist whenever quotes are written; an export shows what the tables held;
the log keeps its newest lines; a process runs on the settings of one source.

## Modules

| Module | Models | Extends or composes |
|---|---|---|
| `BatchWrite` | what a batch does to the latest table | |
| `QuoteLedger` | abstract specification: the account of every message | |
| `QuotePipeline` | producers, channels, parse workers, dispatcher, DB workers, interrupt and closes | `BatchWrite` |
| `QuotePipelineProps` | its properties; implements `QuoteLedger` | both above |
| `QuotePipelineProofs` | its theorems, the refinement among them | `QuotePipelineProps` |
| `IsinHash`, `IsinHashProofs` | `hash` and the worker index on integers that wrap around | |
| `InsertBatch`, `InsertBatchProofs` | one `InsertBatch` call statement by statement | `BatchWrite` |
| `ParserPool`, `ParserPoolProofs` | `ParseBondQuote` over shared pools | |
| `StompSession` | the session, its errors, restarts and shutdown | |
| `WsNetConn` | one connection as a byte stream: the server's messages, `Read`, the library's buffer and parser | |
| `SessionTransport`, `SessionTransportProofs` | the session over that stream; implements `StompSession` | both above |
| `DailyTables`, `DailyTablesProofs` | the weekly table creation over a calendar | |
| `QuoteExports`, `QuoteExportsProofs` | the writers, the periodic export and a request, across midnights | |
| `LogWriter` | the log: channel, reader, `shiftFiles`, crashes | |
| `ProcessStart`, `ProcessStartProofs` | `init` and the start of `main`, process after process, on the log | `LogWriter` |
| `MC*` | instances for TLC | |

A definition marked "Variant" is a mistake the next definition could have been
written with. No action uses it; replacing the definition by it breaks the
property `PROJECT.json` pairs it with, which shows the property depends on that
line of the code.

How they correspond to the code:

- `QuotePipeline`. A Go channel is a sequence with a capacity. An action is one
  channel operation of one goroutine with the straight-line code up to its next
  one. `status[g]` is `wg.Add`/`wg.Done`; `main` is the program counter of the
  shutdown. Sending to a closed channel ends the process (`panicked`).
  `InsertBatch` is one step here. That is sound because of
  `SingleWriterPerIsin`: concurrent transactions never meet in a row of the
  latest table, so their order does not matter. The partition is a constant; its
  instance for TLC is `IsinHash` on eight bits, where a short string wraps around.
- `InsertBatch` takes that step apart: the two clock readings, the loop with its
  map, each chunk, the upsert, commit or rollback, and midnights.
- `ParserPool` has a heap of arrays: a slice is an array and a length, and a
  parsed quote copies the slice header only, as `*payload` does. One price list
  stands for asks and bids. A price has a part that every message gives and a part
  that one may omit (`Sparse`); decoding reuses the elements of the array, so an
  omitted part keeps what was there. JSON that is refused for the type of one field
  fills the others all the same, the outer (`Mistyped`) and the inner (`BadInner`).
  A list that outgrows its array gets a new one of any size up to `MaxPrices`.
- `StompSession`. `pc[a]` is the statement of a goroutine running
  `startMessageListener`, `open[a]` what it must close, and `readers` has those
  whose connection the STOMP library's own goroutine may read: from
  `stomp.Connect` until that goroutine finds its connection closed, which may be
  after `a` has returned. It may panic at any time of that (`ReaderPanic`). The
  server and the network change at any time. Reading a message is one step there.
- `WsNetConn` and `SessionTransport` take that step apart. A byte is its position
  in the server's stream. `Read` copies what fits of
  a message and reports its whole length; when that is more than the room it was
  given, the library slices its buffer beyond its end and panics. A connection that
  fails is a `Read` of nothing without an error. Reading a line, the buffer gives up
  after `MaxEmpty` of those in a row (100 in Go's `bufio`); reading a frame's body it
  does not, and the WebSocket library panics after 1000. A connection that the
  service itself closes in its deferred calls is read like one that fails.
  `followed` is the goroutine whose connection is followed byte by byte: any one of
  `readers`, from `stomp.Connect` to the reader's end, set-up and teardown included
  (`Follow`); that of another goroutine at the same time is as `StompSession`
  has it.
- `DailyTables`. A day is a number and `day % 7` the weekday. Midnight comes
  between any two statements. `CreateTables` takes less than a day.
- `QuoteExports`. Every SELECT and every transaction is a step. Hours are
  counted from the first midnight, with a zone offset because the service parses
  the window as UTC and the driver has `loc=Local`. `tableExists` answers no to an
  error as to an absent table, so a request for days may skip any of them
  (`NextDay`), and one for hours may be refused by any of its tables.
- `LogWriter`. Every line is one unit long and known by its number. A rename, the
  removal of the oldest file, the reopening and each write are steps; a crash or a
  failure comes between any two. The files outlive the process.
- `ProcessStart`. Each Nacos key is fetched in the order of the code and may fail.
  The fall back to the file gives the settings of any of the keys and none of the
  five numbers of `main.go:37-41`, which stay zero: the capacities of the two
  channels, the workers, the batch size and the flush delay.

## Runs

| Run | Asks | Bounds |
|---|---|---|
| `pipeline_core` | `Conservation`, `SingleWriterPerIsin`, `CleanExitDrained`, `LatestMatchesStored`, `ImplementsLedger` | 2 parse workers, 2 DB workers, 4 messages of 2 ISINs, one malformed, one from the generator; capacities 1, batches of 2 |
| `pipeline_live` | `EveryQuoteSettles`, `ShutdownTerminates` | as `pipeline_core`, two malformed, a `DeadChan` of one |
| `insert_batch` | `LoopKeepsWinner`, `CommitIsAtomic`, `LatestRowHasDetails` | every batch of up to 3 of 4 messages, chunks of 2, one midnight |
| `parser_pool` | `TargetsHeldOnce`, `FieldsOwnOrLeft`, `PricesOwnAtReturn` | 2 workers, 2 objects, 5 messages: three prices, one, two that omit a field, none; one of each error path |
| `session_transport` | `OneSession`, `NoLeakedConnection`, `ExitClosesSessions`, `StreamIntact`, `PanicHasCause`, `EndLeadsToLogin`, `ShutdownTerminates` | 2 goroutines, a buffer of 2 bytes, messages of 1 and 3, 4 bytes a connection |
| `daily_tables` | `TodayHasTables`, `LatestImpliesDetail` | starts on each weekday, 16 days, 2 failures or stops |
| `quote_exports` | `ExportShowsTable`, `DailyEndShowsDays`, `TimeRangeShowsMessages`, `LatestHasDetails`, `PastDayIsFinal`, `FileKeptUntilSent` | 3 days of 2 hours, 2 quotes of 2 ISINs |
| `process_start` | `KeepsNewest`, `FileBounded`, `StartsWhole`, `LoggersProceed` | 2 processes, 4 files of 2 lines, 9 lines, 3 keys |
| `latest_regresses` | finds an older quote replacing a newer row | 2 parse workers, 2 messages |
| `shutdown_panics` | finds a send to a closed channel in a shutdown | as `pipeline_core` |
| `prices_overwritten` | finds a quote with another quote's prices | as `parser_pool` |
| `restart_gives_up` | finds a process that never listens again | 2 goroutines |

Why the bounds are enough to meet the interesting cases: capacities of one make
every channel full and empty in turn; two workers of a kind and two quotes of an
ISIN are what a reordering or a race needs; batches of two are flushed by size,
by the tick and at exit; with two listeners a teardown, or a reader that outlives one, overlaps a login;
16 days have two weekly wake-ups after a start on any weekday; three days
separate "today", "yesterday" and "before". Three prices are what
the generator sends at most, and lists of three, two and one make an array be
reused longer than the list. A `DeadChan` of one with two malformed messages fills
and stops a parse worker while the other goes on. Channel capacities and the batch
size are assumed to be positive in the pipeline, although Nacos may omit them and
the local file leaves them zero: `ProcessStart` has those starts, and with channels
that hand over without a buffer the goroutines wait for each other in other steps. A message of one byte fits the buffer of two, two of
them fill it, one of three exceeds it, and with four bytes a connection breaks at
every point of them. There are four log files because a shift that is interrupted
leaves a gap in the names, and the next shift moves files into it: only from four
on could that cost a file. The `pipeline_*` runs see one day; days are in
`insert_batch`, `daily_tables` and `quote_exports`.

Each passing run checks its module's type invariant, but for `pipeline_live`, whose
goroutines are those of `pipeline_core`. Each checks for deadlock, but for
`process_start`: there the last process may stop and `MaxStarts` allows no other.

### What the runs show of the code's promises

- `main.go:261` announces a graceful shutdown; a listener about to send when
  `RawChan` is closed panics (`shutdown_panics`).
- The comments of `InsertBatch` promise a comparison by send time. It is made
  within a batch, and the upsert compares nothing. With several parse workers an
  old quote replaces a newer row, from a feed in order of send time
  (`latest_regresses`). With a feed out of order, as the generator's is
  (`main.go:166`), one worker is enough.
- A returned quote shares its price arrays with the pool (`prices_overwritten`).
- A failed restart is not reported and not repeated (`restart_gives_up`).

What the passing properties have to leave out says as much:

- `TodayHasTables` excepts a process that started on a Sunday and read the clock
  again after midnight (`SleptThrough`): it sleeps for a week, with no tables
  from Tuesday on. Every other start is covered.
- `TimeRangeShowsMessages` states the window as it is, moved by the zone's offset:
  it is parsed as UTC and compared with local times.
- `DailyEndShowsDays` lets a day be missing from the reply although its table
  exists: a lookup that fails is taken for a table that does not, and the request
  still succeeds. `TodayHasTables` excepts a process one of whose `CreateTables`
  calls failed, for nothing repeats it.
- `FieldsOwnOrLeft`: a field that a message lacks has the value an earlier message
  left in the pooled target, a refused one included; so an ISIN that passes the
  check may be another's. `PricesOwnAtReturn` lets a field that a price omits keep
  the value of an older message's price.
- `PanicHasCause`: a message above the reader's buffer ends the process, and so does
  a connection that breaks, or is closed by the service itself, within the body of a
  frame; at any time from `stomp.Connect` to the last read.
- `StartsWhole`: on the local file the process has no workers, no batch size, no
  flush delay, and channels without a buffer.
- `EveryQuoteSettles` lets a malformed message wait for ever: nobody reads
  `DeadChan`, and with it full a parse worker stops. The quotes behind it wait for
  ever only when every parse worker has stopped so.
- `KeepsNewest` counts from the lines that reached a file: while no file is open
  a line is dropped.

## Fairness

`QuotePipeline!FairSpec`: weak fairness of each goroutine, as the Go scheduler
gives. `DbRecv`, `DbTick` and `DbExit` are fair one by one: a `select` chooses
among its ready cases at random, and the ticker fires again and again.
`ListenerDown`, `Interrupt` and the failure of a transaction get none.
A started `InsertBatch` is assumed to return.

`StompSession!FairSpec`: a goroutine's own steps are fair, those that need an
answer are not, for neither the dial nor the STOMP connect has a timeout; the
login has one of 30 seconds. A connection that was closed is read to its end
(`ReaderGone`). Therefore `ShutdownTerminates` there has a premise:
no set-up step but the login hangs for ever. `AnsweringSpec` adds that the
server answers, to show that `RestartListens` fails even then.
`SessionTransport!FairTSpec` adds the reader of the STOMP library, a goroutine of
its own, so that a broken connection reaches the listener. `EndLeadsToLogin` is
about the connection that is followed while its goroutine is in the message loop,
and owes a login, which may fail.

`ProcessStart!FairSpec`: the reader of the log channel, by itself. A rename or an
open returns, with or without an error; a crash is never forced.

`DailyTables`, `QuoteExports`, `InsertBatch` and `ParserPool` are checked for
safety only.

## Proofs

TLAPS proves, for all values of the constants that satisfy the named
assumptions:

- `QuotePipelineProofs`. `TypeCorrect` is inductive by itself: its `CtlTypeOK`
  says that a goroutine that is not running holds nothing, without which a
  worker could register with a full hand. `PanicsOnlyInShutdown` follows from
  the order of `main`. `OneWriterPerIsin` needs the stronger `Partitioned`: what
  a DB worker holds is what `Target` sends it. `TablesAgree` uses what
  `BatchWrite` says of an upsert. `CleanExitDrains` needs one fact per stage:
  when a goroutine has returned and its input is closed, what is upstream of it
  is empty; the facts are chained along the closes. `NothingLostOrRepeated`
  (`Conservation`): the places of a message are a fixed set, each step takes a
  message from the head of one and adds it to the end of another, and no
  sequence holds a message twice; the feeds are assumed to be injective,
  disjoint and to cover the messages. `PipelineImplementsLedger` rests on it:
  since a message is in one place, `Stage` maps a step to one ledger step of
  that message, or of a whole batch, and to a stutter for every other message.
  Two theorems are the safe half of `ShutdownTerminates` and of `EveryQuoteSettles`.
  `NobodyWaitsForEverybody`: in a shutdown, and while a quote is under way that is
  not itself stuck at a full `DeadChan`, with a parse worker that is not, the guard of some goroutine or of `main`
  holds; it goes backwards along the channels, from the DB workers, whom nothing
  blocks (`WorkerReady`), to the listener. `EveryStepCounts`: each step takes
  something away from a finite set (`Ahead`: how far each message is from its end,
  which goroutines have to start and return, where `main` is), but for the restart of
  a broken session, which only happens before the interrupt. So a shutdown neither
  stands still nor goes on for ever; that whoever can go on does is the fairness
  that TLC takes account of. The guards are written out (`SomeoneReady`), for
  ENABLED cannot be reasoned about.
- `IsinHashProofs`. `IndexInRange`: for which sums the index is a worker's, on
  integers of any width. `StringsHaveWorkers` says it of a string: the loop has a
  sum for a string of any length (`LoopRuns`, by induction over the string), so
  that only the smallest integer is left out. `IsinsNeverWrap`: the sum of up to
  twelve ASCII characters stays within 64 bits, by twelve steps of the loop written
  out, each with its own bound; `IsinsHaveWorkers` follows, for any number of workers.
- `InsertBatchProofs`. `LoopCorrect`: after k quotes the map has the winner of
  the first k; one step extends the prefix. `CallIsAtomic`: what was inserted so
  far is the rows of the details before the chunk's start (`RowsCollected`), so
  that at the commit all of them are in. `LatestHasItsDetails` relates each row
  to the detail table of the day its call named (`TablesMatch`).
- `ParserPoolProofs`. The invariant says who owns what: a message has one
  worker, a target one running call, an array of prices one target. `HeldOnce`
  follows: until a call returns nobody else can write to what it decoded. (After it,
  somebody can: `prices_overwritten`.) For `OwnOrLeft` and `PricesAtReturn` the
  invariant follows a target through a call: what each decoded element says of its
  message (`Decoded`), and that what the pool gives was left there by messages
  taken before, complete or refused (`Seen`).
- `SessionTransportProofs`. For `StompSession`, one invariant, `IInv`: the
  connections of a goroutine are determined by its statement (`OpenOK`), at most
  one goroutine serves the session and none while a report waits (`OneSession`),
  `main` is past `Wait` only when no goroutine is between `Add` and `Done`
  (`ExitOK`), whatever the readers still do. `ImplementsSession` shows `TSpec => Spec`, so that these theorems
  hold over the transport. `StreamIsIntact` needs that what is under way, what is
  buffered and what is parsed are consecutive stretches of the server's bytes.
  `PanicsHaveCause` lists what can end the process, the two panics of the reader at
  any statement of the goroutine whose connection it reads.
- `DailyTablesProofs`. The parts of the invariant are `Types`; `InTime`, how far
  the calendar may have moved since the goroutine read the clock; `Made`, what
  the running call of `CreateTables` has created; `Covered`, that there are
  tables from today to the alarm; `Overslept`, which starts are excepted. The
  step that needs them all is `Plan`: the Monday it counts to is the last day the
  call before it created, also when midnight fell in between, because the day
  after any day but a Sunday has the same Monday ahead (lemma `Week`).
- `QuoteExportsProofs`. `LatestQuotesHaveDetails` needs that the two names of a
  call are those of one day or of two in a row (`NamedTogether`).
  `PastDaysAreFinal` follows from the types of a call: a final day is before
  today, and a name is never older than the clock at its naming.
  `FilesWaitForTheirLink` goes over the steps of the export.
  What the sheets show is about operators first: the rows of one quote show each of
  its prices once, and pasting the rows of quotes below each other keeps that
  (`FlattenParts`, `SheetShows`). `ExportsShowTheTable` and `RangesShowTheirDays`
  add that tables are finite (`StoredOK`); the latter is about the days that are not
  skipped. `RepliesShowMessages` needs an
  invariant of the request: the groups it still has to show are messages in the
  range, stored whole, distinct and not yet on the sheet (`ShowsMessages`).
  That is kept while calls commit, because a transaction adds whole messages
  (`Whole`) and takes none away.
- `ProcessStartProofs`. `NewestAreKept`: the files are in order, the numbers in
  them have no gap up to the last one written, and between two renames the name
  that the first has emptied has no file (`HoleEmpty`). `FileIsBounded` counts
  the lines since the last look at the size. `SettingsOfOneSource` goes along the
  steps of `init`.

Inductions over data (the rows of a table, the characters of a string) use the
library's well-founded induction once, for a set of numbers in place of an operator:
lemma `Induct` of `QuoteExportsProofs` and of `IsinHashProofs`. What
`FlattenSeq` does to the rows of quotes (`FlattenParts`) rests on it.

Every invariant and every action property of the passing runs is a theorem. Only
model-checked: the liveness properties `EveryQuoteSettles`,
`EndLeadsToLogin`, `LoggersProceed` and the two `ShutdownTerminates`, since fairness
and ENABLED are beyond the prover; and the counterexamples of the four runs that
expect one.

## Left out

- The misuse panic of `sync.WaitGroup` (`Add` racing with `Wait` at zero); what
  happens when `Wait` returns early is modelled.
- `WebSocketNetConn.Write` and the deadlines, which pass the call on; the login's
  encryption and its JSON-RPC envelope: the login succeeds or fails, and its token
  has a length.
- The formats of the OSS and DingTalk clients; each is a step that succeeds or
  fails.
- Log levels, the format of a line, the error log, which is written by the same
  code; the pprof server.
- The cache of Nacos clients and the lookup of a database handle, which one
  goroutine uses once; the pool inside the driver.
- `EnsureDailyTablesExist`, which nothing calls.
- Messages delivered twice by the server after a new login.

## Plan

Done: the modules above. What is left, by importance:

1. Duplicate deliveries after a new login, in `SessionTransport` and as a feed
   of `QuotePipeline` that is not injective; `Conservation` would then be about
   deliveries.
2. The composition of `StompSession` with `QuotePipeline`, in which the restarts
   of the one are the listener's faults of the other; today they share `main`'s
   shutdown by construction only.
