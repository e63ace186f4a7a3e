# Bitmark Explorer: TLA+ models and proofs

A verification development for the programs of this repository: the indexer
(`src/indexer`), the homepage generator (`src/generator`) and the database they
share (`src/database`). TLA+ modules model the parts whose correctness depends on
interleaving, failure and ordering; TLC checks them on small instances; TLAPS
proves the most important results for every value of the constants.

    bitmarkd --RPC--> indexer --transactions--> PostgreSQL <--queries-- generator
        \----ZMQ----> indexer                       ^                     |  |
         \---ZMQ----> generator      backfill-addresses     homepage file, SSE
                                                                          |
                                                                       browsers

## 1. Inventory

### Components, their state and their operations

| Component | Source | State | Operations |
|---|---|---|---|
| Indexer loop | `indexer/internal/ingest/ingestor.go` (`Run`, `retryGetBlockCount`, `ingestRange`), `cmd/bitmark-indexer/main.go` | place in the loop, tip, batch bounds, open transaction, ctx | start, read tip, back off, ingest a batch, wait, stop |
| Indexer ZMQ | `indexer/internal/zmq/subscriber.go` | the socket, waiting messages | connect, receive, reconnect after two silent minutes |
| Block bundle | `ingestor.go` (`insertBlockBundle`) | rows of `blocks`, `transactions`, `tx_inputs`, `tx_outputs` | insert rows, read the spent output, mark it spent |
| Backfill | `indexer/cmd/backfill-addresses/main.go` | rows still to write, open flush | query, flush, fill inputs |
| Generator loop | `generator/cmd/bitmark-hp-gen/main.go`, `internal/zmq`, `internal/render/homepage.go`, `internal/db` | three channels, tick count, `lastRenderedHeight`, the page file | four cases of a `select`, `generate`, poll |
| SSE broker | `generator/internal/sse/broker.go` | one channel of capacity one per connection | subscribe, unsubscribe, `Broadcast`, stream |
| Browser | script of `generator/templates/homepage.html` | page shown, `EventSource` | load, connect, reload, reconnect |
| Explorer pages | `startHTTPServer`, `internal/db/blocks.go`, `blockdetail.go`, `render/multitx.go` | none of their own: two to four queries per request | older blocks, block, multi-transaction list |
| Address page | `internal/db/addressdetail.go` | none: two or three queries per request | summary, inputs, history |
| RPC breaker | `rpcBreaker` in `main.go` of the generator | failures, `nextTryAt` | call, skip |
| Indexer RPC client and configuration | `indexer/internal/rpc/client.go`, `internal/config/config.go` | credentials chosen at the start; attempt, header, connection of a call | load, read the cookie, dial, receive, retry |
| Statistics | `indexer/internal/ingest/algo_stats.go`, `generator/internal/db/stats.go`, `SetNodeStatus` | rows of `algo_stats_current`; figures of a page and of the operator's terminal | refresh row by row, read rows, sum, show |
| Generator's RPC client, TUI, migration, service units, installers | see `PROJECT.json` | | partly or not modelled |

### How they interact

* The node speaks to both programs by RPC (pull) and ZMQ (push). ZMQ messages may
  be lost, and nothing ties the moment of a message to the state an RPC call sees: the
  block may show in RPC first, or the message arrive first.
* The indexer and the generator share nothing but the database. The indexer commits
  batches of blocks with a checkpoint row; readers run READ COMMITTED queries with no
  transaction around them.
* The backfill tool writes the same rows as the indexer, at the same time.
* Inside the generator a goroutine hands signals to the main loop over channels of
  capacity one; the HTTP handlers run beside it and share the broker's map (under a
  mutex) and the page file (replaced by a rename).
* A browser tab learns of a new page by an SSE event and fetches it by a reload.

### What is hard, and what correct means

| Component | Hard part | Properties |
|---|---|---|
| Indexer | errors at any call, kills, lost commit answers, reorganisations, cancellation, waiting for ZMQ | checkpoint and rows agree; resuming skips nothing; index is append-only for readers; it catches up; it stops on a signal |
| Bundle and backfill | two writers of one row, statements that see different snapshots | spent marks survive; balance equals history; nothing left unfilled |
| Generator | merged and lost signals, queries at two moments, failing queries, a crash while the page is written | no page half done; page consistent; page follows the index; never goes back |
| Broker and tabs | full channels, reconnects, a page replaced while no one is subscribed | no update is lost; a connected tab is brought up to date |
| Explorer pages | OFFSET paging and several queries under a growing index | no block skipped; confirmations fit the next link; page window exact |
| Breaker | index arithmetic | its calls are spaced |
| RPC client | a node that stops, starts, hangs or is cut off during a call; a cookie that changes under it | one restart costs no refusal; no call hangs; the indexer is connected again |
| Statistics | a refresh that stops after any row; figures of different moments side by side | rows in order of refresh; sum covers rows; the epoch is right while the hashrate is steady; the status does not exaggerate; the table catches up |
| Address page | commits and flushes between its queries | history reaches the balance of the summary |

The hazards, each with its line and the properties that cover it, are listed under
`hazards` in `PROJECT.json`; those without a property say why.

## 2. Modules

| Module | Models | Builds on |
|---|---|---|
| `BlockIndex` | what the blocks table promises readers: one row per height, growing at its end by whole batches (abstract specification) | |
| `Ingestor` | the indexer process with node, database, socket and service manager | refines `BlockIndex` |
| `IngestorProofs` | proofs about `Ingestor` | `Ingestor` |
| `Ledger` | `insertBlockBundle` and `backfill-addresses` side by side; sums and running balances over the tables | `BlockIndex` |
| `AddressPage` | a request for an address page, query by query, beside `Ledger` | `Ledger` |
| `LedgerProofs` | proofs about the rows of `Ledger`, and that `AddressPage` only reads them | `AddressPage` |
| `LedgerHistoryProofs` | proofs about the sums over those rows, and about a page made of them | `LedgerProofs`, `SumLemmas` |
| `SumLemmas` | what sums over sets, partial sums and concatenations are, for every input | |
| `RpcClient` | configuration and RPC client of the indexer, its node and its service manager | |
| `RpcClientProofs` | proofs about `RpcClient` | `RpcClient` |
| `HomepageData` | the statistics refresh, and the figures a page is made of | |
| `HomepageDataProofs` | proofs about `HomepageData` | `HomepageData`, `SumLemmas` |
| `Broker` | SSE broker and the stream to each tab | |
| `HomepageGen` | generator main loop, goroutine, page file, tabs | `BlockIndex`, `Broker` |
| `HomepageGenProofs` | proofs about `HomepageGen` and `Broker` | `HomepageGen` |
| `RpcBreaker`, `Paging` | circuit breaker; page counts, offsets, page window | |
| `Explorer` | requests that build pages from several queries | `BlockIndex`, `RpcBreaker`, `Paging` |
| `ExplorerProofs` | proofs about `Explorer`, `Paging` and `RpcBreaker` | `Explorer` |
| `MC*` | small instances for TLC | |

`BlockIndex` is what ties the two halves together: `Ingestor` is shown to implement it
(by TLC and by proof), and the reading side is checked against it and not against the
indexer's internals. `Ledger` has its own finer view of the same transaction.
`RpcClient` justifies two simplifications of `Ingestor`: a call that succeeds is one step
that returns the tip of a moment within the call (`AnswerIsCurrent`), and every other call is
a transient or a permanent error. `HomepageData` leaves out tabs, signals and crashes, which
`HomepageGen` has, and has the figures that are one height there.

### From code to model

**Ingestor.** `pc` names the place the process has reached: `count` and `backoff` are
`retryGetBlockCount`, `dbtip` is `getDBTip`, `begin`, `hash`, `block`, `state`, `commit`
are `ingestRange`, `wait` and `reconnect` are `WaitForBlock`, `pause` and `poll` the two
sleeps. RPC shows a change of tip in `NodeExtend` or `NodeReorg`, and its message is published in
`Announce`, before or after; `lead` counts how many messages are ahead of RPC, or behind it. A message
ahead of RPC is why the code pauses 200 ms. When RPC needs longer than the pause (`Hasty`) the indexer waits
on an empty socket with the node ahead, until the receive timeout: the history variable `missed` records it, with the lost
messages. Each action is one call with all its outcomes: `RunReturns` ends the process as
`main` does, `RangeFails` is the error branch of `Run`. An error is "transient" or
"permanent" as `isTransientRPCErr` decides from its text; where the text is not fixed
by the code the choice is free. Errors wrapped with a height or a hash may contain the
digits `503`, so these are free too. A commit has three outcomes: it works, it works and
the answer is lost, it does not. A database that goes away breaks the open transaction.
`db` is what is committed, `tx` what the open transaction has staged.

**Ledger.** Rows record whether their address column is filled; address and value
themselves are fixed by the script. Each statement is a step, sees what is committed plus
what its own transaction staged, and waits for a row lock the other writer holds
(`held` for flush, `staged.spentBy` for the indexer). `blk`, `pos`, `vin` are the indices of
its three loops. The query of phase 1 may break off
between two flushes without an error (`QueryBreaks`).

**AddressPage.** `detail` is the result so far. Three queries, each over what is committed at
its moment; the error of the second is dropped and the rows of the third may break off, as
`rows.Err` is not looked at. `indexed`, `settled` and `whole` are history.

**RpcClient.** Each start of the node is an epoch; a cookie file holds the epoch that wrote
it. `pc` walks through `call`: `auth` reads the cookie, `connect` dials, `await` receives,
`handle` looks at the answer. A configuration says for each key in environment and file whether it
has no value, the node's, or an old one; `Build` makes of it what the process keeps until it
ends. What counts as transient is the list in `isTransientRPCErr`: refused connections,
resets and EOF, the deadline of `http.Client`, 503, code -28. A dial that gets no answer ends
after five seconds with "i/o timeout", which is not on it, unless `RPC_TIMEOUT` is shorter.
`from`, `restarts` and `trouble` are history of the call.

**HomepageData.** A figure is the height of the node when it was asked for, so that a row or
a page shows what belongs together. `Nominal` computes the epoch with `nominalEpochReward`
translated to integers, over rewards cut to whole units, with hashrate and peak of each algorithm free at
each height. `status` is what `SetNodeStatus` shows the operator. `good` is whether node and database
answer; a refresh that meets trouble stops where it is.

**HomepageGen.** `gpc` walks through `doGenerate`: two queries (`latest`, `stats`),
`render` into a temporary file, `rename`, `broadcast`. A page is the newest height in its
list and the height in its statistics. `tmp` is the temporary file: made with the last query (`Create`), unfinished (`part`) until the
template is executed, then `whole`, or `short` if the Close whose error is dropped failed; a crash or an
error leaves only this file unfinished. The goroutine receives, fails, or blocks on
`zmqErrCh`. `missed` is history: the page was replaced while the tab was not subscribed,
or with no broadcast to follow (the first page after a start has none).

**Explorer.** One visitor, one request at a time (requests only read). `start`, `seen`
and `mishaps` are history: what the homepage knew, what was listed since, and whether a
list was cut short or a block came between a count and its list. The block page's `GetBlockExtra` asks the
node past the breaker, in back-off as well.

## 3. Runs

| Run | Checks | Shows |
|---|---|---|
| `Ingestor` | `TypeOK CheckpointExact PrefixUntilReorg NoLostWakeup BatchInv AbstractSpec CatchesUp StopsOnSignal` | 888 000 states: the checkpoint is exact under every failure; a wake-up is lost only with its message or by a message ahead of RPC; readers see an append-only index; it catches up with or without messages; a signal stops it |
| `HomepageGen` | `TypeOK ServedWhole PageConsistent NoLostUpdate PageNeverGoesBack TabsFollowPage PageFollowsIndex` | 918 000 states: no unfinished page is served; pages are consistent, follow the index, and reach the tab |
| `Ledger` | `TypeOK SpentMatchesInputs NoOverdraft BalanceMatchesHistory BackfillComplete HistoryReachesBalance` | 142 000 states: ingest, backfill and a visitor of an address page interleaved |
| `Explorer` | `TypeOK WalkHasNoGap WalkReachesGenesis SuccessorConfirms WindowFits SpacedCalls` | 196 000 states: paging, block page, window of page numbers and breaker |
| `RpcClient` | `TypeOK AnswerIsCurrent RefusedOnlyByTwoRestarts PasswordSurvivesRestarts CallsEnd Reconnects` | 163 000 states: seven configurations against a node that fails in every way |
| `HomepageData` | `TypeOK RowsInOrder TotalNotBehindRows NominalIsEpoch StatusNotExaggerated StatsFollowNode` | 2.0 million states: refreshes that stop half-way beside a generator that reads |

Six more runs end in a violation. Each checks a sentence of the repository that the code
does not keep:

| Run | Property | What TLC finds |
|---|---|---|
| `Ingestor_backoff` | `BackoffBeforeRetry` | a transient error inside a batch is retried with no delay as long as `getblockcount` works (`ingestor.go:132-136`) |
| `Ingestor_reorg` | `Linked` | abandoned blocks stay in the best chain, under the children of their rivals |
| `Ingestor_zmq_panic` | `NoPanic` | a failed reconnect leaves a nil socket that is used again |
| `HomepageGen_emptypage` | `PageStaysCurrent` | a connection that breaks during the block query puts an empty page in place, which the poll does not notice |
| `Ledger_backfill` | `BackfillOnce` | an input ingested during the backfill can keep a NULL address |
| `Explorer_breaker` | `FirstRetryAtOnce` | the first delay of the table is never used |

### Bounds, and why they are enough

* `Ingestor`: a chain of three blocks and a rival that leaves it after height 1 and gets longer,
  one reorganisation, one kill, one message in the socket, RPC and messages apart by one change of tip, batches of two. A batch ends before,
  at and after the fork; a node may change branch, or get shorter, inside a batch; a second
  batch follows a first. Start-up failures, database outages and signals are not bounded. What
  the bounds cut off (more reorganisations, kills and blocks) the proofs cover.
* `HomepageGen`: two blocks in batches of up to two, one tab, one crash, one message in the socket, a poll at each
  tick. One tab is enough for the
  properties of a tab: `Broadcast` treats each connection alone. Two blocks are enough for a page that
  is out of date twice over and for signals that merge.
* `Ledger`: four blocks, seven transactions, flushes of up to two rows. They hold: a
  spend of an old output, of one in the same batch, twice in one block, change to one's
  own address, an output without address and one the backfill cannot decode.
* `Explorer`: six blocks, two to a page; five of them with several transactions, one of those to a page, and three page
  numbers in the window, so that it slides and is cut at either end; batches of up to three; a table of four delays with a
  leading 0 as in the code.
* `RpcClient`: three starts of the node, the least at which a call with a cookie is refused; two
  blocks, so that a tip changes during a call; seven configurations: a cookie found or named,
  passwords right and out of date in either place, with a timeout below and above that of the
  dial and without one, answers that are cut.
* `HomepageData`: two algorithms, the least at which rows can be of different refreshes; two blocks,
  between which the nominal reward falls to the next entry, so that a row can mix heights. The first algorithm is steady and
  passes its peak; the second has no peak at first, and jumps: rows of it that mix heights are those of which nothing is claimed.

### Fairness

* `Ingestor`: weak fairness of the process's own steps (a running Go program takes them)
  and of systemd's restart (`Restart=always` in `setup-env.sh`). None for the node, the
  database, messages, or an operator's start after a clean stop. A receive ends after two
  minutes at the latest because the socket has a receive timeout: it is a step of the process.
* `HomepageGen`: weak fairness of the steps of `generate` and of browser and handlers; strong
  fairness of the ticker's case (`select` picks at random among ready cases, and the ticker
  is ready every second) and of `Render` (the disk is not full for ever). Nothing makes a tab that lost its stream connect again. None for ZMQ,
  none for a restart: the unit's command exits with 0 when the tmux session ends
  (`install.sh:326-335`), so `Restart=on-failure` does not apply.
* `RpcClient`: weak fairness of the process's steps and of systemd's restart; strong fairness of the
  node's answer: one that is up and is asked again and again answers once before the deadline.
  Without a timeout the client may wait on a node that hangs for ever, so `CallsEnd` is about
  configurations with one.
* `HomepageData`: weak fairness of the indexer's steps. None for node, database or generator.

## 4. Proofs

`tlapm` checks every theorem to its leaves. Assumptions are the named `ASSUME`s of the
modules: blocks have heights, the node's chains are chains (`ChainsAssumption`), batch size
and bounds are numbers of the right sign, page sizes and window are positive,
the breaker's table of delays never gets shorter, every block has a transaction, no output is
spent twice, a cookie path that is set is the node's, algorithms, heights and hashrates are numbers.
`ChainAssumption` of `Ledger` is what a node that does not reorganise guarantees of the blocks it
serves: one to a height, a transaction, output or input in one place of the chain, and what an
input spends paid out before it. TLC evaluates each of them on the instance of its run.

| Theorem | States |
|---|---|
| `TypeCorrect` | `Spec => []TypeOK` of `Ingestor` |
| `CheckpointIsExact`, `BatchStaysExact` | `[]CheckpointExact`, `[]BatchInv` |
| `IndexIsPrefix` | `[]PrefixUntilReorg` |
| `WakeupNotLost` | `[]NoLostWakeup` |
| `ImplementsBlockIndex` | `Spec => AbstractSpec`: the indexer implements `BlockIndex` |
| `SuccessorIsConfirmed`, `WindowAlwaysFits` | `[]SuccessorConfirms`, `[]WindowFits` of `Explorer` |
| `WalkSkipsNothing`, `WalkEndsAtGenesis`, `TypeCorrect` | `[]WalkHasNoGap`, `[]WalkReachesGenesis`, `[]TypeOK` of `Explorer` |
| `CallsAreSpaced` | `SpacedCalls`: the calls of `rpcBreaker.query`; the block page's are not behind the breaker |
| `TypeCorrect` | `[]TypeOK` of `HomepageGen` |
| `PagesAreConsistent`, `PagesAreWhole`, `PageOnlyAdvances` | `[]PageConsistent`, `[]ServedWhole`, `PageNeverGoesBack` |
| `UpdatesReachTabs` | `[]NoLostUpdate` |
| `TypeCorrect`, `SpentMarksMatchInputs`, `BackfillLeavesNone` | `[]TypeOK`, `[]SpentMatchesInputs`, `[]BackfillComplete` of `Ledger` |
| `LedgerAppendsBatches` | `[][AppendBatch]_index`: beside the backfill too, readers see the promise of `BlockIndex` kept |
| `PagesOnlyRead` | `PageSpec => Spec`: visitors add nothing to what indexer and backfill can do |
| `HistoryInvariant`, `HistoryIsCovered`, `SummaryMatchesHistory` | `[](IInv /\ HInv)`, `[]NoOverdraft`, `[]BalanceMatchesHistory` |
| `OneRunFillsUnlessRaced` | `[](~raced => BackfillOnce)`: the race that `Ledger_backfill` finds is the only way an input is left out |
| `PageAddsUp`, `PageShowsAmounts` | `[]HistoryReachesBalance` of `AddressPage`; what a page shows are natural numbers |
| `TypeCorrect`, `AnswersAreCurrent`, `OneRestartIsNoRefusal`, `RestartsAreSurvived` | `[]TypeOK`, `[]AnswerIsCurrent`, `[]RefusedOnlyByTwoRestarts`, `[]PasswordSurvivesRestarts` of `RpcClient` |
| `TypeCorrect` | `[]TypeOK` of `HomepageData`: an epoch is found for every reward, hashrate and peak |
| `RowsStayInOrder`, `TotalCoversRows`, `StatusIsTrue` | `[]RowsInOrder`, `[]TotalNotBehindRows`, `[]StatusNotExaggerated` of `HomepageData` |
| `NominalNamesEpoch` | `[]NominalIsEpoch`: a row whose two heights are steady names the epoch of its reward, whatever hashrates and peaks do elsewhere |

The argument for the indexer. `CheckpointExact` is not inductive: a commit makes staged
rows visible, and nothing in it says what they are. `BatchInv` does: while a batch runs,
`batchStart` is the height after the committed checkpoint, and committed and staged rows
together are exact (`Exact`) up to the last block inserted. Each insertion extends an exact
table by one height, whichever branch the node answers from, because `getblockhash(h)`
returns a block of height `h`; the commit then turns a staged exact table into the committed
one, and every way to fail drops it. `CheckpointExact /\ BatchInv` with types is inductive.
For the prefix property the staged rows are added in the same way (`PrefixInv`); for wake-ups,
`WakeupInv` says that from reading the tip to waiting on the socket, unless a message was lost or came
ahead of RPC, a message is in the socket or still to be sent, or messages and RPC agree and the tip read is not behind
the node. For the refinement, a commit of an
exact table onto an exact table appends the staged heights in order (`AppendBatch`), and
every other step leaves `Index` alone.

The argument for the pages. `SuccessorConfirms` needs that the index grows between the two
queries and never shrinks, and that a block with a successor has a height below the tip of
the earlier of them. `WindowFits` is a fact about `PageWindow` alone (`WindowExact`): an interval as long as fits, with the
cardinality of an interval from the library, that holds the neighbours of the page shown because it is moved only at the ends, where
there are none (`Around`).

The argument for the walk. What has been seen after a page is everything from the lowest
height that page could list up to where the walk began (`Covered`): the next page begins at its
OFFSET from an index that has only grown, so at or above that end. A page that is offered was
not empty by its count (`NextNotEmpty`), so a walk that ends has come to height 0, unless the
count was older than the list.

The argument for the breaker. After a failure, the time already waited and the time still to
wait add up to the delay that was set (`BreakerInv`), so a call, which needs nothing left to
wait, comes no sooner. That the table has a longest entry, up to which
`since` counts, is where its order is used. It is about `rpcBreaker.query`, which only `generate` calls.

The argument for the homepage. `PageConsistent` says nothing of the page `generate` is still
reading. `PageInv` does: the list read is not newer than the index and, unless a broken
connection left it empty, not older than the page in place; once the statistics are read they are not behind it.
The index only grows (`IndexGrowth`), so this survives commits between the two queries, and
the rename puts a page in place of which all of it holds. What is renamed has been through `Render` (`Rendered`), and
nothing else touches the file in place, so it is never one that the template has not finished. For `NoLostUpdate` it must be added
(`UpdateInv`) that a live tab has its connection in the client map, so that a broadcast reaches it;
a rename hands the debt to the main loop, which broadcasts, or marks the tab as missed.

The argument for the ledger. A commit makes visible what the transaction has staged, so
`SpentMatchesInputs` needs `StageInv`: staged marks and staged inputs agree but for the inputs of
the transaction at hand whose turn is still to come (`Pending`), and a commit happens only when
there are none. The backfill writes addresses only. `BackfillComplete` needs that an output found
without an address is still to do until its flush commits, and that the indexer never leaves a
decodable output without one (`FillInv`).

The argument for the sums. A running balance is a recursive sum over transactions of sums over
sets of rows, and says nothing of rows one can hold on to. `RunningIs` writes it out: after `n`
transactions it is the value of the outputs the address was paid by them (`PaidBy`) less that of the
outputs they spent (`SpentBy`), because each transaction adds to both what none before it had
(`OneMore`). `NoOverdraft` is then that `SpentBy` is a part of `PaidBy`: an input has an address only when
the output it spends has it too (`KnownInv`), and that output has its place earlier in the chain.
`BalanceMatchesHistory` is that, after the backfill, what is spent by a known input is what is marked
spent: `SpentMatchesInputs` gives one direction, and `FilledInv` that no input is left whose output has
an address. To survive a commit, `FilledInv` needs to speak of staged inputs as well, and these `ReadInv`: a
batch never writes an output after an input of it was read without an address.

The argument for the address page. A commit appends transactions and leaves the sums up to those before
it alone (`CommitAppends`, `ClosedFormNext`); no flush comes after an undisturbed backfill. So the balance read
by the first query is where the history read by the third passes the last transaction that was indexed
at the first (`PageInv`), and `PageSpec => Spec` carries over all that is known of the rows.

That these sums exist at all is proved in `SumLemmas`. `MapThenSumSet`, `FlattenSeq` and `Running` are recursive
functions, which TLA+ defines by a choice among the functions that satisfy an equation; unless one is
shown to exist nothing is known of them. The library's induction is out of reach (below), but that
the numbers are well-founded is not, so a set of them has a least one (`LeastNumber`): were there sizes at which a statement fails, one would be the least, and the
statement at the size before it contradicts that. `SumExists` and `FlattenListed` are proved in this way, and
from them that sums add up over disjoint unions and differences.

The argument for the RPC client. A cookie in a header that is out of date is older than the node by at
least one start, and each of the two attempts needs a start of its own: epochs missed plus
attempts made are at most the restarts counted since the call began (`AttemptInv`). That the header holds
what the configuration says (`HeaderInv`, `ConfInv`) and that a rightful configuration without a
cookie holds the node's password (`RightfulPassword`) does the rest.

The argument for the figures. Within a refresh the rows above the one at hand are of this refresh
and the others of older ones (`PassInv`), so a stop at any row leaves them in order. A row's supply
never falls, so a sum read after the rows covers them (`DraftInv`); the node is asked first, so
its height is not above the tip at the moment the list is read, and the two heights on the terminal are no further apart
than the list was behind.

The argument for the epoch. The schedule is a recursive function of thirteen entries;
`ScheduleIs` shows that it exists, `ScheduleFalls` that each entry is at most three quarters of the one before.
The search takes an entry nearest to an estimate, and one exists (`NearestExists`, again by a least
number). The estimate is the reward, cut to whole units, scaled by the 1 + ESF of another height. If the two
are within a tenth of each other (`Steady`) the two errors together are less than half the way
to a neighbouring entry (`WholeUnits`, `EpochIsNearer`), so the nearest entry is the epoch's own. `Steady` is needed:
a reward and a hashrate that are asked for at heights of very different hashrate can name another epoch, and nothing in the code prevents that.
`NominalIsEpoch` asks it of the two heights of a row and of no others.

Every invariant and every safety action property that a passing run checks is proved. Only model-checked:
liveness (`CatchesUp`, `StopsOnSignal`, `PageFollowsIndex`, `TabsFollowPage`, `CallsEnd`, `Reconnects`,
`StatsFollowNode`), which is out of the prover's reach, as is `ENABLED`. The library's induction theorems
are too, as they take an operator as a parameter; where a recursive definition has to be reasoned
about, the induction is written out for it as above.

## 5. Not modelled, and why

* Time. A sleep is a step, so how long a back-off takes is not stated; `RpcBreaker` counts
  ticks, as its property is about durations.
* Contents of blocks and scripts, hashing, base58, floating point conversion of amounts
  and hash rates (the epoch of a reward is computed, in integers).
* `buildSyncInfo` computes a lag and a banner that `homepage.html` does not show: no page depends on it.
* The statistics above the older blocks (`/?page=N`), whose errors are dropped (`main.go:419-420`): a total of 0 may stand beside rows
  there. `TotalNotBehindRows` is about the homepage.
* A crash of the machine before the page is written back to the disk: nothing syncs the file.
* `refreshAlgoStats` writes a table of its own and only logs its errors: a stutter in
  `Ingestor`, and the subject of `HomepageData`.
* Reorganisations in `Ledger`, `HomepageGen`, `HomepageData` and `Explorer`: the indexer does not
  handle them (`Ingestor_reorg`), and `BlockIndex` says nothing of branches.
* The transactions on a block page, whose rows only the backfill changes once they are there; the parsing and
  clamping of numbers in `config.go`; `CONFIRMATIONS`, which is parsed and never used.
* `verify-schema.sh` and the installers, one-shot scripts that an operator runs.
* Layout, wording, templates, operator scripts, and code no program calls
  (`internal/ui`, `status.go`, `rpc_stats.go`, `internal/stats`, the
  computations in `stats.go` from line 98, most of the generator's RPC client).

Some behaviour is modelled and no property forbids it, because the code allows it: a page replaced while a tab is not
subscribed brings it no event (`missed`); network trouble and a missing cookie end the indexer, and systemd starts it
again; a query of the backfill that breaks off leaves what it did not reach; the class of an error whose text the code does not
fix is free; a page left short by a failing Close stays until the next block.

Sentences of the repository the models contradict without a run of their own:

* `render/homepage.go:131` says the page is written atomically; the error of the Close before the rename is dropped (`Render`).
* `main.go:175-178` of the generator says an overloaded node is not hammered; every block page asks it past the breaker
  (`GetBlockExtra`).
* `ingestor.go:23-25` counts connection timeouts as safe to retry; a dial that times out after
  five seconds is not retried (`Dial`).
* `rpc/client.go:57-59` says a node restart is handled without restarting the indexer; a
  call while the cookie file is missing ends the process (`AuthHeader`), and systemd starts it again.
* `config.go:18` says the cookie file is used when `RPC_PASS` is unset; one that is named wins over a
  password (`Build`).
* `schema.sql:182` says the statistics are updated about every 90 blocks; they are at every turn
  of the loop at the tip (`AtTip`).
* `addressdetail.go:8-9` says nil means no transactions; so does an address whose outputs are all worth 0
  and unspent (`CountInputs`).
* `README.md:329` says blocks behind `CONFIRMATIONS` are left alone; the indexer follows the tip.

## 6. Possible extensions

1. `Ledger` under a reorganisation: what the address page shows when the indexer leaves
   abandoned rows in place.
2. `Migration`: `verify-schema.sh` run again after a failure and over an old schema.
3. A refinement of the calls in `Ingestor` by `RpcClient`, which today share only the
   properties named above.
