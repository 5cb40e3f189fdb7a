# True North Atlas: formal models

TLA+ models of True North Atlas, the Bitcoin on-chain analytics service in this
repository, with the TLC configurations that model-check them and the proofs
TLAPS checks. Paths below are relative to the repository's root.

## The system

```
Bitcoin Core --RPC--> sync worker --SQL--> Postgres <--SQL-- read API <--HTTP-- browser
 (external)      server/src/sync.js                  server/src/api.js       web/
                 metricsDaily.js prices.js           explorer.js alerts.js
                 rpc.js                              newsletters.js keys.js email.js
```

Two kinds of process share one database. The *worker* (one at a time, by an
advisory lock) replays blocks into tables and finalizes one metrics row per UTC
day. The *API* process only reads those tables, and owns tables of its own:
alerts, subscribers, newsletters, API keys, the e-mail log, metric copy. They
interact through the database alone: the alert checker reads the rows the worker
finalizes, the explorer reads blocks and outputs while a rollback may be removing
them.

### Components

| Component | State | Operations | What is hard | What makes it correct |
|---|---|---|---|---|
| Sync worker (`sync.js`) | `blocks`, `block_agg`, `utxos`, `day_active_addresses`, counters in `chain_state`; in memory `heightMeta`, `lastPrune` and the locals of a pass | `checkReorg`, `rollbackAbove`, `fetchBlocks`, `processBlocks`, `pruneSpent`, the endless loop | the node reorganizes between any two calls; calls fail; a COMMIT is applied and its answer is lost; the process dies; the in-memory index outlives failed transactions | the tables are a function of one branch; counters equal the tables they summarize; a rollback is the exact inverse of processing; the worker ends on the node's chain |
| Daily roll-up (`metricsDaily.js`) | `metrics_daily`, `last_metrics_day_epoch`, cumulative counters | `snapshotAndRollupDay`, `repriceProvisionalDay`, `resetRollupFrom` | called between two transactions of a batch, again after a failure, and undone by a reorganization in a transaction of its own | a row is exactly its day; no day twice, none missed, none that survives its blocks |
| Price history (`prices.js`) | `prices`, `provisional:<day>` marks, a per-process cache | `syncPrices`, `upsertPrices`, `priceForDay`, `assertNoPriceGaps`, `getSpot` | a tip day is priced before its close exists; providers revise closes; the cache outlives a revision | a coin's creation and its spend see one price; the realized-cap counter equals the live set |
| RPC client (`rpc.js`) | request counter | retry with backoff, JSON-RPC batches, concurrent lanes | retries, partial batch failures | a batch is answered as a whole or not at all |
| Write lock and watchdog (`sync.js`) | a Postgres session, a timer | acquire, exit on loss, exit on stall | two workers during a deploy; a lost lock session with writes in flight | one writer; a dead stage restarts the process, a slow one does not |
| Price alerts (`alerts.js`) | `alerts` | create, confirm, unsubscribe, periodic check | e-mail is sent before the firing is recorded; checks overlap; several days finalize between two checks | one e-mail per crossing, none after unsubscribing |
| Newsletters (`newsletters.js`) | `subscribers`, `newsletters` | subscribe, confirm, unsubscribe, draft, schedule, cancel, dispatch | a crash while sending; unsubscribing during a dispatch | each campaign is dispatched once, to confirmed readers |
| E-mail (`email.js`) | `email_log` | send, log | an attempt fails before or after the provider took it; the log row is a statement of its own, which may fail (`email.js:138`) | its callers take an attempt for what it was: sent, or failed; a log row for every attempt is not claimed (see the disagreements) |
| API keys (`keys.js`) | `api_keys`, usage counts | verify a key and count its use; mint and revoke keys and admins | a revocation between the two queries of a request; counts nobody awaits | a revoked admin finishes at most what was in flight; every use is counted or known to be lost |
| Explorer (`explorer.js`) | block cache, request deduplication, node-liveness memo, rate-limit windows | block, transaction, address, search | deadlines racing answers, caches against reorganizations, shared in-flight requests | an answer is of the chain it names; a limit is never exceeded |
| Read API (`api.js`, `og.js`, `catalog.js`) | memos | series, cycles, heatmap, latest, cards | two statements of one route see two tips; memos against new rows; downsampling boundaries | first and last points kept, a value and its history of the same days, no stale memo beyond its life |
| Metric copy (`metricCopy.js`, the editor of `Admin.jsx`) | `metric_copy` | read, edit, reset | an editor sends both panes from the copy it loaded, whatever was stored or released since | a pane nobody typed in is not stored; a save is what the site shows |
| Derived charts and story (`bottoms.js`, `cycleCharts.js`, `clock.js`, `storyCharts.js`, `story.js`, `heatmap.js`, `supply.js`) | none | pure functions of the daily rows | boundaries of halvings, windows and buckets; days without a row, a price or a reading; several charts that quote one quantity | agreement with a reference definition, and with one another |
| Web frontend (`web/src`) | what a page, a form or an editor holds | navigate, load, poll, search, chart, compose, sign up | answers of what was left come after those of what was opened | the page shows what its address says; a form sends what it shows, once |
| Operator scripts | none | run by hand | - | - |

`PROJECT.json` lists the same components with their status, and every hazard
with the line where it bites.

## Modules

The worker:

| Module | Models |
|---|---|
| `ChainTables` | the tables and what each SQL transaction of the worker does to them, as operators from tables to tables |
| `SyncWorker` | the worker process: one action per await of `main()`, `checkReorg`, `rollbackAbove`, `fetchBlocks`, `processBlocks`, `snapshotAndRollupDay`, `resetRollupFrom`, `pruneSpent`; the node; failures and crashes; the properties |
| `Ledger` | the abstract specification: a chain, and exactly the unspent outputs its replay gives |
| `MCSyncWorker` | the universe of blocks, coins and days TLC explores |
| `PriceBook` | the daily closes, the provisional flags, the price cache of the process, and the realized-cap books they move: `syncPrices`, `upsertPrices`, `assertNoPriceGaps`, `priceForDay`, `repriceProvisionalDay`, the gate |
| `SyncLock` | several worker processes, the advisory lock and its line, lost sessions, and transactions that read in one step and write in another |
| `FetchLanes` | `fetchBlocks` and `call` of `rpc.js`: lanes that share an index, retries, lanes left behind by a rejected fetch |
| `Watchdog` | the stall watchdog and the stages of a pass, in discrete time |

The API process:

| Module | Models |
|---|---|
| `Mail` | the four ways one call of `sendEmail` may end |
| `Alerts` | create, confirm, unsubscribe, `checkAlerts` with overlapping runs; the worker finalizes and rewinds days meanwhile |
| `Newsletters` | the mailing list, the editorial states, `processNewsletters` with overlapping and interrupted runs |
| `AccessKeys` | `adminAuth`, `rootOnly`, `requireApiKey`, minting, revoking, counting |
| `BlockPages` | block pages: deadline, shared calls, cache, node memo, back-fill of sizes |
| `TxLookup`, `AddressView`, `RateWindow` | `getTx` and `search`; `getAddress`; `publicRateLimit` |
| `ReadApi` | `/api/latest`, `/api/heatmap` with its memo, `/og` with its card cache |
| `SeriesRows` | `/api/cycles/:slug` and `/api/series/:slug` |
| `MetricCopy` | `metric_copy` and the editors that write it |

What is computed from the daily rows:

| Module | Models |
|---|---|
| `DailyRows` | the rows a chart route reads: days come in order, some without a price, the newest may be taken away; no properties of its own |
| `Cycles`, `CyclesGrow` | the cycle detector of `bottoms.js`, the days around the lows, the rallies; its answer before and after a day is appended |
| `CycleCharts` | runs, drawdowns and scorecard of `cycleCharts.js` |
| `EpochHour` | the cycle clock, the same hour of earlier epochs, the days since |
| `StoryCharts`, `Story` | the panels of `storyCharts.js`; the sentence of `story.js` |
| `Heatmap`, `Supply` | the cost-basis rows and clusters; the supply curve and halving markers |

The web app:

| Module | Models |
|---|---|
| `ExplorerPage` | the explorer: routes, effects, polls, search |
| `MetricPage`, `MetricRows` | the metric page's effects and their answers; the rows its chart is drawn from |
| `ChartLabels` | where marks and labels go |
| `Composer`, `SignupForms` | the newsletter editor; the alert and subscribe forms |

Model-checking and proof modules:

| Module | Holds |
|---|---|
| `Services` | the services around the tables, side by side: twenty small instances, their properties, fairness |
| `SitePages` | the pages, the forms and the answers of several statements, side by side: nine small instances and their properties |
| `MCServices` | the bounds of `Services` |
| `MCSite` | `SitePages` and the twelve instances that are computed from the rows, their properties and the bounds of all |
| `SumTheorems` | lemmas on sums |
| `SyncWorkerProofs` | the worker: what the table operators preserve; types, index, rows; the supply and the roll-up |
| `SyncLedgerProofs` | its days and staging table, the stored branch, the refinement of `Ledger`, prices and finalized rows |
| `PriceBookProofs` | the price books |
| `NewslettersProofs` | the newsletters |
| `ComponentProofs` | the lock, the lanes, the watchdog, the keys, the limiter, the pages of the explorer, the alerts |
| `ServicesProofs` | that what is proved of the components holds in `Services` |
| `SitePagesProofs` | the pages, forms and answers of `SitePages` |

### How the instances are composed

`SyncWorker`, `PriceBook`, `SyncLock`, `FetchLanes` and `Watchdog` are five views of
one process: each keeps what its question needs of the pass (the tables of a branch;
prices and stamps; two processes and split transactions; lanes; time) and abstracts
from the rest, and they are not composed with one another. Beyond the worker, every
table has one writer among the components, and the others read it. What
a neighbour does to a component is therefore part of its module (days are finalized and rewound inside `Alerts`,
`ReadApi` and `DailyRows`, the node and the worker move inside `BlockPages`,
`TxLookup` and `AddressView`), and `Services`, `SitePages` and `MCSite` put the
components side by side: `part`, chosen by the first state, names the component that runs,
and the others keep their initial state. The state space is the sum of the parts'
and not their product, and loses no behaviour, since nothing is shared. A
component with two interesting corners is instantiated twice with different
bounds (`Watch` has one checker and rewinds, `Overlap` two checkers without them).
The constants of an instance are one record (`ForWatch`), so that the modules keep
them open and only the `MC` modules fix them (`ForWatch <- MCForWatch`).
Components that do interact through state are composed for real: `SyncWorker`
with `ChainTables`; `MetricCopy` is the editor and the table; `Newsletters` and
`Alerts` take `Mail`'s outcomes; the charts extend `DailyRows` and `Cycles`.

### How SyncWorker corresponds to the code

A block is a constant with a content (outputs it creates, inputs with the height
of their prevout, value burned in OP_RETURN outputs, the UTC day of its
timestamp); a branch is a function from heights to blocks. A table is a function
from its primary key. `index` is `heightMeta`; only the day of an entry is kept,
because that is what prices a spend. Of the counters, `supply`
(`circulating_supply_sat`) and `coinDays` (`cum_coindays_created`) are kept: the
supply is the exact one of the reconciliation gate, and the other one stands for
the accumulators of the roll-up. A metrics row keeps the four things the formulas
are computed from: the day's blocks, the live set, the active addresses and the
supply. `agg[h]` records the day at whose close each input of block h was priced.

An action is what happens between two awaits. `pc` says where `main()` stands:

| `pc` | code | actions |
|---|---|---|
| `down` | not running | `Boot` (lock, prices, `loadHeightMeta`) |
| `pass` | top of the loop, or sleeping | `StartPass` |
| `scan` | `checkReorg` | `ProbeAgrees`, `ProbeFails`, `RollBack` |
| `rewind` | between the COMMIT of `rollbackAbove` and that of `resetRollupFrom` | `RewindMetrics` |
| `info` | `getBlockchainInfo` | `ReadNodeTip` |
| `fetch` | `fetchBlocks` | `FetchBlock(h)`, in any order |
| `process` | the loop over the batch | `FlushRun`, `RunFails`, `FinalizeDay`, `SkipFinalizedDay`, `RefuseToFinalize`, `BatchStored` |
| `prune` | the end of the pass | `EndPass` |

Every transaction has a parameter `answered`: FALSE is a COMMIT that took effect
and whose acknowledgement was lost. `PassFails` is an error that leaves the
database alone. `RunFails` is an error inside `processBlocks`, which also leaves
index entries behind, because `heightMeta` is written before COMMIT. `Crash` is
the death of the process for any reason. A block served by hash stays available
after it goes stale, so a lane of `fetchBlocks` takes effect when it reads the
hash.

Abstractions: the poll and retry sleeps are the idle time in `pass`; prices are
represented by how far the stored closes reach (`closes`); the statements of one
transaction are one step, since no other process writes these tables; the float
accumulators and the metric formulas are left out; missing prevout data and
outputs above inputs, which the code refuses, are inputs a valid block never has.
`processBlocks` refuses a run whose prevout heights the index does not know: that
is `RunFails` without a fault, and no run reaches it.

### How the other modules correspond to the code

The rules are those of `SyncWorker`: an action is what happens between two awaits,
a transaction or statement is one step unless its reads and its writes matter
separately, an outcome of a call is chosen with `\E`.

- `PriceBook`: block h creates one coin of one unit and spends any live ones; a
  coin keeps the price it was stamped with, `credit` and `spentAt` what the counter
  took in and out for it. `flags` are the `provisional:<day>` keys, `cache` the
  map of `priceForDay`. `MayRevise`, `MayReopen` and `MayLoseAck` let providers
  revise closes, a reorganization reopen a day, and a COMMIT lose its answer.
- `SyncLock`: `line` is Postgres's queue of `pg_advisory_lock`. `base` is the value
  an open transaction has read; `RollupRereads` is the second `getState`.
- `FetchLanes`: `fetch` numbers the fetches, a lane belongs to one, and a lane
  whose fetch was rejected keeps running.
- `Watchdog`: `elapsed` and `idle` count ticks since the last feed; a stage's calls
  have the budget of `call` with its retries, a stage on the database may hang.
- `Alerts`: the rows of one address on one metric; `mailed` and `fired` are
  histories. `Newsletters`: `inbox` holds what each reader got, `listed` the list a
  run read. `AccessKeys`: a request is between its two queries, `after` counts what
  a revoked admin still did.
- `BlockPages`: `inflight` are the shared promises, `entries` the LRU cache, an
  `answer` says which block and page it is of. `TxLookup` has one action per query
  and call of `getTx` and `search`.
- `ReadApi`: a row is a reading, `req` the statement a request has reached.
- The charts are functions of `rows`; the single action `Read` is the request that
  computes them. Prices are small integers, ratios pairs of integers, a median is
  doubled, an angle is in thousandths of a turn, so that everything stays exact.
- `ExplorerPage` and `MetricPage`: `effect`/`live` is the effect now mounted, an
  answer carries the effect that asked, and the cleanup flag (`alive`, `cancelled`)
  is whether the two are the same, where the code has such a flag.
- `Composer`, `MetricCopy`, `SignupForms`: the editor or form as the component's
  state, the call under way, and the server's rows.

## Runs

There are twelve runs. Ten are of the worker, one of the services and one of the
site; each property of a passing run is broken by at least one plausible bug in the
code (the 135 mutants of `PROJECT.json`, one or more for each conjunct below).

### The worker

These runs use `MCSyncWorker`: eleven blocks on three branches of length six that
fork at heights 3 and 4, a chain of three spends of one coin that the branches
mine at different heights and sometimes inside one block, and burned value. The
runs differ in the assignment of days and in what the environment may do.

| Run | Environment | Shows |
|---|---|---|
| `SyncForward` | one branch, two errors or crashes, one failed probe | every finalized day is exact (`FinalizedDaysExact`), none is missed (`NoDayMissed`), value is conserved (`SupplyIsUnspentPlusBurned`), the worker catches up (`CatchesUp`) |
| `SyncReorg` | two reorganizations of one block between passes, one error or crash, rival blocks of one height share a day | the tables implement `Ledger` (`ImplementsLedger`), hold one branch (`StoredChainLinked`), price a spend as its creation (`SpendsPricedAtCreation`), and the daily and liveness properties above |
| `SyncAdversary` | reorganizations of up to three blocks at any moment, two failed probes, one error or crash | what holds regardless: `TypeOK`, `IndexAgrees`, `RowsBacked`, `SupplyReconciles`, `RollupReconciles`; and `StagingExact`, since rival blocks of one height share their day here (`SharedDays`) |
| `SyncRewind` | as above without errors, a day per block | `NoRowAheadOfChain`: rows of abandoned days are gone before fetching resumes |

### The services

`Services` (module `MCServices`) asks whether the processes and routes around the
tables hold what they promise, and whether what is waited for comes.

| Property | Says |
|---|---|
| `SingleWriter` | one worker is past the lock; no counter update is lost and no day counted twice; also after lost sessions, without rollbacks, the counters match the blocks |
| `ResolvedIsComplete` | a batch handed on is whole and in order, no height is fetched twice, a failure is told at once |
| `ExitsExactly` | the watchdog spares a worker whose calls answer in their budgets, and stops one that hears nothing |
| `PricesReconcile` | the realized cap is the sum over the live coins, a spend sees its coin's stamp, a pinned price is marked, the cache never answers for a close that is gone; whatever is revised or reopened, a rollback takes back what its blocks put in |
| `CrossingsMailed` | with one checker a crossing is mailed once, also when its day is rewound and finalized again; however checks overlap, what is mailed is a crossing of a confirmed alert |
| `NewslettersWhole` | no address gets a newsletter twice, all get one text, nobody a draft, `sent` means the whole list, only who wanted it is on it |
| `RevocationBinds`, `RevocationStands` | a revoked admin finishes at most what was in flight and undoes no revocation; every use of a key is counted or known to be lost |
| `PagesShare` | one call per key, a bounded cache, an answer is of the page asked for, a back-filled size is of the block in the row |
| `AnswersAgree` | height and block of a transaction agree, each part of an address page is exact for a tip (not all of one tip: the statements are not one transaction), the limiter lets through exactly the first requests of a minute |
| `ScreenIsTheRoute` | the explorer shows what its address says, with one poller |
| `Progress` | a waiting worker gets the lock; a fetch is settled and its lanes rest; a due newsletter is sent or put back, while no run is cut short; enrichment ends and an unreachable node is asked again; a page ends with data or an error |

### The site

`Site` (module `MCSite`) asks whether what is made of the daily rows is consistent.

| Property | Says |
|---|---|
| `ChartsAgree` | the cycle of an epoch long over never changes, one bad print makes no bear, the largest rally is the largest; runs and bears take turns and fill the time between peaks, three lengths of one bear agree, the clock's readings are the nearest and in order |
| `StoryAgrees` | the facts a panel or sentence states are so in the rows |
| `SupplyExact` | the curve issues what the blocks issue one by one; no coin is lost between heatmap buckets and rows |
| `RowsShown` | thinned series span their range; averages are of whole windows; a few labels never clash |
| `AnswersAreWhole` | until a day is taken back, a heatmap that is sent has the days it was asked for as they are stored, and a sparkline reaches the day of its value, although days are finalized between the statements |
| `ScreenIsTheMetric` | the metric page's story is its metric's in whatever order answers come, and everything drawn is, when they come in order |
| `CopyTellsTheTruth` | through releases, a pane nobody typed in is stored only as an earlier release's text, a differing text has its row, and a row equals the built-in text only where a release brought what was typed; with one admin and no release, an idle list shows what is stored |
| `FormsSendOnce` | until an answer strays (below): one newsletter however often it is saved, and one more at most for each create that was stored and never answered; an unchanged editor shows what is stored. Always: one request of a form at a time, and one that reports success was accepted |
| `StepsHold` | until a create's answer strays, no step puts one newsletter's text under another's id; always, a save is what the site shows and no card is older than an hour and its making |

Some of these hold only under a named premise, because the code's answer to the
rest is a disagreement listed below: `PriceBook` without revisions and reopened
days for the realized cap (`settling`), answers that come in order (`InOrder` in
`MetricPage`, part `choosing`), one checker for `OncePerCrossing`, no interrupted
run for newsletters that are owed (`MaxStops <- 0` in `Dispatch`), no lost session
for `OneWriter`, no day taken back for `AnswersAreWhole`. The parts
`revising`, `racing`, `overlap`, `sending` and `lost` are the environments without the
first five, with what still holds there; `released` is that of the text editors when
releases come.

The composer has no such environment but a history variable. Its admin may leave
the editor, open another newsletter and come back while a request is under way, and
answers may be lost. `strayed` becomes true when a create's answer reaches an
editor that did not send it, or an update is stored behind an editor that was filled
from the row before it; from then on nothing but its type is claimed of that
behaviour, although TLC goes on exploring it. `unseen` has the newsletters whose
create was stored and never answered. `SignupForms.Refuse` covers a request that was
accepted and whose answer is lost: the form then says it failed.

Two admins who edit one metric overwrite each other, the last save wins; no property
counts that as a fault.

### Disagreements with the code's own statements

Each of these runs ends in a counterexample to something the code's comments or
the README promise; the quotations are in `PROJECT.json`. Only the last
and `SyncLateRival` need a failure.

| Run | Property violated | Behaviour |
|---|---|---|
| `SyncDeepReorg` | `StoredChainLinked` | a reorganization two blocks deep between two passes: the scan meets the mismatch at the tip, rolls back one block and returns; the abandoned block below stays, and the new branch is stored on top of it. The scan depth (5 here) is not the cause |
| `SyncRace` | `StoredChainLinked` | a one-block reorganization between the scan and the fetch: no fetched block's parent is compared with the stored tip |
| `SyncMidnightReorg` | `FinalizedDaysExact` | the first block of day 2 is replaced by a last block of day 1: day 1 stays finalized without it |
| `SyncLateRival` | `SpendsPricedAtCreation` | a run fails after it wrote index entries, the block is replaced by a rival of another day, and a same-block spend finds the old entry |
| `SyncBackwards` | `FinalizedDaysExact` | a timestamp steps back over midnight, as consensus allows |
| `SyncRewindCrash` | `NoRowAheadOfChain` | the process dies between the rollback's COMMIT and the metrics rewind |

More were met while the other modules were written. Each was a TLC counterexample to
the statement quoted; the two composite runs state what holds beside them.

| Where | The code says | The code does |
|---|---|---|
| `prices.js:90` | creation and spend of a coin "must always see the same number" (`prices.js:184`) | a revised close of a day not finalized is stored, and a coin stamped before is spent at the new one |
| `metricsDaily.js:93` | the re-pricing keeps `rollbackAbove()` "exactly reversible" (`:57`) | only live coins are re-stamped: roll back a spend from before, and its coin is live with the provisional stamp |
| `metricsDaily.js:114` | "from here on priceForDay(day) must answer with the finalized close" | when COMMIT's answer is lost, `bustPriceCache` is skipped and the cache keeps the provisional price |
| `sync.js:53`, `sync.js:126` | "Single-writer guarantee" (`:41`) | a lock session lost with a transaction open lets a second worker in: a day counted twice, or a lost update of a counter when one of them rolls back |
| `rpc.js:158` | `rpcConcurrency` is the number of "parallel getblock calls" (`config.js:47`) | lanes left by a rejected fetch run on beside those of the next |
| `sync.js:550` | "a loop pass must succeed every syncStallExitMs" (`:528`) | the probe feeds the watchdog: a loop whose passes all fail after it never exits |
| `alerts.js:133`, `:159` | "idempotent across checker runs" | two overlapping checks, or a crash between mail and mark, mail twice |
| `alerts.js:53` | "alert limit reached for this address" | counted and inserted by two statements: two requests pass together |
| `alerts.js:121` | fires when "the previous day did not (or was null)" (`:8`) | days without a value are skipped, so that the day before is an earlier one |
| `newsletters.js:242` | "any newsletter whose scheduled_at has passed is sent" (`:18`) | one interrupted in `sending` stays there |
| `email.js:138` | "the audit trail is complete by construction" (`:4`) | the log row follows the delivery in a statement that may fail |
| `explorer.js:128` | cached blocks have "only their nextblockhash" refreshed (`:113`) | only while it is null: a successor that was replaced stays |
| `explorer.js:253`, `:296` | 0 confirmations is the mempool | a block rewound between two statements gives a mempool transaction its old depth, and a failed header call gives a mined one 0 |
| `explorer.js:411` | a tracked transaction is found without txindex (`:13`) | a slow block's shell is taken for the block, and the transaction is not looked for |
| `explorer.js:349` | "Balance and UTXOs reflect the synced chain tip" (`:386`) | they reflect two tips when a block is committed in between |
| `explorer.js:433` | "bounded memory" (`:432`) | counters of the same minute are never dropped |
| `bottoms.js:93` | "a new lower close moves it" (`:17`) | not a single one: the trough of the median stays where it is |
| `cycleCharts.js:45` | from a low "to the next cycle's peak" (`:4`) | the highest close up to that peak, which may be another |
| `clock.js:55` | "The last day always lands on the ring" (`:66`) | on the halving day the angle is 0/0 |
| `storyCharts.js:146` | "the same span after prior lows" (`:12`) | rows are counted against days: a missing day makes it longer |
| `story.js:53` | "How long the latest reading has been where it is" (`:44`) | 0 days, when the newest rows have no reading |
| `api.js:397` | anchored at the chain tip's height and supply (`supply.js:4`) | two statements, which a block may fall between |
| `api.js:400` | "every halving marker" (`:391`) | a halving that is past and not in HALVINGS has none |
| `api.js:98` | "<= 500 points" (`:92`) | 501: the newest is appended |
| `api.js:202` | memoized "per finalized day" (`:194`) | keyed by the newest day: a day rewound and finalized again is served as it was |
| `api.js:342`, `:345` | "percentile of the latest value" (`:336`) | of a null, 0; of another value, when a day is finalized between the statements |
| `Admin.jsx:232` | text identical to the default is NULL, so that later edits "are not silently masked" | an editor opened before a release stores the pane nobody typed in |
| `NewsletterTab.jsx:53`, `:80` | the editor is null or a whole newsletter (`:17`); the prompt names the edited subject (`:76`) | Back before a create's answer leaves an id without text, and another newsletter opened before it gets the id, and with the next save the text of the one under the id of the other; Send sends the stored text |
| `Explorer.jsx:88`, `:191`, `:384` | "No blocks synced yet"; "will appear here when it arrives"; the address of the route | shown for a failed request; not after the last poll; the address left may answer last |
| `MetricDetail.jsx:154`, `:194` | the metric's cycles; "only one timer" (`:193`) | those of the metric left, when they answer last; each flash starts a timer |
| `AlertForm.jsx:19` | the alert on this metric was sent (`:35`) | the form's state outlives the metric |
| `cycleRows.js:75` | a label drops "until it no longer overlaps" (`:67`) | a bounded number of times |

### Bounds, and why they are enough

Chains of six blocks with batches of two give three batches, so boundaries fall
inside a batch, between two batches and right after a restart. Two reorganizations
let a rollback follow a rollback and return to the first branch. One error (two on
the single branch) reaches every step of a pass, and the pass after it sees the
state it left. `PruneEvery` is 1, so pruning happens in each long pass, and
`PruneDepth` 0 or 1 puts it right at the depth of the reorganizations: the
boundary case. `LastClose` is one day beyond the last that can be finalized. Every
bound is a guard (`faults < MaxFaults`, ...) or a constant of the configuration;
there is no state constraint. Deadlock is checked in every run of the worker.

The constants of the other parts are records of `MCServices` and `MCSite`
(`MCForHeld`, ...); what they were chosen for:

- two of every actor that overlaps with its kind (workers, lanes, checkers, ticks,
  requests, admins), three requests for a revocation, three addresses at a limiter
  that keeps as many counters: enough for one to pass between two steps of another;
- one fault, rollback, rewind or crash, two where one must follow another; one to
  three heights or days more than the longest rule looks back;
- `Watchdog`: a threshold of fifteen ticks against a call budget of six and stages
  of seven keep the margins of the configured half hour (`MarginAssumption` is the
  inequality between them);
- `DailyRows`: five to eight days with two halvings, three or four prices, a median
  of three or five days, give every shape of an epoch: none, open, over, over by
  less than the median's window; a flagged day, a day without a row, a close of 0;
- `Supply`: halvings every four blocks with subsidy 9, 4, 2, 1, 0 reach the epoch
  that issues nothing; `Heatmap`: seven edges that cut buckets of width two at and
  between their ends; `SeriesRows`: eleven days over three halvings against three
  points; `ReadApi` cards: seven ticks against a life of three.

`Services` and `Site` do not check for deadlock: their histories are bounded, and a
component whose callers have stopped asking rests, as the program does.

### Fairness

`FairSpec` assumes weak fairness of `Boot` (the platform restarts the worker) and
of `WorkerStep` (the loop catches every error and retries for ever, and each await
ends in an answer or an error: RPC calls have time-outs), and strong fairness of
`StartPass` refreshing the prices to the last published day: each price refresh
may lag, but a provider that is asked over and over ends up publishing past days.
Failures are never fair: their number is bounded, since a node that is always
unreachable is never caught up with.

`Services!Fairness` is weak fairness of what ends by itself: Postgres serves the
queue of the lock, the platform stops the outgoing worker when the new one waits
and a worker without its session is told by its connection; every call to the node
and the mail provider ends, by its time-out at the latest, and what awaits it goes
on; timers and intervals fire. Nothing is assumed of readers, administrators, the
chain or failures. `Site` states no liveness.

## Proofs

| Theorem | Premise | Run |
|---|---|---|
| `TypeCorrect`, `IndexAlwaysAgrees`, `RowsAlwaysBacked` | none | `SyncAdversary` |
| `SupplyAlwaysReconciles`, `RollupAlwaysReconciles` | none | `SyncAdversary` |
| `StagingAlwaysExact` | `SharedDays` | `SyncAdversary` |
| `NoDayEverMissed` | `SharedDays` | `SyncForward`, `SyncReorg` |
| `NoRowStaysAhead` | `SharedDays`, `SharedGenesis`, `MaxFaults = 0` | `SyncRewind` |
| `StoredChainAlwaysLinked` | `Benign` | `SyncReorg` |
| `LedgerImplemented` (the refinement) | `Benign`, `ValidBranches` | `SyncReorg` |
| `SupplyConserved` | `Benign`, `ValidBranches` | `SyncForward` |
| `SpendsAlwaysPricedAtCreation` | `Benign`, `ValidBranches`, `SharedDays` | `SyncReorg` |
| `FinalizedDaysStayExact` | `Benign`, `ValidBranches`, `SharedDays` | `SyncForward`, `SyncReorg` |
| `LockMakesSingleWriter` | none | `Services` |
| `FetchesComplete`, `ExitsAreExact` | none | `Services` |
| `PricesAlwaysReconcile` | none (the property names its own) | `Services` |
| `CrossingsStayMailed`, `NewslettersStayWhole` | none | `Services` |
| `RevocationsBind`, `RevocationsStand` | none | `Services` |
| `PagesStayShared`, `ExplorerAnswersAgree`, `ScreenStaysTheRoute` | none | `Services` |
| `TypesStayRight` | none | `Services` |
| `AnswersAlwaysWhole`, `ScreenIsAlwaysTheMetric` | none (each property names its own: until a day is taken back, answers in order) | `Site` |
| `CopyAlwaysTellsTheTruth` | none (one conjunct is for one admin and no release) | `Site` |
| `FormsAlwaysSendOnce`, `StepsAlwaysHold` | none; what they say of the composer is until `strayed` | `Site` |

Every safety property of the services, and every one of the site about
pages, forms and answers of several statements, is a theorem of this table. Each of
the services' rests on a theorem about the component alone, listed with its argument
below. The constants are those of the record of each part, and the only assumption
is the one its module names (`ServicesAssumption` and `PagesAssumption` are their
conjunctions): that bounds are numbers, sets are of the right kind, and for the
watchdog that its threshold has the margin the defaults have.

A theorem of the worker holds for every set of branches, every batch size, scan
depth, prune interval and bound on faults and reorganizations. All rest on
`ChainAssumption` (the branches are chains over well-typed blocks with finitely
many coins, no longer than `MaxHeight`) and `WorkerAssumption` (the parameters are
numbers). With them every safety invariant that a passing run of the worker checks,
and the refinement, is proved.

### The premises

`SyncWorker` states, in a section of premises, what else a theorem may need. All are about constants, the
chain and the node, since nothing in the code secures them. `MCSyncWorker`
evaluates those about the chain (`PremisesMet`) on the universe of the runs.

- `ValidBranches`: a chain creates a coin once, spends it once, not before it is
  created, and an input names the height of its coin. Every Bitcoin node enforces
  this, apart from the two coinbases that were mined twice before BIP 30.
- `SharedDays`: rival blocks of one height are of one UTC day and no later height is
  of an earlier day. Where midnight falls between rivals, or a timestamp steps back,
  the code loses blocks of a finalized day or prices a spend wrong
  (`SyncMidnightReorg`, `SyncLateRival`, `SyncBackwards`).
- `Benign`: the node abandons no block, or at most its last one between two passes
  while the probes of the scan answer. Beyond it two branches are stored on top of one
  another (`SyncDeepReorg`, `SyncRace`).
- `MaxFaults = 0` for `NoRowStaysAhead`: a crash between the rollback and the
  rewind leaves the rows (`SyncRewindCrash`).

### The worker: types, index, rows

`SyncWorkerProofs`. None of the three statements is inductive alone. The index
stays right because a run starts right above the stored tip, and that is a fact
about the locals of the pass: `Control` says that the scan probes a stored height,
that a batch being fetched lies above the tip and within the node's chain, and that
every block still to be processed has been fetched. `IInv` is the conjunction, with
one lemma per action; the first section of the module proves what each table
operation preserves. The lemmas on `Min` and `Max` come from the well-foundedness of the
naturals.

### Sums

A sum is the community modules' `SumFunctionOnSet`, a fold in an order that a
`CHOOSE` picks, and a fact about folds would need induction over an operator.
`SumTheorems` goes round it: `UnitSum` counts the same number as a cardinality, one
pair for each unit of each value, the fold is shown equal to it by a least
counterexample over the fold's own function, and additivity over disjoint sets is
that of `Cardinality`. This is why `ChainAssumption` says that a block has finitely
many coins.

### The books

`SyncWorkerProofs`, after the types. `OnlyWrites` reduces a step to the five that write these tables.
The supply is kept by its table, since a rollback subtracts exactly the rows it
deletes. The roll-up needs that too (`RollupInv`): what is added to `coinDays` is
the supply, and a day is finalized only after every day with a row, which makes its
row new.

### The days

`SyncLedgerProofs`. Under `SharedDays` there is a calendar, a function `day` from heights
to days for all branches (`CalendarExists`: that of the longest). Against it,
`DaysInv` says that the rows are closed downwards along the chain and that the day of
the run being collected is the tip's, or the next block's once the tip's has its row
(`DayOfRun`), which is why a boundary between two batches, after a restart or after a
failed run is not missed. `StagingInv` splits exactness in two inclusions:
every sighting is of a stored block, and every touch of an open day is staged no
higher. The hard step is the rewind, which reopens days whose sightings were
dropped: `DaysInv` shows that no stored block is of such a day except the tip's.
`AheadInv` carries a rollback's rows to its rewind.

### One branch, and the ledger

`SyncLedgerProofs`, after the days. Under `Benign`, `FollowInv` says that the node still has every
stored block below the tip, and that where it has left the tip itself it has gone
beyond it and a scan is still to come. So a rollback removes one block, and a batch is fetched
on top of a tip the node has. `CoinInv` adds that a stored coin has its row unless a
*settled* block spent it (one no rollback will remove), and that a spend is marked:
pruning at depth 0 is safe for no weaker reason. From it the live rows are `Unspent`,
the coins created and not spent, in closed form (`LiveIsUnspent`). `Ledger` defines
the same set by recursion over heights; that the two agree is again a least
counterexample (`ReplayIsUnspent`), with the consensus rules making the coins a
block spends be there. `StepsRefine` then maps each step of the worker to a step of
`Ledger` or a stutter.

`SupplyConserved` follows by summing along the stored chain (`ValueConserved`).
`PricedInv` ties the priced spends to the calendar: an entry of the index is of its
height's day or undefined, even one that a failed run left. `RowsInv` gives a
row the height at which its day ended; that block is settled (`EndsDay`), no step
takes it back (`EndStays`), and the new row is exact because the live rows are the
unspent coins and the staging table is exact.

### The lock

`ComponentProofs` proves, for any number of worker processes, any chain, any number
of rollbacks, crashes and hand-overs:

- `LockMakesOneWriter`: until a lock session is lost while its worker is alive, no
  two workers are past `acquireSyncLock`;
- `LockKeepsTheBooks`: until then the counter is the number of stored blocks, they
  have no gap, and no day is counted twice;
- `LockHoldsAndLosesNothing`: both, and, whatever sessions are lost, the counter is
  the number of stored blocks as long as no block is deleted.

The only assumption is that the name for "nobody" is not a worker's. The second
rests on the first, and on what the first gives: the tables are two intervals, one
of them at most one shorter (`Stored`), and what a worker has read is still so when
it writes (`Current`). A second writer would break `Current`, and that is why
neither statement is inductive alone. The condition is the code's own limit, as
`sync.js:53` in the list above shows. The third needs an invariant of its own
(`LostInv`): with two writers the locals of each may be old, but never ahead of the
table (`Lagging`), so that what is stored from them is a block the table has and
the INSERT aborts.

### The lanes and the watchdog

`FetchesResolveComplete`, for any number of lanes, blocks, retries and fetches. A
resolved promise has all its blocks because of what the lanes share: every index
below the shared one has its block or belongs to a lane that is asking for it, and no
two lanes to one (`Claims`); and a fetch resolves only when every lane has returned,
which it does only at the end of the indexes (`Promises`). The lanes of a rejected
fetch go on, so both are said of every fetch and not of the current one.

`WatchdogExitsExactly`, in discrete time, for every threshold with the margin of the
defaults. `DogInv` bounds the silence of a healthy worker stage by stage, since not
every stage feeds: at a stage the watchdog has waited no longer than the stages since
the last touch may take (`Before`) and this one has taken (`Healthy`), each of which
ends in its budget (`InTime`). That the sum stays under the threshold is
`MarginAssumption`. The other direction is that what the timer has not seen is no
more than what passed since it last looked (`Watched`).

### The price books

`PriceBookProofs`, for any closes, clock, chain, refreshes, crashes, rollbacks and
re-pricings. `IInv` holds always: a rollback takes back what its blocks put in, the
rows show the closes, and the close of a finalized day is settled; it needs to know
what a process between its two transactions has in hand (`Control`). `CacheInv` adds
the cache where every COMMIT is answered: what is in memory was pinned by a flag or
read from a close (`CacheMarked`). `StampInv` adds the realized cap where providers
do not revise closes and rollbacks stop above the day that was re-priced. The cap
alone is not inductive: the sum must balance at every height a rollback may return
to (`BalancedBelow`), and a coin that a rollback makes live again must have been
stamped at what the tables say (`StampsStand`), unless its spend lies below every
rollback.

### The newsletters

`NewslettersProofs` proves, for any number of readers, campaigns and overlapping
runs, any requests and edits, sends that fail on either side of the provider and
runs cut short anywhere: `OneCopyEach` (no address receives a newsletter twice),
`CopiesAreTheText`, `DraftsAreUnread`, `ConsentIsFirst` (with one open row per
address) and `CountsAreWhole`; together they are what `NewslettersWhole` checks.
The only assumptions are that the readers at the start are finitely many addresses
and that no campaign is called "idle" or "next".

None is inductive alone. *Who owns a campaign*: `Owners` says that a claimed one is
`sending` and in one run's hands, since the UPDATE takes only what is scheduled;
`Waiting` that what is queued has not been begun; `Underway` that what is left of a
list has not been sent and names no address twice. The last needs `OneOpen`, which
the unique index gives, at the moment the list is read, and outlives rows that
change while the list is worked off. *Who may be on a list*: `TokensName` says that
a token in a row was only ever mailed to that row's address, so a late or repeated
click confirms the address that clicked (`Wanted`). *The counts*: `Counts` is the
invariant of the loop, sent, failed and still to do make up the list; that a list
has one entry per row is a bijection (`ListIsOfRows`), by `OneOpen` again.

All six properties together are `NewslettersAlwaysWhole`.

### The keys and the limiter

`RevocationAlwaysBinds` and `RevocationAlwaysStands`, for any number of admins, keys
and requests. What an admin did after its revocation and what it still has in flight
is at most what was in flight at the revocation (`Bounded`): each request that ends
moves one unit from the second to the first, and `adminAuth` lets none in. A use that
was served is counted, on its way to be, or lost with its UPDATE (`Counts`). That only
root makes and unmakes admins is a fact about whom the routes let in (`LetIn`),
carried from one query of the request to the next.

`LimitAlwaysExact`: the counter of the current minute is the number of requests, and
a sweep drops only counters of other minutes (`RateInv`).

### The explorer

- `HeightAlwaysHashs`: what a request has learnt belongs together as long as the index
  stands still (`Learnt`, one clause per stage of `getTx`), and what it answers does.
- `PartsAlwaysOfTips`: the sums and the list a statement returned are those of the tip
  it saw. They stay so although the worker goes on, because what was unspent at a tip
  is settled once the tip has passed (`Settled`).
- `PagesAlwaysShare` (`PagesInv`): an entry of the cache holds the pages of its block,
  the cache has one entry per block, calls under way have different keys and fill the
  entry they are for (`CacheStands`), and what a request has learnt belongs to its row
  (`Learning`). An entry that was evicted, or whose block was rolled back, may still
  be filled by a call; this is why the statements are about all entries and not about
  those in the cache. A back-filled size is right because only the rows from before
  the size columns have none (`RowsStand`).
- `ScreenIsAlwaysTheRoute` (`ScreenInv`): a request of the current effect is of the
  current route, one of the current mount is of the current view, and a poll timer is
  of the current effect; at most one request or timer of it exists.

### The alerts

`CrossingsAlwaysMailed`, for any number of alerts, checkers and days. Four invariants
over the loop of `checkAlerts` (`Loops`): mail goes to who confirmed (`Consent`); what
a check has gone through was mailed, and a mark is of a mail (`Reporting`); until a
day is taken back, what a check takes for a crossing is one and stays one
(`Genuine`); and for one checker without a fault (`Once`) there is a day for each
alert, that of its newest mail, marked or about to be. It may be finalized again after
a rewind, but the days before it may not, and so its crossing is not mailed again.

### From the components to the services

The theorems above are about a component alone. In `Services` it is an instance with
constants from a record and other names for some variables. `ServicesProofs` extends
no component's proofs: it takes each proof module as an instance with the same
substitutions, shows that the definitions say the same (one lemma per part), that
the first state of a part is one of its component, that each step is a step of it or
leaves its variables alone, and carries each theorem over. The types of each component
are a lemma beside its theorems (`LockTypesHold`, `LookupTypesHold`, ...), carried over
in the same way to `TypesStayRight`.

### The pages of the site

`SitePagesProofs` proves its five theorems of `PagesSpec`. A behaviour of `MCSite` is
one of `PagesSpec`, since a step of its `Next` is a step of `PagesNext` or leaves the
variables of the pages alone. `PagesInv` has a conjunct per part:

- the forms (`SignInv`): a request of a mounted form is under way exactly while it is
  busy, and one of a form that was left belongs to a smaller number, so that its
  answer moves nothing that is shown;
- the composer (`ComposeInv`, until `strayed`): an editor with an id edits that
  newsletter, and so does an answer on its way to one, wherever the admin goes while
  a request is under way; two newsletters are of one text only if one of them is
  `unseen`, and whether an editor without an id was stored yet is decided by the
  answer under way (`StoredOnce`);
- the metric page, where answers may come in any order (`RacingInv`): a story that
  is held or under way in the current effect is the metric's, and a page that says it
  loads has asked; where they come in order (`ChoosingInv`): the last request under
  way of the kind that is drawn asks for what was chosen, or none is and what is held
  was chosen (`Settles`);
- the editor of metric texts (`CopyInv`): no list, draft, save or answer under way has
  anything but a built-in text, of this release or an earlier one, of a pane nobody
  typed in, and the row has none of this release (`PanesUntouched`); a stored pane
  equals the built-in text only after a release of that pane (`RowsDiffer`);
- the cards (`CardInv`): a build that began has read nothing older than itself and
  ends in its time, so that a card in the cache is no older than that when it is put;
- the answers of several statements (`LatestInv`): until a day is taken back, what a
  request has read and what the memo holds is what is stored, and names only days
  that are there.

### What is only model-checked

- `CatchesUp` and `Progress`: liveness under fairness is out of the prover's reach.
- `TypeOK` of the site. The types a proof needs are part of its invariant and proved
  there, some of them wider than the model's bounds. That of the services is proved
  (`TypesStayRight`), from the invariants above and, for the lock, from the line
  being the waiting workers, each once.
- `ChartsAgree`, `StoryAgrees`, `SupplyExact` and `RowsShown`: they compare folds,
  recursive functions and `CHOOSE` over the rows with a reference definition, and
  each needs induction over the rows, which no installed prover can do. TLC evaluates
  them on every set of rows within the bounds.

## Plan

Done: the worker, its abstract specification, and every safety property of it
proved; prices, lock, watchdog and RPC lanes; the mailings and keys; the explorer
and the read API; the algorithms on the daily rows; the pages, editors and forms; and
of all of these every safety property that is not computed from rows, proved. What
would add most next: the metric formulas over exact rationals instead of floats, and
refinements of the services' components to abstract specifications like `Ledger`.

## Not modelled

- Rendering: charts, cards, e-mails, the overview page, image export
  (`chartImage.js`), the tables of the catalog. They decide nothing the models
  distinguish.
- The app shell's polling and the admin page's key lists: one request each, whose
  answer replaces what is shown.
- Routes that send one statement's rows as they are (urpd, status, spot, health),
  headers and compression.
- Metric formulas and per-block statistics: arithmetic on floats without control.
- The wire formats of the price providers, the spot price, and flags written by
  older versions.
- Validation of request bodies and the regular expressions that classify a query;
  so `MetricCopy.Valid` has the length limit, and neither the trimming nor the
  refusal of an empty text.
- A server without a configured node: `rpcUp` then answers without a call
  (`explorer.js:35-37`). `BlockPages` has a node, up or down.
- A rollback between the statements of an address page: the worker of `AddressView`
  only adds blocks.
- The two statements of the supply route that see two tips: `Supply.OneCap` is about
  one tip, and the race is among the disagreements.
- Migrations and shell scripts: run by hand with the worker stopped.
