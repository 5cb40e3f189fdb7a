------------------------------ MODULE Services ------------------------------
(***************************************************************************)
(* The services together: what surrounds the sync worker, the prices, the  *)
(* mailings, the keys and the explorer.  They share no state (each is the  *)
(* only writer of its tables and memory), so they are put side by side:    *)
(* the first state picks the part that runs, and the others rest.  A       *)
(* component that is looked at under two sets of bounds is two parts, and  *)
(* each part has its constants in one record.                              *)
(***************************************************************************)
EXTENDS Integers, Sequences, FiniteSets

CONSTANTS  \* a record per part, with the constants of its module
  ForHeld, ForLost, ForFetch, ForDog, ForSettling, ForRevising, ForWatch, ForOverlap,
  ForSubscribe, ForSending, ForDispatch, ForRevoke, ForCount, ForShared, ForEnrich, ForTx, ForAddress, ForRate,
  ForLoad, ForSearch

VARIABLES
  part,  \* the component that runs
  \* SyncLock
  holder, line, stored, counter, rows, coinDays, pc, seen, base, reorgs, drops, stops,
  \* FetchLanes
  fetch, taken, lane, results, verdict,
  \* Watchdog
  stage, elapsed, left, idle, due, orphans, silence, strained, sincePass,
  \* PriceBook
  today, closes, flags, chain, stamp, spentAt, credit, capital, finalRows, finalized,
  cache, place, stale, repriced, rollbacks, priceFaults,
  \* Alerts
  state, counted, mailed, fired, values, check, alarms, reported, takenBack, sendFaults,
  \* Newsletters
  people, signups, links, tokens, wants, news, tick, inbox, listed, edits, faults,
  cuts,
  \* AccessKeys
  admins, keys, admin, counting, acts, served, lost, window, after,
  \* BlockPages
  node, blocks, memo, inflight, entries, cached, request, answer, asks, nodeFaults,
  \* TxLookup
  txNode, synced, pruned, lookup, txAnswer, lookups, txFaults,
  \* AddressView
  tip, spent, read, tips,
  \* RateWindow
  win, hits, asked, passed,
  \* ExplorerPage
  route, page, shown, err, effect, mount, flight, timers, searches, box, busy

lock == <<holder, line, stored, counter, rows, coinDays, pc, seen, base, reorgs,
  drops, stops>>
lanes == <<fetch, taken, lane, results, verdict>>
dog == <<stage, elapsed, left, idle, due, orphans, silence, strained, sincePass>>
book == <<today, closes, flags, chain, stamp, spentAt, credit, capital, finalRows,
  finalized, cache, place, stale, repriced, rollbacks, priceFaults>>
watch == <<state, counted, mailed, fired, values, check, alarms, reported, takenBack,
  sendFaults>>
list == <<people, signups, links, tokens, wants, news, tick, inbox, listed, edits,
  faults, cuts>>
access == <<admins, keys, admin, counting, acts, served, lost, window, after>>
blockPage == <<node, blocks, memo, inflight, entries, cached, request, answer, asks,
  nodeFaults>>
txPage == <<txNode, synced, pruned, lookup, txAnswer, lookups, txFaults>>
addressPage == <<tip, spent, read, tips>>
limiter == <<win, hits, asked, passed>>
screen == <<route, page, shown, err, effect, mount, flight, timers, searches, box,
  busy>>
vars == <<part, lock, lanes, dog, book, watch, list, access, blockPage, txPage, addressPage,
  limiter, screen>>

Held == INSTANCE SyncLock WITH
  Worker <- ForHeld.Worker, MaxHeight <- ForHeld.MaxHeight, MaxReorgs <- ForHeld.MaxReorgs,
  SessionDrops <- ForHeld.SessionDrops, MaxStops <- ForHeld.MaxStops
Lost == INSTANCE SyncLock WITH
  Worker <- ForLost.Worker, MaxHeight <- ForLost.MaxHeight, MaxReorgs <- ForLost.MaxReorgs,
  SessionDrops <- ForLost.SessionDrops, MaxStops <- ForLost.MaxStops
Fetch == INSTANCE FetchLanes WITH
  Lane <- ForFetch.Lane, Blocks <- ForFetch.Blocks, MaxRetries <- ForFetch.MaxRetries,
  MaxFetches <- ForFetch.MaxFetches
Dog == INSTANCE Watchdog WITH
  Threshold <- ForDog.Threshold, CheckEvery <- ForDog.CheckEvery,
  CallBudget <- ForDog.CallBudget, StageMax <- ForDog.StageMax, Nap <- ForDog.Nap,
  Probes <- ForDog.Probes, Batch <- ForDog.Batch, PassCap <- ForDog.PassCap
Settling == INSTANCE PriceBook WITH
  Offered <- ForSettling.Offered, FirstClose <- ForSettling.FirstClose,
  MaxDay <- ForSettling.MaxDay, MaxHeight <- ForSettling.MaxHeight,
  RevisionWindow <- ForSettling.RevisionWindow, MayRevise <- ForSettling.MayRevise,
  MayReopen <- ForSettling.MayReopen, MayLoseAck <- ForSettling.MayLoseAck,
  MaxRollbacks <- ForSettling.MaxRollbacks, MaxFaults <- ForSettling.MaxFaults,
  rows <- finalRows, spent <- spentAt, counter <- capital, pc <- place, faults <- priceFaults
Revising == INSTANCE PriceBook WITH
  Offered <- ForRevising.Offered, FirstClose <- ForRevising.FirstClose,
  MaxDay <- ForRevising.MaxDay, MaxHeight <- ForRevising.MaxHeight,
  RevisionWindow <- ForRevising.RevisionWindow, MayRevise <- ForRevising.MayRevise,
  MayReopen <- ForRevising.MayReopen, MayLoseAck <- ForRevising.MayLoseAck,
  MaxRollbacks <- ForRevising.MaxRollbacks, MaxFaults <- ForRevising.MaxFaults,
  rows <- finalRows, spent <- spentAt, counter <- capital, pc <- place, faults <- priceFaults
Watch == INSTANCE Alerts WITH
  Alert <- ForWatch.Alert, Above <- ForWatch.Above, Checker <- ForWatch.Checker,
  Limit <- ForWatch.Limit, MaxDays <- ForWatch.MaxDays, Nulls <- ForWatch.Nulls,
  MaxRewinds <- ForWatch.MaxRewinds, MaxFaults <- ForWatch.MaxFaults, series <- values,
  inbox <- alarms, rewinds <- takenBack, faults <- sendFaults
Overlap == INSTANCE Alerts WITH
  Alert <- ForOverlap.Alert, Above <- ForOverlap.Above, Checker <- ForOverlap.Checker,
  Limit <- ForOverlap.Limit, MaxDays <- ForOverlap.MaxDays, Nulls <- ForOverlap.Nulls,
  MaxRewinds <- ForOverlap.MaxRewinds, MaxFaults <- ForOverlap.MaxFaults, series <- values,
  inbox <- alarms, rewinds <- takenBack, faults <- sendFaults
Subscribe == INSTANCE Newsletters WITH
  Address <- ForSubscribe.Address, Readers <- ForSubscribe.Readers,
  Campaign <- ForSubscribe.Campaign, Tick <- ForSubscribe.Tick,
  MaxAsks <- ForSubscribe.MaxAsks, MaxEdits <- ForSubscribe.MaxEdits,
  MaxFaults <- ForSubscribe.MaxFaults, MaxStops <- ForSubscribe.MaxStops, rows <- people,
  asks <- signups, stops <- cuts
Sending == INSTANCE Newsletters WITH
  Address <- ForSending.Address, Readers <- ForSending.Readers,
  Campaign <- ForSending.Campaign, Tick <- ForSending.Tick, MaxAsks <- ForSending.MaxAsks,
  MaxEdits <- ForSending.MaxEdits, MaxFaults <- ForSending.MaxFaults,
  MaxStops <- ForSending.MaxStops, rows <- people, asks <- signups, stops <- cuts
Dispatch == INSTANCE Newsletters WITH
  Address <- ForDispatch.Address, Readers <- ForDispatch.Readers,
  Campaign <- ForDispatch.Campaign, Tick <- ForDispatch.Tick, MaxAsks <- ForDispatch.MaxAsks,
  MaxEdits <- ForDispatch.MaxEdits, MaxFaults <- ForDispatch.MaxFaults,
  MaxStops <- ForDispatch.MaxStops, rows <- people, asks <- signups, stops <- cuts
Revoke == INSTANCE AccessKeys WITH
  Root <- ForRevoke.Root, Admin <- ForRevoke.Admin, Key <- ForRevoke.Key,
  Request <- ForRevoke.Request, MaxActs <- ForRevoke.MaxActs, MaxUses <- ForRevoke.MaxUses,
  request <- admin
Count == INSTANCE AccessKeys WITH
  Root <- ForCount.Root, Admin <- ForCount.Admin, Key <- ForCount.Key,
  Request <- ForCount.Request, MaxActs <- ForCount.MaxActs, MaxUses <- ForCount.MaxUses,
  request <- admin
Shared == INSTANCE BlockPages WITH
  Request <- ForShared.Request, Chains <- ForShared.Chains, Wanted <- ForShared.Wanted,
  Rows0 <- ForShared.Rows0, NTx <- ForShared.NTx, TxPage <- ForShared.TxPage,
  CacheMax <- ForShared.CacheMax, MaxFaults <- ForShared.MaxFaults,
  MaxAsks <- ForShared.MaxAsks, faults <- nodeFaults
Enrich == INSTANCE BlockPages WITH
  Request <- ForEnrich.Request, Chains <- ForEnrich.Chains, Wanted <- ForEnrich.Wanted,
  Rows0 <- ForEnrich.Rows0, NTx <- ForEnrich.NTx, TxPage <- ForEnrich.TxPage,
  CacheMax <- ForEnrich.CacheMax, MaxFaults <- ForEnrich.MaxFaults,
  MaxAsks <- ForEnrich.MaxAsks, faults <- nodeFaults
Tx == INSTANCE TxLookup WITH
  Chains <- ForTx.Chains, TxIn <- ForTx.TxIn, Synced0 <- ForTx.Synced0,
  TxIndex <- ForTx.TxIndex, MaxFaults <- ForTx.MaxFaults, MaxAsks <- ForTx.MaxAsks,
  node <- txNode, request <- lookup, answer <- txAnswer, asks <- lookups, faults <- txFaults
Addresses == INSTANCE AddressView WITH
  Coin <- ForAddress.Coin, ListMax <- ForAddress.ListMax, Price <- ForAddress.Price,
  MaxHeight <- ForAddress.MaxHeight, seen <- tips
Rate == INSTANCE RateWindow WITH
  Ip <- ForRate.Ip, Limit <- ForRate.Limit, MaxKeys <- ForRate.MaxKeys,
  MaxWindows <- ForRate.MaxWindows, MaxHits <- ForRate.MaxHits
Load == INSTANCE ExplorerPage WITH
  Views <- ForLoad.Views, Ids <- ForLoad.Ids, TxCount <- ForLoad.TxCount,
  TxPage <- ForLoad.TxPage, PendingPolls <- ForLoad.PendingPolls, MaxNav <- ForLoad.MaxNav,
  MaxSearches <- ForLoad.MaxSearches
Search == INSTANCE ExplorerPage WITH
  Views <- ForSearch.Views, Ids <- ForSearch.Ids, TxCount <- ForSearch.TxCount,
  TxPage <- ForSearch.TxPage, PendingPolls <- ForSearch.PendingPolls,
  MaxNav <- ForSearch.MaxNav, MaxSearches <- ForSearch.MaxSearches

ASSUME ServicesAssumption ==
  /\ Held!LockAssumption /\ Held!NobodyAssumption /\ Lost!LockAssumption /\ Lost!NobodyAssumption
  /\ Fetch!FetchAssumption /\ Dog!WatchdogAssumption /\ Dog!MarginAssumption
  /\ Settling!PriceAssumption /\ Revising!PriceAssumption
  /\ Watch!AlertsAssumption /\ Overlap!AlertsAssumption
  /\ Subscribe!NewsAssumption /\ Sending!NewsAssumption /\ Dispatch!NewsAssumption
  /\ Revoke!KeysAssumption /\ Count!KeysAssumption
  /\ Shared!PagesAssumption /\ Enrich!PagesAssumption /\ Tx!LookupAssumption
  /\ Addresses!ViewAssumption /\ Rate!RateAssumption
  /\ Load!PageAssumption /\ Search!PageAssumption

Parts == {"held", "lost", "fetch", "dog", "settling", "revising", "watch", "overlap",
  "subscribe", "sending", "dispatch", "revoke", "count", "shared", "enrich", "tx", "address", "rate", "load", "search"}

\* Components of several initial states have one while they rest.
Init ==
  /\ part \in Parts
  /\ IF part = "lost" THEN Lost!Init ELSE Held!Init
  /\ Fetch!Init /\ Dog!Init
  /\ IF part = "revising" THEN Revising!Init ELSE Settling!Init
  /\ IF part = "overlap" THEN Overlap!Init ELSE Watch!Init
  /\ CASE part = "sending" -> Sending!Init
       [] part = "dispatch" -> Dispatch!Init
       [] OTHER -> Subscribe!Init
  /\ IF part = "count" THEN Count!Init ELSE Revoke!Init
  /\ IF part = "enrich" THEN Enrich!Init ELSE Shared!Init
  /\ Tx!Init /\ Addresses!Init /\ Rate!Init
  /\ IF part = "search" THEN Search!Init ELSE Load!Init
  /\ part \notin {"load", "search"} => route.view = "home"

\* A step of one part; the others rest.
InSyncLock(p, A) == part = p /\ A /\ UNCHANGED <<part, lanes, dog, book, watch, list, access,
  blockPage, txPage, addressPage, limiter, screen>>
InFetchLanes(p, A) == part = p /\ A /\ UNCHANGED <<part, lock, dog, book, watch, list, access,
  blockPage, txPage, addressPage, limiter, screen>>
InWatchdog(p, A) == part = p /\ A /\ UNCHANGED <<part, lock, lanes, book, watch, list, access,
  blockPage, txPage, addressPage, limiter, screen>>
InPriceBook(p, A) == part = p /\ A /\ UNCHANGED <<part, lock, lanes, dog, watch, list, access,
  blockPage, txPage, addressPage, limiter, screen>>
InAlerts(p, A) == part = p /\ A /\ UNCHANGED <<part, lock, lanes, dog, book, list, access,
  blockPage, txPage, addressPage, limiter, screen>>
InNewsletters(p, A) == part = p /\ A /\ UNCHANGED <<part, lock, lanes, dog, book, watch,
  access, blockPage, txPage, addressPage, limiter, screen>>
InAccessKeys(p, A) == part = p /\ A /\ UNCHANGED <<part, lock, lanes, dog, book, watch, list,
  blockPage, txPage, addressPage, limiter, screen>>
InBlockPages(p, A) == part = p /\ A /\ UNCHANGED <<part, lock, lanes, dog, book, watch, list,
  access, txPage, addressPage, limiter, screen>>
InTxLookup(p, A) == part = p /\ A /\ UNCHANGED <<part, lock, lanes, dog, book, watch, list,
  access, blockPage, addressPage, limiter, screen>>
InAddressView(p, A) == part = p /\ A /\ UNCHANGED <<part, lock, lanes, dog, book, watch, list,
  access, blockPage, txPage, limiter, screen>>
InRateWindow(p, A) == part = p /\ A /\ UNCHANGED <<part, lock, lanes, dog, book, watch, list,
  access, blockPage, txPage, addressPage, screen>>
InExplorerPage(p, A) == part = p /\ A /\ UNCHANGED <<part, lock, lanes, dog, book, watch,
  list, access, blockPage, txPage, addressPage, limiter>>

Next ==
  \/ InSyncLock("held", Held!Next) \/ InSyncLock("lost", Lost!Next)
  \/ InFetchLanes("fetch", Fetch!Next) \/ InWatchdog("dog", Dog!Next)
  \/ InPriceBook("settling", Settling!Next) \/ InPriceBook("revising", Revising!Next)
  \/ InAlerts("watch", Watch!Next) \/ InAlerts("overlap", Overlap!Next)
  \/ InNewsletters("subscribe", Subscribe!Next) \/ InNewsletters("sending", Sending!Next)
  \/ InNewsletters("dispatch", Dispatch!Next) \/ InAccessKeys("revoke", Revoke!Next)
  \/ InAccessKeys("count", Count!Next) \/ InBlockPages("shared", Shared!Next)
  \/ InBlockPages("enrich", Enrich!Next) \/ InTxLookup("tx", Tx!Next)
  \/ InAddressView("address", Addresses!Next) \/ InRateWindow("rate", Rate!Next)
  \/ InExplorerPage("load", Load!Next) \/ InExplorerPage("search", Search!Next)

\* Postgres serves the queue of the lock and the platform replaces the outgoing
\* worker; every call ends, by its timeout at the latest, and what waits for it
\* goes on; timers and intervals fire.
Fairness ==
  /\ \A w \in ForHeld.Worker :
       /\ WF_vars(InSyncLock("held", Held!Granted(w)))
       /\ WF_vars(InSyncLock("held", Held!Replaced(w)))
       /\ WF_vars(InSyncLock("held", Held!NoticesLoss(w)))
  /\ \A g \in Fetch!Fetch, l \in ForFetch.Lane : WF_vars(InFetchLanes("fetch", Fetch!Step(g, l)))
  /\ \A t \in ForDispatch.Tick : WF_vars(InNewsletters("dispatch", Dispatch!Run(t)))
  /\ \A r \in ForEnrich.Request : WF_vars(InBlockPages("enrich", Enrich!Step(r)))
  /\ WF_vars(InBlockPages("enrich", Enrich!Expire))
  /\ WF_vars(InBlockPages("enrich", \E ok \in BOOLEAN : Enrich!Probed(ok)))
  /\ WF_vars(InBlockPages("enrich", \E i \in DOMAIN inflight : Enrich!Arrival(i)))
  /\ WF_vars(InExplorerPage("load", Load!Answered))
  /\ WF_vars(InExplorerPage("load", \E t \in timers : Load!Poll(t)))

Spec == Init /\ [][Next]_vars /\ Fairness

---------------------------------------------------------------------------
(* Properties *)

\* Each component's variables have their types.
TypeOK ==
  /\ part \in Parts
  /\ part = "held" => Held!TypeOK
  /\ part = "fetch" => Fetch!TypeOK
  /\ part = "dog" => Dog!TypeOK
  /\ part = "settling" => Settling!TypeOK
  /\ part = "watch" => Watch!TypeOK
  /\ part = "sending" => Sending!TypeOK
  /\ part = "count" => Count!TypeOK
  /\ part = "shared" => Shared!TypeOK
  /\ part = "tx" => Tx!TypeOK
  /\ part = "address" => Addresses!TypeOK
  /\ part = "rate" => Rate!TypeOK
  /\ part = "load" => Load!TypeOK

\* The advisory lock makes one writer (sync.js:41-68): through crashes, restarts
\* and hand-overs no two workers write, no update of the running totals is lost
\* and no day is counted twice.  When only lock sessions are lost, with no
\* reorganization, the totals still match the stored blocks: a duplicate insert
\* aborts the block.
SingleWriter ==
  /\ part = "held" => Held!SingleWriter
  /\ part = "lost" => Lost!SingleWriter

\* A batch that is handed on has every block it was asked for in its place, no
\* height is fetched twice, and the caller hears of a failure at once, whatever
\* lanes of earlier batches are still doing (rpc.js:141-161).
ResolvedIsComplete == part = "fetch" => Fetch!ResolvedIsComplete

\* The watchdog (sync.js:455-475) never stops a worker all of whose calls answer
\* in their budgets, and stops one that hears nothing in time.
ExitsExactly == part = "dog" => Dog!ExitsExactly

\* The price books balance (prices.js, metricsDaily.js).  When closes are not
\* revised and rollbacks stop above the re-priced day, the running realized cap
\* is the sum over the live coins, every spend sees the price its coin was
\* stamped with, a pinned price is marked as provisional, and the cache of the
\* process never answers for a close the table no longer has.  Whatever the
\* providers revise and the node reorganizes, a rollback takes back exactly what
\* its blocks put in, the rows show the closes, and no day in progress is stored.
PricesReconcile ==
  /\ part = "settling" => Settling!PricesReconcile
  /\ part = "revising" => Revising!PricesReconcile

\* Alerts (alerts.js:112-165): nobody who did not confirm gets mail, and a crossing
\* of the newest day is mailed by the check that sees it, however checks overlap and
\* whatever fails.  What is mailed is a crossing, as long as no day is rewound, and
\* one checker without faults mails it once, also when its day is rewound and
\* finalized again.
CrossingsMailed ==
  /\ part = "watch" => Watch!CrossingsMailed
  /\ part = "overlap" => Overlap!CrossingsMailed

\* Newsletters (newsletters.js): no address gets a newsletter twice, all get one
\* text, that of the moment it was claimed, nobody gets a draft, one marked sent
\* went through its whole list, and a list holds only who wanted it, however
\* runs, edits and unsubscriptions overlap.
NewslettersWhole ==
  /\ part = "sending" => Sending!NewslettersWhole
  /\ part = "subscribe" => Subscribe!NewslettersWhole

\* A revoked admin finishes at most the requests that were in flight, and every
\* use of a key is counted, is being counted, or lost its count (keys.js:39-75).
RevocationBinds ==
  /\ part = "revoke" => Revoke!RevocationBinds
  /\ part = "count" => Count!RevocationBinds

\* No request that was in flight undoes a revocation or moves its time, and
\* admins are only made and unmade by root.
RevocationStands == [][part = "revoke" => Revoke!RevocationStands]_vars

\* Requests for pages share calls, a cache and a probe (explorer.js:22-215): one
\* call per key is under way, the cache stays within its bound, an answer is of
\* the block and page asked for, and a size back-filled by height is of the
\* block in that row, or of none.
PagesShare ==
  part = "shared" =>
    /\ Shared!OneCallPerKey /\ Shared!CacheBounded
    /\ Shared!AnswerIsTheQuestion /\ Shared!SizeIsTheRows

\* What an answer puts together belongs together: the height shown with a
\* transaction is that of the block shown (explorer.js:233-300), each part of an
\* address page is exact for a tip the page was read at (345-386), and the
\* limiter lets through exactly the first requests of a minute (425-445).
AnswersAgree ==
  /\ part = "tx" => Tx!HeightIsHashs
  /\ part = "address" => Addresses!EachPartIsOfATip
  /\ part = "rate" => Rate!LimitIsExact

\* The explorer page shows what its address says although answers come late and
\* in any order; one poller runs, no page past the end is opened, and the search
\* box waits for the search it started (Explorer.jsx).
ScreenIsTheRoute ==
  /\ part = "load" => Load!ShownIsTheRoute /\ Load!PageExists /\ Load!OnePoller
  /\ part = "search" => Search!BusyIsASearch

\* What is waited for comes: a worker that waits for the lock gets it; a batch is
\* settled and its lanes come to rest; a newsletter whose time has come is sent
\* or put back, while no run is cut short; the enrichment of a page ends, and an
\* unreachable node is asked again; a page ends with data or an error.
Progress ==
  /\ \A w \in ForHeld.Worker : []<>(part = "held" => ~Held!Waits(w))
  /\ \A n \in ForDispatch.Campaign :
       (part = "dispatch" /\ Dispatch!Owed(n)) ~> (part = "dispatch" /\ Dispatch!Honoured(n))
  /\ \A r \in ForEnrich.Request : []<>(part = "enrich" => ~Enrich!Enriching(r))
  /\ []<>(part = "enrich" => memo # "false")
  /\ <>[]((\A g \in Fetch!Fetch : ~Fetch!Unsettled(g)) /\ Fetch!AtRest /\ (part = "load" => ~Load!Loading))
=============================================================================
