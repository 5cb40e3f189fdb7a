------------------------------ MODULE PriceBook ------------------------------
(***************************************************************************)
(* The daily closes and the realized-cap books (server/src/prices.js, the  *)
(* pricing half of processBlocks and rollbackAbove in server/src/sync.js,  *)
(* repriceProvisionalDay and the reconciliation gate of                    *)
(* server/src/metricsDaily.js).                                            *)
(*                                                                         *)
(* Block h creates one coin, h, worth one unit, and spends any of the live *)
(* ones.  The coin is stamped with priceForDay of its day, its creation is *)
(* credited to the realized cap at that price, and its spend is deducted   *)
(* at whatever priceForDay answers for the same day later.  The day of the *)
(* tip has no close yet: it is priced at the last one, and re-priced when  *)
(* it is finalized.                                                        *)
(***************************************************************************)
EXTENDS Integers, Sequences, FiniteSetsExt, Functions

CONSTANTS
  Offered,         \* the closes a provider may answer; 0 is a broken candle
  FirstClose,      \* the close of day 0, before the first modelled day
  MaxDay,          \* bound: the last day of the clock
  MaxHeight,       \* bound: the longest chain
  RevisionWindow,  \* REVISION_WINDOW_DAYS
  MayRevise,       \* may a provider revise a close coins are settled at?
  MayReopen,       \* may a rollback reach a block of a re-priced day?
  MayLoseAck,      \* may a COMMIT be applied and its answer lost?
  MaxRollbacks, MaxFaults  \* bounds: reorganizations; errors and crashes

\* What the constants have to satisfy.
PriceAssumption ==
  /\ Offered \subseteq Nat /\ FirstClose \in Nat \ {0}
  /\ MaxDay \in Nat \ {0} /\ MaxHeight \in Nat /\ RevisionWindow \in Nat
  /\ MayRevise \in BOOLEAN /\ MayReopen \in BOOLEAN
  /\ MayLoseAck \in BOOLEAN /\ MaxRollbacks \in Nat /\ MaxFaults \in Nat

VARIABLES
  today,      \* the current UTC day
  closes,     \* prices: day -> close_usd
  flags,      \* chain_state provisional:<day> -> the pinned value
  chain,      \* blocks: height -> its day
  stamp,      \* utxos.created_price, by coin
  spent,      \* utxos.spent_height, by coin; 0 while unspent
  credit,     \* block_agg.realized_cap_delta, by height
  counter,    \* chain_state realized_cap_usd
  rows,       \* metrics_daily: day -> price
  finalized,  \* chain_state last_metrics_day_epoch
  cache,      \* priceCache of the process: day -> price
  pc,         \* "down", "idle" or "snapshot": between the two transactions
  stale,      \* the last price sync failed: the next pass repeats it
  repriced,   \* history: the last day repriceProvisionalDay committed for
  rollbacks, faults

books == <<chain, stamp, spent, credit, counter>>
vars == <<today, closes, flags, chain, stamp, spent, credit, counter, rows,
          finalized, cache, pc, stale, repriced, rollbacks, faults>>

Day == 0..MaxDay
Tip == Len(chain)
TipDay == IF chain = <<>> THEN 0 ELSE chain[Tip]
Live == {c \in 1..Tip : spent[c] = 0}
Total(f, S) == SumFunctionOnSet(f, S)

TypeOK ==
  /\ today \in Day /\ finalized \in Day /\ repriced \in Day
  /\ DOMAIN closes \subseteq Day /\ DOMAIN flags \subseteq Day /\ DOMAIN rows \subseteq Day
  /\ DOMAIN cache \subseteq Day
  /\ \A f \in {closes, flags, rows, cache} : \A d \in DOMAIN f : f[d] \in Nat
  /\ Tip \in 0..MaxHeight /\ \A h \in 1..Tip : chain[h] \in Day
  /\ DOMAIN stamp = 1..Tip /\ DOMAIN spent = 1..Tip /\ DOMAIN credit = 1..Tip
  /\ \A c \in 1..Tip : spent[c] \in 0..Tip
  /\ pc \in {"down", "idle", "snapshot"} /\ stale \in BOOLEAN
  /\ rollbacks \in 0..MaxRollbacks /\ faults \in 0..MaxFaults

Init ==
  /\ today = 1 /\ closes = [d \in {0} |-> FirstClose] /\ flags = <<>>
  /\ chain = <<>> /\ stamp = <<>> /\ spent = <<>> /\ credit = <<>> /\ counter = 0
  /\ rows = <<>> /\ finalized = 0
  /\ cache = <<>> /\ pc = "down" /\ stale = FALSE /\ repriced = 0
  /\ rollbacks = 0 /\ faults = 0

Faulty == faults < MaxFaults /\ faults' = faults + 1

---------------------------------------------------------------------------
(* syncPrices, upsertPrices, assertNoPriceGaps. *)

\* Mutants of Storable: the window alone guards a close; the candle of the
\* day in progress is stored.
StorableInWindow(d, p) ==
  d < today /\ (d \in DOMAIN closes /\ closes[d] # p => d >= today - RevisionWindow)

StorableLive(d, p) ==
  d <= today /\ (d \in DOMAIN closes /\ closes[d] # p =>
                   d > finalized /\ d >= today - RevisionWindow)

\* The row of day d survives the guards: the day is over, and a stored close
\* changes only while the day is neither finalized nor past the window.
Storable(d, p) ==
  d < today /\ (d \in DOMAIN closes /\ closes[d] # p =>
                  d > finalized /\ d >= today - RevisionWindow)

Upserted(offer) ==
  LET kept == {d \in DOMAIN offer : Storable(d, offer[d])}
  IN [d \in DOMAIN closes \cup kept |-> IF d \in kept THEN offer[d] ELSE closes[d]]

\* assertNoPriceGaps: no hole, no broken candle, no tenfold jump.
Sound(table) ==
  /\ DOMAIN table = 0..Max(DOMAIN table)
  /\ \A d \in DOMAIN table : table[d] > 0
  /\ \A d \in DOMAIN table \ {0} :
       table[d] <= 10 * table[d - 1] /\ table[d - 1] <= 10 * table[d]

\* Coins of the day are stamped at its close, not provisionally.
Settled(d) == d \notin DOMAIN flags /\ \E h \in 1..Tip : chain[h] = d

\* The provider: rows for some of the days up to the running one.
Offers ==
  {offer \in UNION {[D -> Offered] : D \in SUBSET (1..today)} :
     MayRevise \/ \A d \in DOMAIN offer \cap DOMAIN closes :
                    Settled(d) => offer[d] = closes[d]}

\* The refresh of the loop leaves the table stored, Upserted of some of the
\* provider's rows; pages may be stored before the provider fails, and
\* bustPriceCache runs once the series has passed its checks.
\* A pass does nothing else until a refresh that is due has succeeded.
SyncPrices(table, fails) ==
  LET sound == ~fails /\ Sound(table)
  IN /\ pc = "idle"
     /\ closes' = table
     /\ stale' = ~sound
     /\ cache' = IF sound THEN <<>> ELSE cache
     /\ IF fails THEN Faulty ELSE UNCHANGED faults
     /\ UNCHANGED <<today, flags, books, rows, finalized, pc, repriced, rollbacks>>

\* main(): the same before the loop starts; a failure there ends the process.
Boot(table) ==
  /\ pc = "down"
  /\ closes' = table
  /\ pc' = IF Sound(table) THEN "idle" ELSE "down"
  /\ UNCHANGED <<today, flags, books, rows, finalized, cache, stale, repriced, rollbacks, faults>>

---------------------------------------------------------------------------
(* priceForDay. *)

\* The latest close on or before the day.
Fallback(d) == closes[Max({k \in DOMAIN closes : k <= d})]

\* A mutant of Answer: the close wins over the pinned value once it is there.
AnswerIgnoringFlag(d) ==
  IF d \in DOMAIN cache THEN cache[d] ELSE
  IF d \in DOMAIN closes THEN closes[d] ELSE Fallback(d)

Answer(d) ==
  IF d \in DOMAIN cache THEN cache[d] ELSE
  IF d \in DOMAIN flags THEN flags[d] ELSE
  IF d \in DOMAIN closes THEN closes[d] ELSE Fallback(d)

\* A mutant of Flagged: the fallback leaves no durable mark.
FlaggedNever(days) == flags

\* Every fallback leaves a durable flag with the value it pinned.
Flagged(days) ==
  LET pinned == {d \in days : d \notin DOMAIN cache \cup DOMAIN closes \cup DOMAIN flags}
  IN [d \in DOMAIN flags \cup pinned |-> IF d \in pinned THEN Fallback(d) ELSE flags[d]]

Cached(days) == [d \in DOMAIN cache \cup days |-> Answer(d)]

---------------------------------------------------------------------------
(* processBlocks and rollbackAbove. *)

\* A later day starts only after the day of the tip was finalized.
MayExtend(d) ==
  /\ pc = "idle" /\ ~stale
  /\ Tip < MaxHeight
  /\ d \in TipDay..today /\ d > 0
  /\ chain # <<>> /\ d > TipDay => TipDay <= finalized

\* The coins a block at the next height spends, its own one included.
Spendable == Live \cup {Tip + 1}

DaysAsked(d, coins) == {d} \cup {chain[c] : c \in coins \ {Tip + 1}}

\* What the block adds to the realized cap.
Delta(d, coins) ==
  Answer(d) - Total([c \in coins |-> IF c = Tip + 1 THEN Answer(d) ELSE Answer(chain[c])], coins)

ProcessBlock(d, coins) ==
  /\ MayExtend(d)
  /\ coins \subseteq Spendable
  /\ flags' = Flagged(DaysAsked(d, coins))
  /\ cache' = Cached(DaysAsked(d, coins))
  /\ chain' = Append(chain, d)
  /\ stamp' = Append(stamp, Answer(d))
  /\ spent' = [c \in 1..Tip + 1 |->
                 IF c \in coins THEN Tip + 1 ELSE IF c <= Tip THEN spent[c] ELSE 0]
  /\ credit' = Append(credit, Delta(d, coins))
  /\ counter' = counter + Delta(d, coins)
  /\ UNCHANGED <<today, closes, rows, finalized, pc, stale, repriced, rollbacks, faults>>

\* The transaction rolls back; the flags, written by other statements of the
\* pool, and the cache stay.
ProcessFails(d, coins) ==
  /\ MayExtend(d) /\ Faulty
  /\ coins \subseteq Spendable
  /\ flags' = Flagged(DaysAsked(d, coins))
  /\ cache' = Cached(DaysAsked(d, coins))
  /\ UNCHANGED <<today, closes, books, rows, finalized, pc, stale, repriced, rollbacks>>

\* A mutant of UnspentAbove: a spend outlives the block it was made in.
UnspentNever(c, top) == spent[c]

\* Spends of the deleted blocks are taken back.
UnspentAbove(c, top) == IF spent[c] > top THEN 0 ELSE spent[c]

\* Rewind: rows and the finalized day never pass the day of the new tip; an
\* emptied chain keeps them.
RollBack(top) ==
  /\ pc = "idle" /\ ~stale
  /\ rollbacks < MaxRollbacks /\ rollbacks' = rollbacks + 1
  /\ top < Tip
  /\ MayReopen \/ \A h \in top + 1 .. Tip : chain[h] > repriced
  /\ chain' = SubSeq(chain, 1, top)
  /\ stamp' = SubSeq(stamp, 1, top)
  /\ spent' = [c \in 1..top |-> UnspentAbove(c, top)]
  /\ credit' = SubSeq(credit, 1, top)
  /\ counter' = counter - Total(credit, top + 1 .. Tip)
  /\ LET kept == IF top = 0 THEN DOMAIN rows ELSE {d \in DOMAIN rows : d <= chain[top]}
     IN /\ rows' = Restrict(rows, kept)
        /\ finalized' = IF top = 0 THEN finalized ELSE Max(kept \cup {0})
  /\ UNCHANGED <<today, closes, flags, cache, pc, stale, repriced, faults>>

---------------------------------------------------------------------------
(* snapshotAndRollupDay: two transactions, for the day of the tip, when the*)
(* first block of a later day is about to be stored.                       *)

\* The coins re-priced: created that day and still unspent.
Restamped(d) == {c \in Live : chain[c] = d}

\* A mutant of MirrorsCredit: only the running counter is corrected.
MirrorNowhere(c, price) == credit[c]

\* The correction is mirrored into the creating block's delta, which a
\* rollback subtracts.
MirrorsCredit(c, price) == credit[c] + price - stamp[c]

\* The transaction of repriceProvisionalDay.
RepriceCommits ==
  LET d == TipDay
      again == IF d \in DOMAIN flags THEN Restamped(d) ELSE {}
  IN /\ pc = "idle" /\ ~stale
     /\ chain # <<>> /\ finalized < d /\ d < today
     /\ d \in DOMAIN closes
     /\ stamp' = [c \in 1..Tip |-> IF c \in again THEN closes[d] ELSE stamp[c]]
     /\ credit' = [c \in 1..Tip |->
                     IF c \in again THEN MirrorsCredit(c, closes[d]) ELSE credit[c]]
     /\ counter' = counter + Total([c \in again |-> closes[d] - stamp[c]], again)
     /\ flags' = Restrict(flags, DOMAIN flags \ {d})
     /\ repriced' = d
     /\ UNCHANGED <<today, closes, chain, spent, rows, finalized, stale, rollbacks>>

\* A mutant of CacheAfterReprice: the cache outlives the flag it was read from.
CacheKept == cache

CacheAfterReprice == IF TipDay \in DOMAIN flags THEN <<>> ELSE cache

\* repriceProvisionalDay: without a flag it returns at once, else it commits
\* and empties the cache.
Reprice ==
  /\ RepriceCommits
  /\ cache' = CacheAfterReprice
  /\ pc' = "snapshot" /\ UNCHANGED faults

\* The connection breaks between the COMMIT and its answer: the pass ends
\* before the cache is emptied.
RepriceAckLost ==
  /\ MayLoseAck /\ Faulty
  /\ TipDay \in DOMAIN flags /\ RepriceCommits
  /\ UNCHANGED <<cache, pc>>

\* The realized-cap half of the reconciliation gate.
GateOpen == counter = Total(stamp, Live)

FinalizeDay ==
  /\ pc = "snapshot" /\ GateOpen
  /\ rows' = [d \in DOMAIN rows \cup {TipDay} |-> IF d = TipDay THEN closes[d] ELSE rows[d]]
  /\ finalized' = TipDay
  /\ pc' = "idle"
  /\ UNCHANGED <<today, closes, flags, books, cache, stale, repriced, rollbacks, faults>>

\* The gate refuses, or the transaction fails: the pass ends.
FinalizeFails ==
  /\ pc = "snapshot"
  /\ IF GateOpen THEN Faulty ELSE UNCHANGED faults
  /\ pc' = "idle"
  /\ UNCHANGED <<today, closes, flags, books, rows, finalized, cache, stale, repriced, rollbacks>>

---------------------------------------------------------------------------
Crash ==
  /\ pc # "down" /\ Faulty
  /\ pc' = "down" /\ cache' = <<>> /\ stale' = FALSE
  /\ UNCHANGED <<today, closes, flags, books, rows, finalized, repriced, rollbacks>>

DayTurns ==
  /\ today < MaxDay /\ today' = today + 1
  /\ UNCHANGED <<closes, flags, books, rows, finalized, cache, pc, stale, repriced, rollbacks, faults>>

Next ==
  \/ \E table \in {Upserted(offer) : offer \in Offers} :
       Boot(table) \/ \E fails \in BOOLEAN : SyncPrices(table, fails)
  \/ \E d \in Day : \E coins \in SUBSET Spendable : ProcessBlock(d, coins) \/ ProcessFails(d, coins)
  \/ \E top \in 0..MaxHeight : RollBack(top)
  \/ Reprice \/ RepriceAckLost \/ FinalizeDay \/ FinalizeFails
  \/ Crash \/ DayTurns

Spec == Init /\ [][Next]_vars

---------------------------------------------------------------------------
(* Properties that hold whatever the providers and the node do. *)

\* A rollback is exact: the running counter is the sum of the deltas of the
\* stored blocks, after every re-pricing of coins created in earlier blocks.
RollbackExact == counter = Total(credit, 1..Tip)

\* While blocks may be priced, the in-process cache answers what the tables
\* would: after failed refreshes, failed runs, re-pricing and revisions.
CacheFresh ==
  ~stale => \A d \in DOMAIN cache :
    cache[d] = IF d \in DOMAIN flags THEN flags[d]
               ELSE IF d \in DOMAIN closes THEN closes[d] ELSE Fallback(d)

\* A finalized row shows the close that is in the table for good: the close of
\* a finalized day never changes again.
RowsShowCloses == \A d \in DOMAIN rows : d \in DOMAIN closes /\ rows[d] = closes[d]

\* No close is stored for the day in progress, and a finalized day is never
\* provisional again: its coins are spent at its close.
FinalizedIsSettled ==
  /\ \A d \in DOMAIN closes : d < today
  /\ DOMAIN flags \cap DOMAIN rows = {}

---------------------------------------------------------------------------
(* Properties of the books while no settled close is revised and no block  *)
(* of a re-priced day is rolled back.                                      *)

\* The gate: credits and deductions seen through the price history cancel out
\* to exactly the live set valued at its stamps.
RealizedCapReconciles == counter = Total(stamp, Live)

\* The price a live coin would be spent at now is the price its creation was
\* credited at.
SpendsSeeTheirStamp ==
  pc = "idle" /\ ~stale => \A c \in Live : Answer(chain[c]) = stamp[c]

\* A coin stamped at anything but its day's stored close carries a durable
\* flag, so that finalization will re-price it, and the live ones of a
\* finalized day are all stamped at its close.
ProvisionalIsMarked ==
  \A c \in Live : chain[c] \notin DOMAIN flags =>
    chain[c] \in DOMAIN closes /\ stamp[c] = closes[chain[c]]

---------------------------------------------------------------------------
\* The price history keeps the books of the coins: what holds in any case, and
\* what holds while every COMMIT is answered, no settled close is revised and
\* rollbacks stop above the re-priced day.
PricesReconcile ==
  /\ RollbackExact /\ RowsShowCloses /\ FinalizedIsSettled
  /\ ~MayLoseAck => CacheFresh
  /\ ~MayLoseAck /\ ~MayRevise /\ ~MayReopen =>
       RealizedCapReconciles /\ SpendsSeeTheirStamp /\ ProvisionalIsMarked
=============================================================================
