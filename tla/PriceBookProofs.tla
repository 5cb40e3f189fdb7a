--------------------------- MODULE PriceBookProofs ---------------------------
(***************************************************************************)
(* The realized-cap books of PriceBook, for any closes the providers offer,*)
(* any chain, any number of refreshes, errors, crashes, rollbacks and      *)
(* re-pricings.                                                            *)
(***************************************************************************)
EXTENDS PriceBook, SumTheorems

---------------------------------------------------------------------------
(* The invariant. *)

\* A price table: days of the clock, natural prices.
PriceTable(f) == DOMAIN f \subseteq Day /\ \A d \in DOMAIN f : f[d] \in Nat

BookType ==
  /\ chain \in Seq(Day) /\ stamp \in Seq(Nat) /\ spent \in Seq(Nat) /\ credit \in Seq(Int)
  /\ Len(stamp) = Tip /\ Len(spent) = Tip /\ Len(credit) = Tip /\ Tip <= MaxHeight
  /\ \A c \in 1..Tip : spent[c] <= Tip
  /\ counter \in Int

Types ==
  /\ today \in Day /\ finalized \in Day /\ repriced \in Day
  /\ PriceTable(closes) /\ PriceTable(flags) /\ PriceTable(rows) /\ PriceTable(cache)
  /\ 0 \in DOMAIN closes
  /\ BookType
  /\ pc \in {"down", "idle", "snapshot"} /\ stale \in BOOLEAN
  /\ rollbacks \in 0..MaxRollbacks /\ faults \in 0..MaxFaults

\* A process that is down has nothing in memory; one between its two
\* transactions has the close of the day of the tip, that day is over, and
\* nothing of it is provisional any more.
Control ==
  /\ pc = "down" => cache = <<>> /\ ~stale
  /\ pc = "snapshot" =>
       /\ ~stale /\ chain # <<>> /\ finalized < TipDay /\ TipDay < today
       /\ TipDay \in DOMAIN closes /\ TipDay \notin DOMAIN flags

\* No row is ahead of the finalized day, whose close is guarded.
RowsBelow == \A d \in DOMAIN rows : d <= finalized

IInv ==
  /\ Types /\ Control /\ RowsBelow
  /\ RollbackExact /\ RowsShowCloses /\ FinalizedIsSettled

\* What is in memory was pinned by a flag or read from a close.
CacheMarked == DOMAIN cache \subseteq DOMAIN flags \cup DOMAIN closes

\* What the tables say a day is worth.
Worth(d) == IF d \in DOMAIN flags THEN flags[d]
            ELSE IF d \in DOMAIN closes THEN closes[d] ELSE Fallback(d)

\* The coin carries the price the tables pin for its day.
Stamped(c) == (chain[c] \in DOMAIN flags \/ chain[c] \in DOMAIN closes) /\ stamp[c] = Worth(chain[c])

\* The coins that the spend marks say are unspent at height h of the chain.
LiveAt(marks, h) == {c \in 1..h : marks[c] = 0 \/ marks[c] > h}

\* Not only now: wherever a rollback stops, the deltas of the blocks below are
\* the value of the coins that become live.
BalancedBelow == \A h \in 0..Tip : Total(credit, 1..h) = Total(stamp, LiveAt(spent, h))

\* Days of the chain in order; rollbacks keep a block of the re-priced day.
DaysInOrder ==
  /\ \A h, k \in 1..Tip : h <= k => chain[h] <= chain[k]
  /\ \A h \in 1..Tip : chain[h] > 0
  /\ repriced > 0 => \E h \in 1..Tip : chain[h] = repriced

\* A coin is stamped at what the tables say, unless it was spent before its
\* day was re-priced: such a spend is below every rollback.
StampsStand ==
  \A c \in 1..Tip : spent[c] = 0 \/ chain[spent[c]] > repriced => Stamped(c)

Benign == ~MayRevise /\ ~MayReopen /\ ~MayLoseAck

CacheInv == CacheFresh /\ CacheMarked
StampInv == BalancedBelow /\ DaysInOrder /\ StampsStand

\* What the premises add is kept only where they hold.
FullInv == IInv /\ (~MayLoseAck => CacheInv) /\ (Benign => StampInv)

---------------------------------------------------------------------------
(* What the operators return. *)

\* Max is defined by CHOOSE and says nothing of a set without a greatest element.
LEMMA MaxIsGreatest ==
  ASSUME NEW S, NEW N \in Nat, S \subseteq 0..N, S # {}
  PROVE  Max(S) \in S /\ \A y \in S : y <= Max(S)
<1> DEFINE below == {N - x : x \in S}
<1>1. below \subseteq Nat /\ below # {}
  <2>1. \A x \in S : x \in 0..N /\ N - x \in Nat
    OBVIOUS
  <2> QED
    BY <2>1
<1>2. PICK m \in below : \A b \in below : m <= b
  BY <1>1, LeastNatural
<1>3. PICK x \in S : m = N - x
  OBVIOUS
<1>4. \A y \in S : x >= y
  BY <1>2, <1>3
<1> QED
  BY <1>4 DEF Max

\* A function on 1..n is a sequence of length n.
LEMMA TupleIsSeq ==
  ASSUME NEW T, NEW n \in Nat, NEW f \in [1..n -> T]
  PROVE  f \in Seq(T) /\ Len(f) = n
OBVIOUS

\* There are finitely many heights.
LEMMA UpTo == ASSUME NEW n \in Nat PROVE IsFiniteSet(1..n)
<1>1. 1 \in Int /\ n \in Int
  OBVIOUS
<1> QED
  BY <1>1, FS_Interval

\* A sequence and one element more.
LEMMA AppendIs ==
  ASSUME NEW T, NEW s \in Seq(T), NEW e \in T
  PROVE  /\ Append(s, e) \in Seq(T) /\ Len(Append(s, e)) = Len(s) + 1
         /\ Append(s, e)[Len(s) + 1] = e /\ \A i \in 1..Len(s) : Append(s, e)[i] = s[i]
OBVIOUS

\* The first n elements of a sequence.
LEMMA PrefixIsSeq ==
  ASSUME NEW T, NEW s \in Seq(T), NEW n \in 0..Len(s)
  PROVE  /\ SubSeq(s, 1, n) \in Seq(T) /\ Len(SubSeq(s, 1, n)) = n
         /\ \A i \in 1..n : SubSeq(s, 1, n)[i] = s[i]
OBVIOUS

\* The stored chain, by height.
LEMMA ChainIs ==
  ASSUME Types
  PROVE  /\ Tip \in Nat /\ (chain = <<>> <=> Tip = 0)
         /\ \A h \in 1..Tip : chain[h] \in Day /\ stamp[h] \in Nat /\ credit[h] \in Int
                              /\ spent[h] \in 0..Tip
         /\ TipDay \in Day /\ DOMAIN chain = 1..Tip /\ DOMAIN stamp = 1..Tip
         /\ DOMAIN spent = 1..Tip /\ DOMAIN credit = 1..Tip
<1>1. Tip \in Nat /\ (chain = <<>> <=> Tip = 0)
  BY DEF Types, BookType, Tip
<1>2. DOMAIN chain = 1..Tip /\ DOMAIN stamp = 1..Tip /\ DOMAIN spent = 1..Tip /\ DOMAIN credit = 1..Tip
  BY DEF Types, BookType, Tip
<1>3. \A h \in 1..Tip : chain[h] \in Day /\ stamp[h] \in Nat /\ credit[h] \in Int /\ spent[h] \in 0..Tip
  BY <1>1, <1>2, SMTT(30) DEF Types, BookType
<1>4. TipDay \in Day
  BY <1>1, <1>3 DEF TipDay, Types, Day
<1> QED
  BY <1>1, <1>2, <1>3, <1>4

\* There is a close on or before every day: that of day 0.
LEMMA FallbackType ==
  ASSUME PriceAssumption, Types, NEW d \in Day
  PROVE  Fallback(d) \in Nat
<1> DEFINE past == {k \in DOMAIN closes : k <= d}
<1>1. past \subseteq 0..MaxDay /\ past # {} /\ MaxDay \in Nat
  BY DEF Types, PriceTable, Day, PriceAssumption
<1>2. Max(past) \in past
  BY <1>1, MaxIsGreatest
<1> QED
  BY <1>2 DEF Fallback, Types, PriceTable

\* What priceForDay answers is a price.
LEMMA AnswerType ==
  ASSUME PriceAssumption, Types, NEW d \in Day
  PROVE  Answer(d) \in Nat
BY FallbackType DEF Answer, Types, PriceTable

\* The flags and the cache stay price tables.
LEMMA AskedTables ==
  ASSUME PriceAssumption, Types, NEW days \in SUBSET Day
  PROVE  PriceTable(Flagged(days)) /\ PriceTable(Cached(days))
<1>1. \A d \in days : Fallback(d) \in Nat /\ Answer(d) \in Nat
  BY FallbackType, AnswerType
<1>2. \A d \in DOMAIN cache : Answer(d) = cache[d]
  BY DEF Answer
<1> QED
  BY <1>1, <1>2 DEF Flagged, Cached, PriceTable, Types

\* What a block asks and adds.
LEMMA BlockAsks ==
  ASSUME PriceAssumption, Types, NEW d \in Day, NEW coins \in SUBSET Spendable
  PROVE  /\ coins \subseteq 1..Tip + 1 /\ IsFiniteSet(coins)
         /\ DaysAsked(d, coins) \subseteq Day
         /\ Delta(d, coins) \in Int
<1>1. Spendable \subseteq 1..Tip + 1 /\ Tip \in Nat
  BY ChainIs DEF Spendable, Live
<1>2. coins \subseteq 1..Tip + 1 /\ IsFiniteSet(1..Tip + 1)
  BY <1>1, FS_Interval
<1>3. IsFiniteSet(coins)
  BY <1>2, FS_Subset
<1>4. \A c \in coins \ {Tip + 1} : chain[c] \in Day
  BY <1>1, <1>2, ChainIs
<1>5. DaysAsked(d, coins) \subseteq Day
  BY <1>4 DEF DaysAsked
<1> DEFINE asked == [c \in coins |-> IF c = Tip + 1 THEN Answer(d) ELSE Answer(chain[c])]
<1>6. \A c \in coins : asked[c] \in Int
  BY <1>4, AnswerType
<1>7. Total(asked, coins) \in Int
  <2> HIDE DEF asked
  <2> QED
    BY <1>3, <1>6, SumType DEF Total
<1>8. Answer(d) \in Int
  BY AnswerType
<1> QED
  BY <1>2, <1>3, <1>5, <1>7, <1>8 DEF Delta

---------------------------------------------------------------------------
(* The steps. *)

\* The empty database has the invariant.
LEMMA InitHolds == ASSUME PriceAssumption, Init PROVE IInv
<1>1. Tip = 0 /\ DOMAIN closes = {0} /\ closes[0] \in Nat /\ 0 \in Day /\ 1 \in Day
  BY DEF Init, Tip, PriceAssumption, Day
<1>2. /\ DOMAIN flags = {} /\ DOMAIN rows = {} /\ DOMAIN cache = {}
      /\ chain = <<>> /\ stamp = <<>> /\ spent = <<>> /\ credit = <<>> /\ counter = 0
  BY DEF Init
<1>3. BookType
  BY <1>1, <1>2 DEF BookType, PriceAssumption, Tip
<1>4. Types
  <2>1. PriceTable(closes) /\ PriceTable(flags) /\ PriceTable(rows) /\ PriceTable(cache)
    BY <1>1, <1>2 DEF PriceTable
  <2>2. today = 1 /\ finalized = 0 /\ repriced = 0 /\ pc = "down" /\ stale = FALSE
        /\ rollbacks \in 0..MaxRollbacks /\ faults \in 0..MaxFaults
    BY DEF Init, PriceAssumption
  <2> QED
    BY <1>1, <1>3, <2>1, <2>2 DEF Types
<1>5. RollbackExact
  <2>1. 1..Tip = {}
    BY <1>1
  <2> QED
    BY <1>2, <2>1, SumOfNone DEF RollbackExact, Total
<1>6. Control /\ RowsBelow /\ RowsShowCloses /\ FinalizedIsSettled
  BY <1>1, <1>2 DEF Init, Control, RowsBelow, RowsShowCloses, FinalizedIsSettled
<1> QED
  BY <1>4, <1>5, <1>6 DEF IInv

\* The closes after a refresh: none of a day that is not over, and those of
\* finalized days as they were.
LEMMA UpsertKeeps ==
  ASSUME PriceAssumption, IInv, NEW offer \in Offers, closes' = Upserted(offer)
  PROVE  /\ PriceTable(closes') /\ DOMAIN closes \subseteq DOMAIN closes'
         /\ \A d \in DOMAIN closes' : d < today
         /\ \A d \in DOMAIN closes : d <= finalized => closes'[d] = closes[d]
<1> DEFINE kept == {d \in DOMAIN offer : Storable(d, offer[d])}
<1>1. DOMAIN offer \subseteq 1..today /\ \A d \in DOMAIN offer : offer[d] \in Nat
  BY DEF Offers, PriceAssumption
<1>2. today \in 0..MaxDay /\ finalized \in Nat /\ MaxDay \in Nat
  BY DEF IInv, Types, Day, PriceAssumption
<1>3. closes' = [d \in DOMAIN closes \cup kept |-> IF d \in kept THEN offer[d] ELSE closes[d]]
  BY DEF Upserted
<1>4. \A d \in kept : d \in DOMAIN offer /\ d < today /\ (d \in DOMAIN closes /\ closes[d] # offer[d] => d > finalized)
  BY DEF Storable
<1>5. DOMAIN closes \subseteq 0..MaxDay /\ (\A d \in DOMAIN closes : closes[d] \in Nat /\ d < today)
  BY DEF IInv, Types, PriceTable, FinalizedIsSettled, Day
<1> HIDE DEF kept
<1>6. kept \subseteq Day /\ \A d \in kept : offer[d] \in Nat
  BY <1>1, <1>2, <1>4 DEF Day
<1>7. PriceTable(closes') /\ DOMAIN closes \subseteq DOMAIN closes'
  BY <1>3, <1>5, <1>6 DEF PriceTable, Day
<1>8. \A d \in DOMAIN closes' : d < today
  BY <1>3, <1>4, <1>5
<1>9. \A d \in DOMAIN closes : d <= finalized => closes'[d] = closes[d]
  BY <1>2, <1>3, <1>4, <1>5
<1> QED
  BY <1>7, <1>8, <1>9

\* A refresh, at the start or later.
LEMMA RefreshKeeps ==
  ASSUME PriceAssumption, IInv, NEW offer \in Offers,
         Boot(Upserted(offer)) \/ \E fails \in BOOLEAN : SyncPrices(Upserted(offer), fails)
  PROVE  IInv'
<1>1. /\ closes' = Upserted(offer)
      /\ UNCHANGED <<today, flags, books, rows, finalized, repriced, rollbacks>>
      /\ pc \in {"down", "idle"} /\ pc' \in {"down", "idle"} /\ stale' \in BOOLEAN
      /\ (pc' = "down" => cache' = <<>> /\ ~stale') /\ cache' \in {<<>>, cache}
      /\ faults' \in {faults, faults + 1} /\ (faults' # faults => faults < MaxFaults)
  BY DEF Boot, SyncPrices, Faulty, IInv, Types, Control
<1>2. /\ PriceTable(closes') /\ DOMAIN closes \subseteq DOMAIN closes'
      /\ \A d \in DOMAIN closes' : d < today
      /\ \A d \in DOMAIN closes : d <= finalized => closes'[d] = closes[d]
  BY <1>1, UpsertKeeps
<1>3. BookType' /\ RollbackExact'
  BY <1>1 DEF IInv, Types, BookType, RollbackExact, Tip, books
<1>4. PriceTable(cache')
  BY <1>1 DEF IInv, Types, PriceTable
<1>5. Types'
  BY <1>1, <1>2, <1>3, <1>4 DEF IInv, Types, PriceTable, PriceAssumption
<1>6. Control' /\ RowsBelow' /\ FinalizedIsSettled'
  BY <1>1, <1>2 DEF IInv, Control, RowsBelow, FinalizedIsSettled
<1>7. RowsShowCloses'
  BY <1>1, <1>2 DEF IInv, RowsBelow, RowsShowCloses
<1> QED
  BY <1>3, <1>5, <1>6, <1>7 DEF IInv

\* A block, stored or not, asks for prices: days without a close are flagged.
LEMMA AskingKeeps ==
  ASSUME PriceAssumption, IInv, NEW days \in SUBSET Day, pc = "idle", pc' = pc, stale' = stale,
         flags' = Flagged(days), cache' = Cached(days),
         UNCHANGED <<today, closes, rows, finalized, repriced>>
  PROVE  /\ PriceTable(flags') /\ PriceTable(cache') /\ Control' /\ RowsBelow'
         /\ RowsShowCloses' /\ FinalizedIsSettled'
<1>1. PriceTable(flags') /\ PriceTable(cache')
  BY AskedTables DEF IInv
<1>2. \A d \in DOMAIN flags' : d \in DOMAIN flags \/ d \notin DOMAIN closes
  BY DEF Flagged
<1>3. Control' /\ RowsBelow' /\ RowsShowCloses'
  BY DEF IInv, Control, RowsBelow, RowsShowCloses
<1>4. FinalizedIsSettled'
  BY <1>2 DEF IInv, RowsShowCloses, FinalizedIsSettled
<1> QED
  BY <1>1, <1>3, <1>4

\* A block that fails leaves flags and cache entries behind, nothing else.
LEMMA ProcessFailsKeeps ==
  ASSUME PriceAssumption, IInv, NEW d \in Day, NEW coins \in SUBSET Spendable, ProcessFails(d, coins)
  PROVE  IInv'
<1>1. DaysAsked(d, coins) \in SUBSET Day
  BY BlockAsks DEF IInv
<1>2. /\ pc = "idle" /\ pc' = pc /\ stale' = stale
      /\ flags' = Flagged(DaysAsked(d, coins)) /\ cache' = Cached(DaysAsked(d, coins))
      /\ UNCHANGED <<today, closes, rows, finalized, repriced>>
      /\ UNCHANGED books /\ rollbacks' = rollbacks /\ faults < MaxFaults /\ faults' = faults + 1
  BY DEF ProcessFails, MayExtend, Faulty
<1>3. /\ PriceTable(flags') /\ PriceTable(cache') /\ Control' /\ RowsBelow'
      /\ RowsShowCloses' /\ FinalizedIsSettled'
  BY <1>1, <1>2, AskingKeeps
<1>4. BookType' /\ RollbackExact'
  BY <1>2 DEF IInv, Types, BookType, RollbackExact, Tip, books
<1>5. Types'
  BY <1>2, <1>3, <1>4 DEF IInv, Types, PriceTable, PriceAssumption
<1> QED
  BY <1>3, <1>4, <1>5 DEF IInv

\* A stored block appends to the four columns.
LEMMA BlockAppends ==
  ASSUME PriceAssumption, IInv, NEW d \in Day, NEW coins \in SUBSET Spendable, ProcessBlock(d, coins)
  PROVE  /\ BookType' /\ Tip' = Tip + 1 /\ Tip \in Nat /\ Delta(d, coins) \in Int
         /\ chain'[Tip + 1] = d /\ stamp'[Tip + 1] = Answer(d)
         /\ credit'[Tip + 1] = Delta(d, coins) /\ counter' = counter + Delta(d, coins)
         /\ \A h \in 1..Tip : chain'[h] = chain[h] /\ stamp'[h] = stamp[h] /\ credit'[h] = credit[h]
         /\ \A c \in 1..Tip + 1 :
              spent'[c] = IF c \in coins THEN Tip + 1 ELSE IF c <= Tip THEN spent[c] ELSE 0
<1>1. Delta(d, coins) \in Int /\ Answer(d) \in Nat /\ coins \subseteq 1..Tip + 1
  BY BlockAsks, AnswerType DEF IInv
<1>2. Tip \in Nat /\ Tip < MaxHeight /\ MaxHeight \in Nat
  BY ChainIs DEF ProcessBlock, MayExtend, IInv, PriceAssumption
<1>3. /\ chain \in Seq(Day) /\ stamp \in Seq(Nat) /\ credit \in Seq(Int) /\ counter \in Int
      /\ Len(chain) = Tip /\ Len(stamp) = Tip /\ Len(credit) = Tip
      /\ \A c \in 1..Tip : spent[c] \in 0..Tip
  BY ChainIs DEF IInv, Types, BookType, Tip
<1>4. /\ chain' = Append(chain, d) /\ stamp' = Append(stamp, Answer(d))
      /\ credit' = Append(credit, Delta(d, coins)) /\ counter' = counter + Delta(d, coins)
      /\ spent' = [c \in 1..Tip + 1 |-> IF c \in coins THEN Tip + 1 ELSE IF c <= Tip THEN spent[c] ELSE 0]
  BY DEF ProcessBlock
<1>5. /\ chain' \in Seq(Day) /\ Len(chain') = Tip + 1 /\ chain'[Tip + 1] = d
      /\ \A h \in 1..Tip : chain'[h] = chain[h]
  BY <1>2, <1>3, <1>4
<1>6. /\ stamp' \in Seq(Nat) /\ Len(stamp') = Tip + 1 /\ stamp'[Tip + 1] = Answer(d)
      /\ \A h \in 1..Tip : stamp'[h] = stamp[h]
  BY <1>1, <1>2, <1>3, <1>4
<1>7. /\ credit' \in Seq(Int) /\ Len(credit') = Tip + 1 /\ credit'[Tip + 1] = Delta(d, coins)
      /\ \A h \in 1..Tip : credit'[h] = credit[h]
  BY <1>1, <1>3, <1>4, AppendIs
<1>8. spent' \in [1..Tip + 1 -> 0..Tip + 1]
  BY <1>2, <1>3, <1>4
<1>9. spent' \in Seq(0..Tip + 1) /\ Len(spent') = Tip + 1
  BY <1>2, <1>8, TupleIsSeq
<1>10. spent' \in Seq(Nat) /\ \A c \in 1..Tip + 1 : spent'[c] <= Tip + 1
  BY <1>2, <1>8, TupleIsSeq
<1>11. Tip' = Tip + 1
  BY <1>5 DEF Tip
<1>12. BookType'
  BY <1>1, <1>2, <1>3, <1>4, <1>5, <1>6, <1>7, <1>9, <1>10, <1>11 DEF BookType
<1> QED
  BY <1>1, <1>2, <1>4, <1>5, <1>6, <1>7, <1>11, <1>12

\* The sum over 1..n+1 is that over 1..n and the last value.
LEMMA TotalOfNext ==
  ASSUME NEW f, NEW g, NEW n \in Nat, \A k \in 1..n : f[k] \in Int /\ g[k] = f[k], g[n + 1] \in Int
  PROVE  Total(g, 1..n + 1) = Total(f, 1..n) + g[n + 1] /\ Total(f, 1..n) \in Int
<1>1. IsFiniteSet(1..n) /\ IsFiniteSet({n + 1})
  <2>1. 1 \in Int /\ n \in Int
    OBVIOUS
  <2> QED
    BY <2>1, FS_Interval, FS_Singleton
<1>2. (1..n) \cap {n + 1} = {} /\ (1..n) \cup {n + 1} = 1..n + 1
  OBVIOUS
<1>3. \A k \in (1..n) \cup {n + 1} : g[k] \in Int
  OBVIOUS
<1>4. SumFunctionOnSet(g, (1..n) \cup {n + 1}) = SumFunctionOnSet(g, 1..n) + SumFunctionOnSet(g, {n + 1})
  BY <1>1, <1>2, <1>3, SumOfUnion
<1>5. SumFunctionOnSet(g, {n + 1}) = g[n + 1] /\ SumFunctionOnSet(g, 1..n) = SumFunctionOnSet(f, 1..n)
      /\ SumFunctionOnSet(f, 1..n) \in Int
  BY <1>1, SumOfOne, SumOfEqual, SumType
<1> QED
  BY <1>2, <1>4, <1>5 DEF Total

\* A block adds its delta to the counter and to its column.
LEMMA ProcessBlockKeeps ==
  ASSUME PriceAssumption, IInv, NEW d \in Day, NEW coins \in SUBSET Spendable, ProcessBlock(d, coins)
  PROVE  IInv'
<1>1. DaysAsked(d, coins) \in SUBSET Day
  BY BlockAsks DEF IInv
<1>2. /\ pc = "idle" /\ pc' = pc /\ stale' = stale
      /\ flags' = Flagged(DaysAsked(d, coins)) /\ cache' = Cached(DaysAsked(d, coins))
      /\ UNCHANGED <<today, closes, rows, finalized, repriced>>
      /\ rollbacks' = rollbacks /\ faults' = faults
  BY DEF ProcessBlock, MayExtend
<1>3. /\ PriceTable(flags') /\ PriceTable(cache') /\ Control' /\ RowsBelow'
      /\ RowsShowCloses' /\ FinalizedIsSettled'
  BY <1>1, <1>2, AskingKeeps
<1>4. /\ BookType' /\ Tip' = Tip + 1 /\ Tip \in Nat /\ Delta(d, coins) \in Int
      /\ credit'[Tip + 1] = Delta(d, coins) /\ counter' = counter + Delta(d, coins)
      /\ \A h \in 1..Tip : credit'[h] = credit[h]
  BY BlockAppends
<1>5. Types'
  BY <1>2, <1>3, <1>4 DEF IInv, Types, PriceTable, PriceAssumption
<1>6. \A h \in 1..Tip : credit[h] \in Int
  BY ChainIs DEF IInv
<1>7. Total(credit', 1..Tip + 1) = Total(credit, 1..Tip) + credit'[Tip + 1]
  BY <1>4, <1>6, TotalOfNext
<1>8. RollbackExact'
  BY <1>4, <1>7 DEF IInv, RollbackExact, Total
<1> QED
  BY <1>3, <1>5, <1>8 DEF IInv

\* The columns are cut at the new tip, and what was spent above is unspent.
LEMMA RollBackCuts ==
  ASSUME PriceAssumption, IInv, NEW top \in 0..MaxHeight, RollBack(top)
  PROVE  /\ top \in 0..Tip /\ top < Tip /\ Tip \in Nat
         /\ BookType' /\ Tip' = top
         /\ \A h \in 1..top : chain'[h] = chain[h] /\ stamp'[h] = stamp[h] /\ credit'[h] = credit[h]
         /\ \A c \in 1..top : spent'[c] = IF spent[c] > top THEN 0 ELSE spent[c]
         /\ Total(credit, top + 1 .. Tip) \in Int
         /\ counter' = counter - Total(credit, top + 1 .. Tip)
<1>1. top \in Nat /\ Tip \in Nat /\ top < Tip /\ top \in 0..Tip
  BY ChainIs DEF RollBack, IInv, PriceAssumption
<1>2. /\ chain' = SubSeq(chain, 1, top) /\ stamp' = SubSeq(stamp, 1, top)
      /\ credit' = SubSeq(credit, 1, top)
      /\ counter' = counter - Total(credit, top + 1 .. Tip)
      /\ spent' = [c \in 1..top |-> IF spent[c] > top THEN 0 ELSE spent[c]]
  BY DEF RollBack, UnspentAbove
<1>3. /\ chain \in Seq(Day) /\ stamp \in Seq(Nat) /\ credit \in Seq(Int) /\ counter \in Int
      /\ Len(chain) = Tip /\ Len(stamp) = Tip /\ Len(credit) = Tip /\ Tip <= MaxHeight
      /\ MaxHeight \in Nat
  BY DEF IInv, Types, BookType, Tip, PriceAssumption
<1>4. \A c \in 1..top : spent[c] \in 0..Tip
  BY <1>1, ChainIs DEF IInv
<1>5. /\ chain' \in Seq(Day) /\ Len(chain') = top
      /\ stamp' \in Seq(Nat) /\ Len(stamp') = top
      /\ credit' \in Seq(Int) /\ Len(credit') = top
      /\ \A h \in 1..top : chain'[h] = chain[h] /\ stamp'[h] = stamp[h] /\ credit'[h] = credit[h]
  <2>1. chain' \in Seq(Day) /\ Len(chain') = top /\ \A h \in 1..top : chain'[h] = chain[h]
    BY <1>1, <1>2, <1>3, PrefixIsSeq
  <2>2. stamp' \in Seq(Nat) /\ Len(stamp') = top /\ \A h \in 1..top : stamp'[h] = stamp[h]
    BY <1>1, <1>2, <1>3, PrefixIsSeq
  <2>3. credit' \in Seq(Int) /\ Len(credit') = top /\ \A h \in 1..top : credit'[h] = credit[h]
    BY <1>1, <1>2, <1>3, PrefixIsSeq
  <2> QED
    BY <2>1, <2>2, <2>3
<1>6. spent' \in [1..top -> 0..top]
  <2>1. \A c \in 1..top : (IF spent[c] > top THEN 0 ELSE spent[c]) \in 0..top
    BY <1>1, <1>4
  <2> QED
    BY <1>2, <2>1
<1>7. spent' \in Seq(0..top) /\ Len(spent') = top
  BY <1>1, <1>6, TupleIsSeq
<1>8. spent' \in Seq(Nat) /\ \A c \in 1..top : spent'[c] <= top
  BY <1>1, <1>6, TupleIsSeq
<1>9. Total(credit, top + 1 .. Tip) \in Int
  <2>1. \A h \in top + 1 .. Tip : credit[h] \in Int
    BY <1>1, <1>3
  <2>2. top + 1 \in Int /\ Tip \in Int
    BY <1>1
  <2> QED
    BY <2>1, <2>2, FS_Interval, SumType DEF Total
<1>10. Tip' = top
  BY <1>5 DEF Tip
<1>11. counter' \in Int /\ top <= MaxHeight
  BY <1>1, <1>2, <1>3, <1>9
<1>12. BookType'
  BY <1>5, <1>7, <1>8, <1>10, <1>11 DEF BookType
<1> QED
  BY <1>1, <1>2, <1>5, <1>9, <1>10, <1>12

\* A sum over 1..n splits at any height below.
LEMMA TotalSplits ==
  ASSUME NEW f, NEW n \in Nat, NEW m \in 0..n, \A k \in 1..n : f[k] \in Int
  PROVE  /\ Total(f, 1..n) = Total(f, 1..m) + Total(f, m + 1 .. n)
         /\ Total(f, 1..m) \in Int /\ Total(f, m + 1 .. n) \in Int
<1>1. IsFiniteSet(1..m) /\ IsFiniteSet(m + 1 .. n)
  <2>1. 1 \in Int /\ n \in Int /\ m \in Int /\ m + 1 \in Int
    OBVIOUS
  <2> QED
    BY <2>1, FS_Interval
<1>2. (1..m) \cap (m + 1 .. n) = {} /\ (1..m) \cup (m + 1 .. n) = 1..n
  OBVIOUS
<1>3. \A k \in (1..m) \cup (m + 1 .. n) : f[k] \in Int
  BY <1>2
<1>4. SumFunctionOnSet(f, (1..m) \cup (m + 1 .. n)) = SumFunctionOnSet(f, 1..m) + SumFunctionOnSet(f, m + 1 .. n)
  BY <1>1, <1>2, <1>3, SumOfUnion
<1>5. SumFunctionOnSet(f, 1..m) \in Int /\ SumFunctionOnSet(f, m + 1 .. n) \in Int
  BY <1>1, <1>3, SumType
<1> QED
  BY <1>2, <1>4, <1>5 DEF Total

\* Equal values have equal totals.
LEMMA TotalOfEqual ==
  ASSUME NEW f, NEW g, NEW S, IsFiniteSet(S), \A x \in S : f[x] \in Int /\ g[x] = f[x]
  PROVE  Total(g, S) = Total(f, S)
BY SumOfEqual DEF Total

\* Changing some values changes the total by the changes.
LEMMA TotalOfChanges ==
  ASSUME NEW f, NEW g, NEW delta, NEW S, NEW A, IsFiniteSet(S), A \subseteq S,
         \A x \in S : f[x] \in Int, \A x \in A : delta[x] \in Int /\ g[x] = f[x] + delta[x],
         \A x \in S \ A : g[x] = f[x]
  PROVE  /\ Total(g, S) = Total(f, S) + Total(delta, A)
         /\ Total(f, S) \in Int /\ Total(delta, A) \in Int
BY SumOfChanges DEF Total

\* A rollback takes the deltas of the deleted blocks out of the counter, and the
\* rows above the day of the new tip away.
LEMMA RollBackKeeps ==
  ASSUME PriceAssumption, IInv, NEW top \in 0..MaxHeight, RollBack(top)
  PROVE  IInv'
<1> DEFINE kept == IF top = 0 THEN DOMAIN rows ELSE {d \in DOMAIN rows : d <= chain[top]}
<1>1. /\ top \in 0..Tip /\ top < Tip /\ Tip \in Nat /\ BookType' /\ Tip' = top
      /\ \A h \in 1..top : credit'[h] = credit[h]
      /\ counter' = counter - Total(credit, top + 1 .. Tip)
  BY RollBackCuts
<1>2. /\ rows' = Restrict(rows, kept)
      /\ finalized' = IF top = 0 THEN finalized ELSE Max(kept \cup {0})
      /\ UNCHANGED <<today, closes, flags, cache, pc, stale, repriced, faults>>
      /\ pc = "idle" /\ rollbacks < MaxRollbacks /\ rollbacks' = rollbacks + 1
  BY DEF RollBack
<1>3. kept \subseteq DOMAIN rows /\ DOMAIN rows \subseteq Day /\ Day = 0..MaxDay /\ MaxDay \in Nat
      /\ \A d \in DOMAIN rows : rows[d] \in Nat
  BY DEF IInv, Types, PriceTable, Day, PriceAssumption
<1> HIDE DEF kept
<1>4. rows' = [d \in kept |-> rows[d]]
  BY <1>2 DEF Restrict
<1>5. PriceTable(rows') /\ RowsShowCloses' /\ FinalizedIsSettled'
  BY <1>2, <1>3, <1>4 DEF IInv, PriceTable, RowsShowCloses, FinalizedIsSettled
<1>6. finalized' \in Day /\ \A d \in kept : d <= finalized'
  <2>1. CASE top = 0
    BY <1>2, <1>3, <2>1 DEF IInv, Types, RowsBelow
  <2>2. CASE top # 0
    <3>1. kept \cup {0} \subseteq 0..MaxDay
      BY <1>3
    <3>2. Max(kept \cup {0}) \in kept \cup {0} /\ \A y \in kept \cup {0} : y <= Max(kept \cup {0})
      BY <1>3, <3>1, MaxIsGreatest
    <3> QED
      BY <1>2, <1>3, <2>2, <3>1, <3>2
  <2> QED
    BY <2>1, <2>2
<1>7. Types'
  BY <1>1, <1>2, <1>5, <1>6 DEF IInv, Types, PriceTable, PriceAssumption
<1>8. Control' /\ RowsBelow'
  BY <1>2, <1>4, <1>6 DEF IInv, Control, RowsBelow
<1>9. RollbackExact'
  <2>1. \A h \in 1..Tip : credit[h] \in Int
    BY ChainIs DEF IInv
  <2>2. /\ Total(credit, 1..Tip) = Total(credit, 1..top) + Total(credit, top + 1 .. Tip)
        /\ Total(credit, 1..top) \in Int /\ Total(credit, top + 1 .. Tip) \in Int
    BY <1>1, <2>1, TotalSplits
  <2>3. IsFiniteSet(1..top) /\ \A h \in 1..top : credit[h] \in Int
    BY <1>1, <2>1, FS_Interval
  <2>4. Total(credit', 1..top) = Total(credit, 1..top)
    BY <1>1, <2>3, TotalOfEqual
  <2>5. counter = Total(credit, 1..Tip)
    BY DEF IInv, RollbackExact
  <2>6. counter' = Total(credit', 1..top)
    BY ONLY <1>1, <2>2, <2>4, <2>5
  <2> QED
    BY <1>1, <2>6 DEF RollbackExact, Total
<1> QED
  BY <1>5, <1>7, <1>8, <1>9 DEF IInv

\* What re-pricing corrects: the stamps of the live coins of the day, and by
\* the same amounts the deltas of the blocks that created them.
Corrected == IF TipDay \in DOMAIN flags THEN Restamped(TipDay) ELSE {}
Correction == [c \in Corrected |-> closes[TipDay] - stamp[c]]

\* One amount per coin goes into its stamp, its block's delta and the counter.
LEMMA RepriceCorrects ==
  ASSUME PriceAssumption, IInv, RepriceCommits
  PROVE  /\ BookType' /\ Tip' = Tip /\ chain' = chain /\ spent' = spent
         /\ Corrected \subseteq Live /\ Corrected \subseteq 1..Tip
         /\ TipDay \in DOMAIN closes /\ closes[TipDay] \in Nat
         /\ \A c \in 1..Tip : stamp'[c] = IF c \in Corrected THEN closes[TipDay] ELSE stamp[c]
         /\ \A c \in Corrected : /\ Correction[c] \in Int
                                 /\ stamp'[c] = stamp[c] + Correction[c]
                                 /\ credit'[c] = credit[c] + Correction[c]
         /\ \A c \in 1..Tip \ Corrected : stamp'[c] = stamp[c] /\ credit'[c] = credit[c]
         /\ counter' = counter + Total(Correction, Corrected)
         /\ Total(Correction, Corrected) \in Int
<1>1. /\ TipDay \in DOMAIN closes
      /\ stamp' = [c \in 1..Tip |-> IF c \in Corrected THEN closes[TipDay] ELSE stamp[c]]
      /\ credit' = [c \in 1..Tip |-> IF c \in Corrected THEN credit[c] + closes[TipDay] - stamp[c] ELSE credit[c]]
      /\ counter' = counter + Total(Correction, Corrected)
      /\ chain' = chain /\ spent' = spent
  BY DEF RepriceCommits, Corrected, Correction, MirrorsCredit
<1>2. Corrected \subseteq Live /\ Corrected \subseteq 1..Tip
  BY DEF Corrected, Restamped, Live
<1>3. closes[TipDay] \in Nat /\ Tip \in Nat /\ counter \in Int
      /\ \A c \in 1..Tip : stamp[c] \in Nat /\ credit[c] \in Int
  BY <1>1, ChainIs DEF IInv, Types, PriceTable, BookType
<1>4. stamp' \in [1..Tip -> Nat]
  BY <1>1, <1>3
<1>5. credit' \in [1..Tip -> Int]
  <2>1. \A c \in 1..Tip : (IF c \in Corrected THEN credit[c] + closes[TipDay] - stamp[c] ELSE credit[c]) \in Int
    BY <1>3
  <2> QED
    BY <1>1, <2>1
<1>6. \A c \in Corrected : /\ Correction[c] \in Int
                           /\ stamp'[c] = stamp[c] + Correction[c]
                           /\ credit'[c] = credit[c] + Correction[c]
  <2> SUFFICES ASSUME NEW c \in Corrected
               PROVE /\ Correction[c] \in Int /\ stamp'[c] = stamp[c] + Correction[c]
                     /\ credit'[c] = credit[c] + Correction[c]
    OBVIOUS
  <2>1. c \in 1..Tip /\ Correction[c] = closes[TipDay] - stamp[c]
    BY <1>2 DEF Correction
  <2>2. stamp'[c] = closes[TipDay] /\ credit'[c] = credit[c] + closes[TipDay] - stamp[c]
    BY <1>1, <2>1
  <2>3. stamp[c] \in Nat /\ credit[c] \in Int
    BY <1>3, <2>1
  <2> QED
    BY ONLY <1>3, <2>1, <2>2, <2>3
<1>7. \A c \in 1..Tip \ Corrected : stamp'[c] = stamp[c] /\ credit'[c] = credit[c]
  BY <1>1
<1>8. IsFiniteSet(Corrected)
  <2>1. IsFiniteSet(1..Tip)
    BY <1>3, FS_Interval
  <2> QED
    BY <1>2, <2>1, FS_Subset
<1>9. Total(Correction, Corrected) \in Int
  BY <1>6, <1>8, SumType DEF Total
<1>10. /\ stamp' \in Seq(Nat) /\ Len(stamp') = Tip /\ credit' \in Seq(Int) /\ Len(credit') = Tip
  BY <1>3, <1>4, <1>5, TupleIsSeq
<1>11. counter' \in Int
  BY <1>1, <1>3, <1>9
<1>12. Tip' = Tip
  BY <1>1 DEF Tip
<1>13. BookType'
  BY <1>1, <1>10, <1>11, <1>12 DEF IInv, Types, BookType
<1>14. \A c \in 1..Tip : stamp'[c] = IF c \in Corrected THEN closes[TipDay] ELSE stamp[c]
  BY <1>1
<1> QED
  BY <1>1, <1>2, <1>3, <1>6, <1>7, <1>9, <1>12, <1>13, <1>14

\* Re-pricing moves counter and deltas by the same sum.
LEMMA RepriceKeeps ==
  ASSUME PriceAssumption, IInv, Reprice \/ RepriceAckLost
  PROVE  IInv'
<1>1. RepriceCommits
  BY DEF Reprice, RepriceAckLost
<1>2. /\ BookType' /\ Tip' = Tip /\ chain' = chain /\ Corrected \subseteq 1..Tip
      /\ TipDay \in DOMAIN closes
      /\ \A c \in Corrected : Correction[c] \in Int /\ credit'[c] = credit[c] + Correction[c]
      /\ \A c \in 1..Tip \ Corrected : credit'[c] = credit[c]
      /\ counter' = counter + Total(Correction, Corrected)
  BY <1>1, RepriceCorrects
<1>3. /\ flags' = [d \in DOMAIN flags \ {TipDay} |-> flags[d]] /\ repriced' = TipDay
      /\ UNCHANGED <<today, closes, rows, finalized, stale, rollbacks>>
      /\ pc = "idle" /\ ~stale /\ chain # <<>> /\ finalized < TipDay /\ TipDay < today
  BY <1>1 DEF RepriceCommits, Restrict
<1>4. /\ cache' \in {<<>>, cache} /\ (pc' = "snapshot" \/ pc' = pc)
      /\ faults' \in {faults, faults + 1} /\ (faults' # faults => faults < MaxFaults)
  BY DEF Reprice, RepriceAckLost, CacheAfterReprice, Faulty
<1>5. PriceTable(flags') /\ PriceTable(cache')
  BY <1>3, <1>4 DEF IInv, Types, PriceTable
<1>6. TipDay \in Day /\ TipDay' = TipDay
  BY <1>2, ChainIs DEF IInv, TipDay
<1>7. Types'
  BY <1>2, <1>3, <1>4, <1>5, <1>6 DEF IInv, Types, PriceTable, PriceAssumption
<1>8. Control' /\ RowsBelow' /\ RowsShowCloses' /\ FinalizedIsSettled'
  BY <1>2, <1>3, <1>4, <1>6 DEF IInv, Control, RowsBelow, RowsShowCloses, FinalizedIsSettled
<1>9. RollbackExact'
  <2>1. Tip \in Nat /\ IsFiniteSet(1..Tip) /\ \A h \in 1..Tip : credit[h] \in Int
    BY ChainIs, FS_Interval DEF IInv
  <2>2. Total(credit', 1..Tip) = Total(credit, 1..Tip) + Total(Correction, Corrected)
    <3> DEFINE all == 1..Tip
               f == credit
               g == credit'
               delta == Correction
               A == Corrected
    <3>1. IsFiniteSet(all) /\ A \subseteq all /\ (\A c \in all : f[c] \in Int)
          /\ (\A c \in A : delta[c] \in Int /\ g[c] = f[c] + delta[c]) /\ \A c \in all \ A : g[c] = f[c]
      BY <1>2, <2>1
    <3>2. Total(g, all) = Total(f, all) + Total(delta, A)
      <4> HIDE DEF all, f, g, delta, A
      <4> QED
        BY <3>1, TotalOfChanges
    <3> QED
      BY <3>2
  <2> QED
    BY <1>2, <2>2 DEF IInv, RollbackExact, Total
<1> QED
  BY <1>7, <1>8, <1>9 DEF IInv

\* Finalizing shows the close of the day of the tip, which has no flag any more.
LEMMA FinalizeKeeps ==
  ASSUME PriceAssumption, IInv, FinalizeDay \/ FinalizeFails
  PROVE  IInv'
<1>1. /\ pc = "snapshot" /\ pc' = "idle"
      /\ UNCHANGED <<today, closes, flags, books, cache, stale, repriced, rollbacks>>
      /\ faults' \in {faults, faults + 1} /\ (faults' # faults => faults < MaxFaults)
  BY DEF FinalizeDay, FinalizeFails, Faulty
<1>2. \/ /\ rows' = [d \in DOMAIN rows \cup {TipDay} |-> IF d = TipDay THEN closes[d] ELSE rows[d]]
         /\ finalized' = TipDay
      \/ rows' = rows /\ finalized' = finalized
  BY DEF FinalizeDay, FinalizeFails
<1>3. /\ finalized < TipDay /\ TipDay \in DOMAIN closes /\ TipDay \notin DOMAIN flags /\ ~stale
      /\ TipDay \in Day /\ closes[TipDay] \in Nat /\ finalized \in Day /\ TipDay \in Nat
      /\ finalized \in Nat
  BY <1>1, ChainIs DEF IInv, Control, Types, PriceTable, Day, PriceAssumption
<1>4. BookType' /\ RollbackExact'
  BY <1>1 DEF IInv, Types, BookType, RollbackExact, Tip, books
<1>5. PriceTable(rows') /\ finalized' \in Day
  BY <1>2, <1>3 DEF IInv, Types, PriceTable
<1>6. Types'
  BY <1>1, <1>4, <1>5 DEF IInv, Types, PriceTable, PriceAssumption
<1>7. RowsBelow'
  <2>1. \A d \in DOMAIN rows : d \in Nat /\ d <= finalized
    BY DEF IInv, Types, PriceTable, RowsBelow, Day
  <2> QED
    BY <1>2, <1>3, <2>1 DEF RowsBelow
<1>8. Control' /\ RowsShowCloses' /\ FinalizedIsSettled'
  BY <1>1, <1>2, <1>3 DEF IInv, Control, RowsShowCloses, FinalizedIsSettled
<1> QED
  BY <1>4, <1>6, <1>7, <1>8 DEF IInv

\* A crash empties what is in memory.
LEMMA CrashKeeps ==
  ASSUME PriceAssumption, IInv, Crash
  PROVE  IInv'
<1>1. /\ pc' = "down" /\ cache' = <<>> /\ stale' = FALSE /\ faults < MaxFaults /\ faults' = faults + 1
      /\ UNCHANGED <<today, closes, flags, books, rows, finalized, repriced, rollbacks>>
  BY DEF Crash, Faulty
<1>2. BookType' /\ RollbackExact' /\ PriceTable(cache')
  <2>1. DOMAIN cache' = {}
    BY <1>1
  <2> QED
    BY <1>1, <2>1 DEF IInv, Types, BookType, RollbackExact, Tip, books, PriceTable
<1>3. Types'
  <2>1. faults' \in 0..MaxFaults /\ pc' \in {"down", "idle", "snapshot"} /\ stale' \in BOOLEAN
    BY <1>1 DEF IInv, Types, PriceAssumption
  <2>2. PriceTable(closes') /\ PriceTable(flags') /\ PriceTable(rows')
    BY <1>1 DEF IInv, Types, PriceTable
  <2> QED
    BY <1>1, <1>2, <2>1, <2>2 DEF IInv, Types
<1> QED
  BY <1>1, <1>2, <1>3 DEF IInv, Control, RowsBelow, RowsShowCloses, FinalizedIsSettled

\* A new day makes no stored close one of the running day.
LEMMA DayTurnsKeeps ==
  ASSUME PriceAssumption, IInv, DayTurns
  PROVE  IInv'
<1>1. /\ today' = today + 1 /\ today < MaxDay
      /\ UNCHANGED <<closes, flags, books, rows, finalized, cache, pc, stale, repriced, rollbacks, faults>>
  BY DEF DayTurns
<1>2. BookType' /\ RollbackExact' /\ TipDay' = TipDay
  BY <1>1 DEF IInv, Types, BookType, RollbackExact, Tip, TipDay, books
<1>3. Types'
  BY <1>1, <1>2 DEF IInv, Types, PriceTable, PriceAssumption, Day
<1>4. /\ today \in Int /\ TipDay \in Int /\ \A d \in DOMAIN closes : d \in Int
  BY ChainIs DEF IInv, Types, PriceTable, Day
<1> QED
  BY <1>1, <1>2, <1>3, <1>4 DEF IInv, Control, RowsBelow, RowsShowCloses, FinalizedIsSettled, books

\* Every step keeps the invariant.
LEMMA StepHolds ==
  ASSUME PriceAssumption, IInv, [Next]_vars
  PROVE  IInv'
<1>1. CASE UNCHANGED vars
  <2>1. BookType' /\ RollbackExact'
    BY <1>1 DEF IInv, Types, BookType, RollbackExact, Tip, books, vars
  <2> QED
    BY <1>1, <2>1 DEF IInv, Types, PriceTable, Control, RowsBelow, RowsShowCloses, FinalizedIsSettled,
      TipDay, Tip, books, vars
<1>2. CASE Next
  BY <1>2, RefreshKeeps, ProcessBlockKeeps, ProcessFailsKeeps, RollBackKeeps, RepriceKeeps,
     FinalizeKeeps, CrashKeeps, DayTurnsKeeps DEF Next
<1> QED
  BY <1>1, <1>2

---------------------------------------------------------------------------
(* The cache, while every COMMIT is answered. *)

\* While blocks may be priced, memory and tables give one answer.
LEMMA AnswerIsWorth ==
  ASSUME CacheFresh, ~stale, NEW d
  PROVE  Answer(d) = Worth(d)
BY DEF CacheFresh, Answer, Worth

\* Asking pins what the tables said before: it changes no worth, and what was
\* asked for has a flag or a close from then on.
LEMMA AskingIsNeutral ==
  ASSUME CacheInv, ~stale, NEW days, flags' = Flagged(days), cache' = Cached(days),
         UNCHANGED <<closes, stale>>
  PROVE  /\ CacheInv' /\ \A d : Worth(d)' = Worth(d)
         /\ \A d \in days \cup DOMAIN flags : d \in DOMAIN flags' \cup DOMAIN closes'
         /\ DOMAIN flags \subseteq DOMAIN flags'
<1> DEFINE pinned == {d \in days : d \notin DOMAIN cache \cup DOMAIN closes \cup DOMAIN flags}
<1>1. /\ flags' = [d \in DOMAIN flags \cup pinned |-> IF d \in pinned THEN Fallback(d) ELSE flags[d]]
      /\ DOMAIN flags' = DOMAIN flags \cup pinned
  BY DEF Flagged
<1>2. \A d : Fallback(d)' = Fallback(d)
  BY DEF Fallback
<1>3. ASSUME NEW d PROVE Worth(d)' = Worth(d)
  BY <1>1, <1>2 DEF Worth
<1>4. /\ DOMAIN cache' = DOMAIN cache \cup days
      /\ \A d \in DOMAIN cache' : cache'[d] = Worth(d)
  BY AnswerIsWorth DEF Cached, CacheInv
<1>5. CacheFresh'
  BY <1>3, <1>4 DEF CacheFresh, Worth
<1>6. CacheMarked' /\ \A d \in days \cup DOMAIN flags : d \in DOMAIN flags' \cup DOMAIN closes'
  BY <1>1, <1>4 DEF CacheInv, CacheMarked
<1> QED
  BY <1>1, <1>3, <1>5, <1>6 DEF CacheInv

\* A refresh leaves no cache behind that the new closes do not answer for.
LEMMA RefreshFresh ==
  ASSUME PriceAssumption, IInv, CacheInv, NEW offer \in Offers,
         Boot(Upserted(offer)) \/ \E fails \in BOOLEAN : SyncPrices(Upserted(offer), fails)
  PROVE  CacheInv'
<1>1. DOMAIN closes \subseteq DOMAIN closes'
  <2>1. closes' = Upserted(offer)
    BY DEF Boot, SyncPrices
  <2> QED
    BY <2>1, UpsertKeeps
<1>2. flags' = flags /\ (stale' \/ cache' = <<>>) /\ cache' \in {<<>>, cache}
  BY DEF Boot, SyncPrices, IInv, Control
<1>3. DOMAIN <<>> = {}
  OBVIOUS
<1>4. CacheMarked'
  BY <1>1, <1>2, <1>3 DEF CacheInv, CacheMarked
<1>5. CacheFresh'
  BY <1>2, <1>3 DEF CacheFresh
<1> QED
  BY <1>4, <1>5 DEF CacheInv

\* Every step keeps the cache true to the tables.
LEMMA StepFresh ==
  ASSUME PriceAssumption, IInv, CacheInv, ~MayLoseAck, [Next]_vars
  PROVE  CacheInv'
<1> DEFINE Same == UNCHANGED <<closes, flags, cache, stale>>
<1>1. ASSUME Same PROVE CacheInv'
  BY <1>1 DEF CacheInv, CacheFresh, CacheMarked, Fallback
<1>2. ASSUME NEW d \in Day, NEW coins \in SUBSET Spendable, ProcessBlock(d, coins) \/ ProcessFails(d, coins)
      PROVE  CacheInv'
  <2>1. /\ ~stale /\ flags' = Flagged(DaysAsked(d, coins)) /\ cache' = Cached(DaysAsked(d, coins))
        /\ UNCHANGED <<closes, stale>>
    BY <1>2 DEF ProcessBlock, ProcessFails, MayExtend
  <2> QED
    BY <2>1, AskingIsNeutral
<1>3. CASE Reprice
  <2>1. /\ TipDay \in DOMAIN closes /\ closes' = closes /\ stale' = stale
        /\ flags' = [d \in DOMAIN flags \ {TipDay} |-> flags[d]]
        /\ cache' = IF TipDay \in DOMAIN flags THEN <<>> ELSE cache
    BY <1>3 DEF Reprice, RepriceCommits, CacheAfterReprice, Restrict
  <2>2. CASE TipDay \in DOMAIN flags
    <3>1. DOMAIN cache' = {}
      BY <2>1, <2>2
    <3> QED
      BY <3>1 DEF CacheInv, CacheFresh, CacheMarked
  <2>3. CASE TipDay \notin DOMAIN flags
    <3>1. cache' = cache /\ DOMAIN flags' = DOMAIN flags /\ \A d \in DOMAIN flags : flags'[d] = flags[d]
      BY <2>1, <2>3
    <3> QED
      BY <2>1, <3>1 DEF CacheInv, CacheFresh, CacheMarked, Fallback
  <2> QED
    BY <2>2, <2>3
<1>4. CASE Crash
  <2>1. DOMAIN cache' = {}
    BY <1>4 DEF Crash
  <2> QED
    BY <2>1 DEF CacheInv, CacheFresh, CacheMarked
<1>5. (\E top \in 0..MaxHeight : RollBack(top)) \/ FinalizeDay \/ FinalizeFails \/ DayTurns \/ UNCHANGED vars => Same
  BY DEF RollBack, FinalizeDay, FinalizeFails, DayTurns, vars
<1>6. ~RepriceAckLost
  BY DEF RepriceAckLost
<1> HIDE DEF Same
<1> QED
  BY <1>1, <1>2, <1>3, <1>4, <1>5, <1>6, RefreshFresh DEF Next

---------------------------------------------------------------------------
(* The books, while in addition no settled close is revised and rollbacks  *)
(* stop above the re-priced day.                                           *)

\* The coin a block spends is priced at what it is stamped with.
LEMMA SpendsAtStamp ==
  ASSUME PriceAssumption, IInv, CacheInv, StampInv, ~stale, NEW c \in Live
  PROVE  c \in 1..Tip /\ Answer(chain[c]) = stamp[c]
BY AnswerIsWorth DEF StampInv, StampsStand, Stamped, Live, CacheInv

\* The live coins are those unspent at the height of the tip.
LEMMA LiveAtTip == ASSUME Types PROVE LiveAt(spent, Tip) = Live
BY ChainIs DEF LiveAt, Live

\* A stored block adds to the deltas what it adds to the live value.
LEMMA BlockBalances ==
  ASSUME PriceAssumption, IInv, CacheInv, StampInv, NEW d \in Day, NEW coins \in SUBSET Spendable,
         ProcessBlock(d, coins)
  PROVE  BalancedBelow'
<1> DEFINE n == Tip + 1
           asked == [c \in coins |-> IF c = n THEN Answer(d) ELSE Answer(chain[c])]
<1>1. /\ Tip' = n /\ Tip \in Nat /\ Delta(d, coins) \in Int
      /\ stamp'[n] = Answer(d) /\ credit'[n] = Delta(d, coins)
      /\ \A h \in 1..Tip : stamp'[h] = stamp[h] /\ credit'[h] = credit[h]
      /\ \A c \in 1..n : spent'[c] = IF c \in coins THEN n ELSE IF c <= Tip THEN spent[c] ELSE 0
  BY BlockAppends
<1>2. \A c \in 1..Tip : stamp[c] \in Int /\ credit[c] \in Int /\ spent[c] \in 0..Tip
  BY ChainIs DEF IInv
<1>3. Spendable = Live \cup {n} /\ Live \subseteq 1..Tip /\ n \notin Live /\ \A c \in Live : spent[c] = 0
  BY <1>1 DEF Spendable, Live
<1>4. Answer(d) \in Int /\ coins \subseteq Live \cup {n} /\ ~stale
  BY <1>3, AnswerType DEF IInv, ProcessBlock, MayExtend
<1>5. ASSUME NEW h \in 0..Tip
      PROVE  Total(credit', 1..h) = Total(stamp', LiveAt(spent', h))
  <2>1. LiveAt(spent', h) = LiveAt(spent, h)
    <3>1. \A c \in 1..h : (spent'[c] = 0 \/ spent'[c] > h) <=> (spent[c] = 0 \/ spent[c] > h)
      BY <1>1, <1>2, <1>3, <1>4
    <3> QED
      BY <3>1 DEF LiveAt
  <2>2. 1..h \subseteq 1..Tip /\ LiveAt(spent, h) \subseteq 1..Tip /\ IsFiniteSet(1..Tip)
    BY <1>1, UpTo DEF LiveAt
  <2>3. IsFiniteSet(1..h) /\ IsFiniteSet(LiveAt(spent, h))
    BY <2>2, FS_Subset
  <2>4. Total(credit', 1..h) = Total(credit, 1..h)
    BY <1>1, <1>2, <2>2, <2>3, TotalOfEqual
  <2>5. Total(stamp', LiveAt(spent, h)) = Total(stamp, LiveAt(spent, h))
    BY <1>1, <1>2, <2>2, <2>3, TotalOfEqual
  <2>6. Total(credit, 1..h) = Total(stamp, LiveAt(spent, h))
    BY DEF StampInv, BalancedBelow
  <2> QED
    BY <2>1, <2>4, <2>5, <2>6
<1>6. Total(credit', 1..n) = Total(stamp', LiveAt(spent', n))
  <2>1. Total(credit', 1..n) = Total(credit, 1..Tip) + Delta(d, coins)
    BY <1>1, <1>2, TotalOfNext, SMTT(30)
  <2>2. Total(credit, 1..Tip) = Total(stamp, Live)
    BY <1>1, LiveAtTip DEF IInv, StampInv, BalancedBelow
  <2>3. LiveAt(spent', n) = Spendable \ coins
    <3>1. \A c \in 1..n : (spent'[c] = 0 \/ spent'[c] > n) <=> c \in Spendable \ coins
      BY <1>1, <1>2, <1>3 DEF Live
    <3>2. Spendable \subseteq 1..n
      BY <1>1, <1>3
    <3> QED
      BY <3>1, <3>2 DEF LiveAt
  <2>4. IsFiniteSet(Live) /\ IsFiniteSet(coins) /\ IsFiniteSet(Spendable \ coins) /\ IsFiniteSet({n})
    <3>1. 1..Tip \subseteq 1..n /\ n \in 1..n /\ n \in Nat
      BY <1>1
    <3> HIDE DEF n
    <3>2. IsFiniteSet(1..n)
      BY <3>1, UpTo
    <3>3. Live \subseteq 1..n /\ coins \subseteq 1..n /\ Spendable \ coins \subseteq 1..n /\ {n} \subseteq 1..n
      BY <1>3, <1>4, <3>1
    <3> QED
      BY <3>2, <3>3, FS_Subset
  <2>5. \A c \in Live \cup {n} : stamp'[c] \in Int
    BY <1>1, <1>2, <1>3, <1>4
  <2> HIDE DEF n
  <2>6. Total(stamp', Live \cup {n}) = Total(stamp', Live) + Total(stamp', {n})
    <3> DEFINE one == {n}
    <3>1. Live \cap one = {} /\ \A c \in Live \cup one : stamp'[c] \in Int
      BY <1>3, <2>5
    <3> HIDE DEF one
    <3>2. Total(stamp', Live \cup one) = Total(stamp', Live) + Total(stamp', one)
      BY <2>4, <3>1, SumOfUnion DEF Total, one
    <3> QED
      BY <3>2 DEF one
  <2>7. Total(stamp', {n}) = Answer(d)
    BY <1>1, <1>4, SumOfOne DEF Total
  <2>8. Total(stamp', Live) = Total(stamp, Live)
    BY <1>1, <1>2, <1>3, <2>4, TotalOfEqual
  <2>9. Total(stamp', Live \cup {n}) = Total(stamp', coins) + Total(stamp', Spendable \ coins)
    <3> DEFINE left == Spendable \ coins
    <3>1. coins \cap left = {} /\ coins \cup left = Live \cup {n} /\ IsFiniteSet(left)
      BY <1>3, <1>4, <2>4
    <3>2. \A c \in coins \cup left : stamp'[c] \in Int
      BY <2>5, <3>1
    <3> HIDE DEF left
    <3>3. Total(stamp', coins \cup left) = Total(stamp', coins) + Total(stamp', left)
      BY <2>4, <3>1, <3>2, SumOfUnion DEF Total
    <3> QED
      BY <3>1, <3>3 DEF left
  <2>10. Total(asked, coins) = Total(stamp', coins)
    <3>1. \A c \in coins : asked[c] = stamp'[c] /\ stamp'[c] \in Int
      <4> SUFFICES ASSUME NEW c \in coins PROVE asked[c] = stamp'[c] /\ stamp'[c] \in Int
        OBVIOUS
      <4>1. CASE c = n
        BY <1>1, <1>4, <4>1
      <4>2. CASE c # n
        <5>1. c \in Live /\ c \in 1..Tip
          BY <1>3, <1>4, <4>2
        <5>2. Answer(chain[c]) = stamp[c]
          BY <1>4, <5>1, SpendsAtStamp
        <5> QED
          BY <1>1, <1>2, <4>2, <5>1, <5>2
      <4> QED
        BY <4>1, <4>2
    <3> HIDE DEF asked
    <3> QED
      BY <2>4, <3>1, TotalOfEqual
  <2>11. Delta(d, coins) = Answer(d) - Total(asked, coins)
    BY DEF Delta, n
  <2>12. /\ Total(stamp', coins) \in Int /\ Total(stamp', Spendable \ coins) \in Int
         /\ Total(stamp, Live) \in Int
    <3>1. /\ \A c \in coins : stamp'[c] \in Int
          /\ \A c \in Spendable \ coins : stamp'[c] \in Int
          /\ \A c \in Live : stamp[c] \in Int
      BY <1>2, <1>3, <1>4, <2>5
    <3> QED
      BY <2>4, <3>1, SumType DEF Total
  <2> QED
    BY ONLY <1>4, <2>1, <2>2, <2>3, <2>6, <2>7, <2>8, <2>9, <2>10, <2>11, <2>12
<1>7. \A h \in 0..n : h \in 0..Tip \/ h = n
  BY <1>1
<1>8. \A h \in 0..n : Total(credit', 1..h) = Total(stamp', LiveAt(spent', h))
  <2> HIDE DEF n
  <2> QED
    BY <1>5, <1>6, <1>7
<1> QED
  BY <1>1, <1>8 DEF BalancedBelow, Total, LiveAt

\* A rollback stops where the deltas below are the value of what is live again.
LEMMA RollBackBalances ==
  ASSUME PriceAssumption, IInv, StampInv, NEW top \in 0..MaxHeight, RollBack(top)
  PROVE  BalancedBelow'
<1>1. /\ top \in 0..Tip /\ Tip \in Nat /\ Tip' = top
      /\ \A h \in 1..top : stamp'[h] = stamp[h] /\ credit'[h] = credit[h]
      /\ \A c \in 1..top : spent'[c] = IF spent[c] > top THEN 0 ELSE spent[c]
  BY RollBackCuts
<1>2. \A c \in 1..Tip : stamp[c] \in Int /\ credit[c] \in Int /\ spent[c] \in 0..Tip
  BY ChainIs DEF IInv
<1>3. ASSUME NEW h \in 0..top
      PROVE  Total(credit', 1..h) = Total(stamp', LiveAt(spent', h))
  <2>1. LiveAt(spent', h) = LiveAt(spent, h)
    <3>1. \A c \in 1..h : (spent'[c] = 0 \/ spent'[c] > h) <=> (spent[c] = 0 \/ spent[c] > h)
      BY <1>1, <1>2
    <3> QED
      BY <3>1 DEF LiveAt
  <2>2. /\ 1..h \subseteq 1..top /\ LiveAt(spent, h) \subseteq 1..top /\ 1..top \subseteq 1..Tip
        /\ IsFiniteSet(1..top)
    BY <1>1, UpTo DEF LiveAt
  <2>3. IsFiniteSet(1..h) /\ IsFiniteSet(LiveAt(spent, h))
    BY <2>2, FS_Subset
  <2>4. Total(credit', 1..h) = Total(credit, 1..h)
    BY <1>1, <1>2, <2>2, <2>3, TotalOfEqual
  <2>5. Total(stamp', LiveAt(spent, h)) = Total(stamp, LiveAt(spent, h))
    BY <1>1, <1>2, <2>2, <2>3, TotalOfEqual
  <2>6. Total(credit, 1..h) = Total(stamp, LiveAt(spent, h))
    BY <1>1 DEF StampInv, BalancedBelow
  <2> QED
    BY <2>1, <2>4, <2>5, <2>6
<1> QED
  BY <1>1, <1>3 DEF BalancedBelow, Total, LiveAt

\* Re-pricing corrects a coin and the block that created it by one amount.
LEMMA RepriceBalances ==
  ASSUME PriceAssumption, IInv, StampInv, RepriceCommits
  PROVE  BalancedBelow'
<1>1. /\ Tip' = Tip /\ spent' = spent /\ Corrected \subseteq Live /\ Corrected \subseteq 1..Tip
      /\ \A c \in Corrected : /\ Correction[c] \in Int
                              /\ stamp'[c] = stamp[c] + Correction[c]
                              /\ credit'[c] = credit[c] + Correction[c]
      /\ \A c \in 1..Tip \ Corrected : stamp'[c] = stamp[c] /\ credit'[c] = credit[c]
  BY RepriceCorrects
<1>2. Tip \in Nat /\ \A c \in 1..Tip : stamp[c] \in Int /\ credit[c] \in Int
  BY ChainIs DEF IInv
<1>3. ASSUME NEW h \in 0..Tip
      PROVE  Total(credit', 1..h) = Total(stamp', LiveAt(spent, h))
  <2> DEFINE A == Corrected \cap 1..h
             below == 1..h
             live == LiveAt(spent, h)
  <2>1. A \subseteq below /\ A \subseteq live /\ below \subseteq 1..Tip /\ live \subseteq below
    BY <1>1, <1>2 DEF LiveAt, Live
  <2>2. IsFiniteSet(below) /\ IsFiniteSet(live)
    BY <1>2, <2>1, UpTo, FS_Subset
  <2>3. /\ \A c \in A : /\ Correction[c] \in Int /\ stamp'[c] = stamp[c] + Correction[c]
                        /\ credit'[c] = credit[c] + Correction[c]
        /\ \A c \in below \ A : credit'[c] = credit[c] /\ stamp'[c] = stamp[c]
        /\ \A c \in below : credit[c] \in Int /\ stamp[c] \in Int
    BY <1>1, <1>2, <2>1
  <2>4. Total(credit, below) = Total(stamp, live)
    BY DEF StampInv, BalancedBelow
  <2>5. \A c \in live \ A : stamp'[c] = stamp[c]
    BY <2>1, <2>3
  <2>6. \A c \in live : stamp[c] \in Int
    BY <2>1, <2>3
  <2>7. Total(credit', below) = Total(credit, below) + Total(Correction, A)
    <3> DEFINE f == credit
               g == credit'
               delta == Correction
               S == below
               B == A
    <3>1. IsFiniteSet(S) /\ B \subseteq S /\ (\A c \in S : f[c] \in Int)
          /\ (\A c \in B : delta[c] \in Int /\ g[c] = f[c] + delta[c]) /\ \A c \in S \ B : g[c] = f[c]
      BY <2>1, <2>2, <2>3
    <3>2. Total(g, S) = Total(f, S) + Total(delta, B)
      <4> HIDE DEF f, g, delta, S, B
      <4> QED
        BY <3>1, TotalOfChanges
    <3> QED
      BY <3>2
  <2>8. Total(stamp', live) = Total(stamp, live) + Total(Correction, A)
    <3> DEFINE f == stamp
               g == stamp'
               delta == Correction
               S == live
               B == A
    <3>1. IsFiniteSet(S) /\ B \subseteq S /\ (\A c \in S : f[c] \in Int)
          /\ (\A c \in B : delta[c] \in Int /\ g[c] = f[c] + delta[c]) /\ \A c \in S \ B : g[c] = f[c]
      BY <2>1, <2>2, <2>3, <2>5, <2>6
    <3>2. Total(g, S) = Total(f, S) + Total(delta, B)
      <4> HIDE DEF f, g, delta, S, B
      <4> QED
        BY <3>1, TotalOfChanges
    <3> QED
      BY <3>2
  <2> QED
    BY <2>4, <2>7, <2>8
<1> QED
  BY <1>1, <1>3 DEF BalancedBelow, Total, LiveAt

\* The days of the chain stay in order, and the re-priced day keeps a block.
LEMMA BlockInOrder ==
  ASSUME PriceAssumption, IInv, StampInv, NEW d \in Day, NEW coins \in SUBSET Spendable,
         ProcessBlock(d, coins)
  PROVE  DaysInOrder'
<1>1. /\ Tip' = Tip + 1 /\ Tip \in Nat /\ chain'[Tip + 1] = d
      /\ \A h \in 1..Tip : chain'[h] = chain[h]
  BY BlockAppends
<1>2. d >= TipDay /\ d > 0 /\ d \in Nat /\ repriced' = repriced /\ (Tip > 0 => TipDay = chain[Tip])
  BY <1>1, ChainIs DEF ProcessBlock, MayExtend, TipDay, IInv, Day
<1>3. \A h \in 1..Tip : chain[h] \in Nat /\ chain[h] <= TipDay
  <2> SUFFICES ASSUME NEW h \in 1..Tip PROVE chain[h] \in Nat /\ chain[h] <= TipDay
    OBVIOUS
  <2>1. Tip \in 1..Tip /\ h <= Tip
    BY <1>1
  <2> QED
    BY <1>2, <2>1, ChainIs DEF IInv, StampInv, DaysInOrder, Day
<1>4. \A h \in 1..Tip' : h \in 1..Tip \/ h = Tip + 1
  BY <1>1
<1>5. TipDay \in Nat
  BY ChainIs DEF IInv, Day
<1>6. \A h \in 1..Tip' : chain'[h] > 0
  BY <1>1, <1>2, <1>4 DEF StampInv, DaysInOrder
<1>7. \A h, k \in 1..Tip' : h <= k => chain'[h] <= chain'[k]
  <2> SUFFICES ASSUME NEW h \in 1..Tip', NEW k \in 1..Tip', h <= k PROVE chain'[h] <= chain'[k]
    OBVIOUS
  <2>1. CASE k \in 1..Tip
    <3>1. h \in 1..Tip
      BY <1>1, <2>1
    <3> QED
      BY <1>1, <2>1, <3>1 DEF StampInv, DaysInOrder
  <2>2. CASE k = Tip + 1 /\ h \in 1..Tip
    BY <1>1, <1>2, <1>3, <1>5, <2>2
  <2>3. CASE k = Tip + 1 /\ h = Tip + 1
    BY <1>1, <1>2, <2>3
  <2> QED
    BY <1>4, <2>1, <2>2, <2>3
<1>8. repriced' > 0 => \E h \in 1..Tip' : chain'[h] = repriced'
  BY <1>1, <1>2 DEF StampInv, DaysInOrder
<1> QED
  BY <1>6, <1>7, <1>8 DEF DaysInOrder

\* A rollback that stops above the re-priced day leaves a block of it.
LEMMA RollBackInOrder ==
  ASSUME PriceAssumption, IInv, StampInv, ~MayReopen, NEW top \in 0..MaxHeight, RollBack(top)
  PROVE  DaysInOrder'
<1>1. /\ top \in 0..Tip /\ Tip \in Nat /\ Tip' = top /\ repriced' = repriced
      /\ \A h \in 1..top : chain'[h] = chain[h]
      /\ \A h \in top + 1 .. Tip : chain[h] > repriced
  BY RollBackCuts DEF RollBack
<1>2. repriced \in Nat /\ \A h \in 1..Tip : chain[h] \in Nat
  BY ChainIs DEF IInv, Types, Day
<1>3. repriced > 0 => \E h \in 1..top : chain[h] = repriced
  <2> SUFFICES ASSUME repriced > 0 PROVE \E h \in 1..top : chain[h] = repriced
    OBVIOUS
  <2>1. PICK h \in 1..Tip : chain[h] = repriced
    BY DEF StampInv, DaysInOrder
  <2>2. h \notin top + 1 .. Tip
    BY <1>1, <1>2, <2>1
  <2>3. h \in 1..top
    BY <1>1, <2>2
  <2> QED
    BY <2>1, <2>3
<1>4. 1..top \subseteq 1..Tip
  BY <1>1
<1> QED
  BY <1>1, <1>3, <1>4 DEF StampInv, DaysInOrder

\* The day re-priced is that of the tip.
LEMMA RepriceInOrder ==
  ASSUME PriceAssumption, IInv, StampInv, RepriceCommits
  PROVE  DaysInOrder'
<1>1. chain' = chain /\ Tip' = Tip /\ Tip \in Nat /\ repriced' = TipDay /\ chain # <<>>
  BY RepriceCorrects, ChainIs DEF RepriceCommits, IInv
<1>2. Tip \in 1..Tip /\ TipDay = chain[Tip]
  BY <1>1, ChainIs DEF IInv, TipDay
<1> QED
  BY <1>1, <1>2 DEF StampInv, DaysInOrder

---------------------------------------------------------------------------
(* The stamps. *)

\* While no settled close is revised, a refresh changes nothing a coin is worth.
LEMMA RefreshKeepsStamps ==
  ASSUME PriceAssumption, IInv, StampInv, ~MayRevise, NEW offer \in Offers,
         Boot(Upserted(offer)) \/ \E fails \in BOOLEAN : SyncPrices(Upserted(offer), fails)
  PROVE  StampsStand'
<1>1. closes' = Upserted(offer) /\ UNCHANGED <<flags, books, repriced>>
  BY DEF Boot, SyncPrices
<1>2. chain' = chain /\ stamp' = stamp /\ spent' = spent /\ Tip' = Tip
  BY <1>1 DEF books, Tip
<1>3. DOMAIN closes \subseteq DOMAIN closes'
  BY <1>1, UpsertKeeps
<1>4. ASSUME NEW c \in 1..Tip, Stamped(c) PROVE Stamped(c)'
  <2>1. CASE chain[c] \in DOMAIN flags
    BY <1>1, <1>2, <1>4, <2>1 DEF Stamped, Worth
  <2>2. CASE chain[c] \notin DOMAIN flags
    <3>1. chain[c] \in DOMAIN closes /\ stamp[c] = closes[chain[c]]
      BY <1>4, <2>2 DEF Stamped, Worth
    <3>2. Settled(chain[c])
      BY <2>2 DEF Settled
    <3>3. chain[c] \in DOMAIN offer => offer[chain[c]] = closes[chain[c]]
      BY <3>1, <3>2 DEF Offers
    <3>4. closes'[chain[c]] = closes[chain[c]]
      BY <1>1, <3>1, <3>3 DEF Upserted
    <3> QED
      BY <1>1, <1>2, <1>3, <2>2, <3>1, <3>4 DEF Stamped, Worth
  <2> QED
    BY <2>1, <2>2
<1> QED
  BY <1>1, <1>2, <1>4 DEF StampInv, StampsStand

\* Asking changes no worth either.
LEMMA AskingKeepsStamps ==
  ASSUME CacheInv, ~stale, NEW days, flags' = Flagged(days), cache' = Cached(days),
         UNCHANGED <<closes, stale>>, NEW c, Stamped(c), chain'[c] = chain[c], stamp'[c] = stamp[c]
  PROVE  Stamped(c)'
<1>1. /\ \A d : Worth(d)' = Worth(d)
      /\ \A d \in DOMAIN flags : d \in DOMAIN flags'
  BY AskingIsNeutral
<1>2. PICK d : d = chain[c]
  OBVIOUS
<1>3. (d \in DOMAIN flags \/ d \in DOMAIN closes) /\ stamp[c] = Worth(d)
  BY <1>2 DEF Stamped
<1>4. (d \in DOMAIN flags' \/ d \in DOMAIN closes') /\ stamp'[c] = Worth(d)'
  BY <1>1, <1>3
<1>5. Stamped(c)' <=> (d \in DOMAIN flags' \/ d \in DOMAIN closes') /\ stamp'[c] = Worth(d)'
  BY <1>2 DEF Stamped, Worth, Fallback
<1> QED
  BY <1>4, <1>5

\* The coins a block spends were live; the one it creates is stamped at what
\* its day is worth.
LEMMA BlockKeepsStamps ==
  ASSUME PriceAssumption, IInv, CacheInv, StampInv, NEW d \in Day, NEW coins \in SUBSET Spendable,
         ProcessBlock(d, coins)
  PROVE  StampsStand'
<1>1. /\ Tip' = Tip + 1 /\ Tip \in Nat /\ chain'[Tip + 1] = d /\ stamp'[Tip + 1] = Answer(d)
      /\ \A h \in 1..Tip : chain'[h] = chain[h] /\ stamp'[h] = stamp[h]
      /\ \A c \in 1..Tip + 1 :
           spent'[c] = IF c \in coins THEN Tip + 1 ELSE IF c <= Tip THEN spent[c] ELSE 0
  BY BlockAppends
<1>2. /\ ~stale /\ flags' = Flagged(DaysAsked(d, coins)) /\ cache' = Cached(DaysAsked(d, coins))
      /\ UNCHANGED <<closes, stale, repriced>> /\ d \in DaysAsked(d, coins)
  BY DEF ProcessBlock, MayExtend, DaysAsked
<1>3. \A c \in 1..Tip : spent[c] \in 0..Tip
  BY ChainIs DEF IInv
<1>4. ASSUME NEW c \in 1..Tip, spent'[c] = 0 \/ chain'[spent'[c]] > repriced'
      PROVE  Stamped(c)'
  <2>1. CASE c \in coins
    <3>1. c \in Live
      BY <1>1, <2>1 DEF Spendable
    <3>2. Stamped(c)
      BY <3>1 DEF StampInv, StampsStand, Live
    <3> QED
      BY <1>1, <1>2, <3>2, AskingKeepsStamps
  <2>2. CASE c \notin coins
    <3>1. spent'[c] = spent[c] /\ (spent[c] = 0 \/ spent[c] \in 1..Tip)
      BY <1>1, <1>3, <2>2
    <3>2. Stamped(c)
      BY <1>1, <1>2, <1>4, <3>1 DEF StampInv, StampsStand
    <3> QED
      BY <1>1, <1>2, <3>2, AskingKeepsStamps
  <2> QED
    BY <2>1, <2>2
<1>5. PICK n : n = Tip + 1
  OBVIOUS
<1>6. Stamped(n)'
  <2>1. /\ d \in DOMAIN flags' \cup DOMAIN closes' /\ Worth(d)' = Worth(d)
    BY <1>2, AskingIsNeutral
  <2>2. Answer(d) = Worth(d)
    BY <1>2, AnswerIsWorth DEF CacheInv
  <2>3. chain'[n] = d /\ stamp'[n] = Worth(d)'
    BY <1>1, <1>5, <2>1, <2>2
  <2> QED
    BY <2>1, <2>3 DEF Stamped, Worth, Fallback
<1>7. \A c \in 1..Tip' : c \in 1..Tip \/ c = n
  BY <1>1, <1>5
<1> QED
  BY <1>4, <1>6, <1>7 DEF StampsStand

\* The coins a rollback makes live were spent above the re-priced day.
LEMMA RollBackKeepsStamps ==
  ASSUME PriceAssumption, IInv, StampInv, ~MayReopen, NEW top \in 0..MaxHeight, RollBack(top)
  PROVE  StampsStand'
<1>1. /\ top \in 0..Tip /\ Tip \in Nat /\ Tip' = top
      /\ \A h \in 1..top : chain'[h] = chain[h] /\ stamp'[h] = stamp[h]
      /\ \A c \in 1..top : spent'[c] = IF spent[c] > top THEN 0 ELSE spent[c]
  BY RollBackCuts
<1>2. /\ UNCHANGED <<closes, flags, repriced>> /\ \A h \in top + 1 .. Tip : chain[h] > repriced
  BY DEF RollBack
<1>3. \A c \in 1..Tip : spent[c] \in 0..Tip
  BY ChainIs DEF IInv
<1>4. ASSUME NEW c \in 1..top, spent'[c] = 0 \/ chain'[spent'[c]] > repriced'
      PROVE  Stamped(c)'
  <2>1. c \in 1..Tip
    BY <1>1
  <2>2. spent[c] = 0 \/ chain[spent[c]] > repriced
    <3>1. CASE spent[c] > top
      BY <1>1, <1>2, <1>3, <2>1, <3>1
    <3>2. CASE ~(spent[c] > top)
      <4>1. spent'[c] = spent[c] /\ (spent[c] = 0 \/ spent[c] \in 1..top)
        BY <1>1, <1>3, <2>1, <3>2
      <4> QED
        BY <1>1, <1>2, <1>4, <4>1
    <3> QED
      BY <3>1, <3>2
  <2>3. Stamped(c)
    BY <2>1, <2>2 DEF StampInv, StampsStand
  <2> QED
    BY <1>1, <1>2, <2>3 DEF Stamped, Worth, Fallback
<1> QED
  BY <1>1, <1>4 DEF StampsStand

\* The live coins of the re-priced day get its close; a coin that is spent was
\* spent on that day at the latest.
LEMMA RepriceKeepsStamps ==
  ASSUME PriceAssumption, IInv, StampInv, RepriceCommits
  PROVE  StampsStand'
<1>1. /\ Tip' = Tip /\ chain' = chain /\ spent' = spent /\ TipDay \in DOMAIN closes
      /\ \A c \in 1..Tip : stamp'[c] = IF c \in Corrected THEN closes[TipDay] ELSE stamp[c]
  BY RepriceCorrects
<1>2. /\ flags' = [d \in DOMAIN flags \ {TipDay} |-> flags[d]] /\ repriced' = TipDay
      /\ closes' = closes /\ chain # <<>>
  BY DEF RepriceCommits, Restrict
<1>3. Tip \in 1..Tip /\ TipDay = chain[Tip] /\ TipDay \in Nat
  BY <1>2, ChainIs DEF IInv, TipDay, Day
<1>4. ASSUME NEW c \in 1..Tip, spent[c] = 0 \/ chain[spent[c]] > TipDay
      PROVE  Stamped(c)'
  <2>1. spent[c] = 0
    <3> SUFFICES ASSUME spent[c] # 0 PROVE FALSE
      OBVIOUS
    <3>1. spent[c] \in 1..Tip /\ spent[c] <= Tip
      BY <1>3, ChainIs DEF IInv
    <3>2. chain[spent[c]] <= TipDay /\ chain[spent[c]] \in Nat
      BY <1>3, <3>1, ChainIs DEF IInv, StampInv, DaysInOrder, Day
    <3> QED
      BY <1>3, <1>4, <3>2
  <2>2. Stamped(c) /\ c \in Live
    BY <2>1 DEF StampInv, StampsStand, Live
  <2>3. PICK d : d = chain[c]
    OBVIOUS
  <2>4. CASE d = TipDay
    <3>1. stamp'[c] = closes[d]
      BY <1>1, <2>2, <2>3, <2>4 DEF Corrected, Restamped, Stamped, Worth
    <3>2. d \notin DOMAIN flags' /\ d \in DOMAIN closes' /\ chain'[c] = d /\ stamp'[c] = closes'[d]
      BY <1>1, <1>2, <2>3, <2>4, <3>1
    <3> QED
      BY <3>2 DEF Stamped, Worth
  <2>5. CASE d # TipDay
    <3>1. stamp'[c] = stamp[c]
      BY <1>1, <2>3, <2>5 DEF Corrected, Restamped
    <3>2. (d \in DOMAIN flags' <=> d \in DOMAIN flags) /\ (d \in DOMAIN flags => flags'[d] = flags[d])
      BY <1>2, <2>5
    <3> QED
      BY <1>1, <1>2, <2>2, <2>3, <3>1, <3>2 DEF Stamped, Worth, Fallback
  <2> QED
    BY <2>4, <2>5
<1> QED
  BY <1>1, <1>2, <1>4 DEF StampsStand

\* Every step keeps the books balanced at every height and the stamps standing.
LEMMA StepStamps ==
  ASSUME PriceAssumption, IInv, CacheInv, StampInv, Benign, [Next]_vars
  PROVE  StampInv'
<1>1. ASSUME UNCHANGED <<books, repriced>> PROVE BalancedBelow' /\ DaysInOrder'
  BY <1>1 DEF StampInv, BalancedBelow, DaysInOrder, LiveAt, Tip, Total, books
<1>2. ASSUME UNCHANGED <<books, repriced, closes, flags>> PROVE StampsStand'
  BY <1>2 DEF StampInv, StampsStand, Stamped, Worth, Fallback, Tip, books
<1>3. ASSUME NEW offer \in Offers, Boot(Upserted(offer)) \/ \E fails \in BOOLEAN : SyncPrices(Upserted(offer), fails)
      PROVE  StampInv'
  <2>1. UNCHANGED <<books, repriced>>
    BY <1>3 DEF Boot, SyncPrices
  <2> QED
    BY <1>1, <1>3, <2>1, RefreshKeepsStamps DEF Benign, StampInv
<1>4. ASSUME NEW d \in Day, NEW coins \in SUBSET Spendable, ProcessBlock(d, coins)
      PROVE  StampInv'
  BY <1>4, BlockBalances, BlockInOrder, BlockKeepsStamps DEF StampInv
<1>5. ASSUME NEW d \in Day, NEW coins \in SUBSET Spendable, ProcessFails(d, coins)
      PROVE  StampInv'
  <2>1. /\ UNCHANGED <<books, repriced>> /\ ~stale /\ UNCHANGED <<closes, stale>>
        /\ flags' = Flagged(DaysAsked(d, coins)) /\ cache' = Cached(DaysAsked(d, coins))
    BY <1>5 DEF ProcessFails, MayExtend
  <2>2. ASSUME NEW c, Stamped(c) PROVE Stamped(c)'
    BY <2>1, <2>2, AskingKeepsStamps DEF books
  <2>3. StampsStand'
    BY <2>1, <2>2 DEF StampInv, StampsStand, Tip, books
  <2> QED
    BY <1>1, <2>1, <2>3 DEF StampInv
<1>6. ASSUME NEW top \in 0..MaxHeight, RollBack(top) PROVE StampInv'
  BY <1>6, RollBackBalances, RollBackInOrder, RollBackKeepsStamps DEF StampInv, Benign
<1>7. CASE Reprice
  BY <1>7, RepriceBalances, RepriceInOrder, RepriceKeepsStamps DEF StampInv, Reprice
<1>8. FinalizeDay \/ FinalizeFails \/ Crash \/ DayTurns \/ UNCHANGED vars
        => UNCHANGED <<books, repriced, closes, flags>>
  BY DEF FinalizeDay, FinalizeFails, Crash, DayTurns, vars, books
<1>9. FinalizeDay \/ FinalizeFails \/ Crash \/ DayTurns \/ UNCHANGED vars => StampInv'
  BY <1>1, <1>2, <1>8 DEF StampInv
<1>10. ~RepriceAckLost
  BY DEF RepriceAckLost, Benign
<1> QED
  BY <1>3, <1>4, <1>5, <1>6, <1>7, <1>9, <1>10 DEF Next

---------------------------------------------------------------------------
(* The theorems. *)

\* Nothing is stored, nothing is cached.
LEMMA InitFull == ASSUME PriceAssumption, Init PROVE FullInv
<1>1. IInv
  BY InitHolds
<1>2. /\ DOMAIN cache = {} /\ chain = <<>> /\ credit = <<>> /\ stamp = <<>> /\ Tip = 0 /\ repriced = 0
  BY DEF Init, Tip
<1>3. CacheInv
  BY <1>2 DEF CacheInv, CacheFresh, CacheMarked
<1>4. BalancedBelow
  <2>1. \A h \in 0..Tip : 1..h = {} /\ LiveAt(spent, h) = {}
    BY <1>2 DEF LiveAt
  <2> QED
    BY <2>1, SumOfNone DEF BalancedBelow, Total
<1>5. DaysInOrder /\ StampsStand
  BY <1>2 DEF DaysInOrder, StampsStand
<1> QED
  BY <1>1, <1>3, <1>4, <1>5 DEF FullInv, StampInv

\* The three parts of the invariant, each under its premise.
LEMMA StepFull ==
  ASSUME PriceAssumption, FullInv, [Next]_vars
  PROVE  FullInv'
<1>1. IInv'
  BY StepHolds DEF FullInv
<1>2. ~MayLoseAck => CacheInv'
  BY StepFresh DEF FullInv
<1>3. Benign => StampInv'
  BY StepStamps DEF FullInv, Benign
<1> QED
  BY <1>1, <1>2, <1>3 DEF FullInv

\* What the invariant says of the properties that are checked.
LEMMA FullImplies ==
  ASSUME PriceAssumption, FullInv
  PROVE  PricesReconcile
<1>1. ASSUME Benign PROVE RealizedCapReconciles /\ SpendsSeeTheirStamp /\ ProvisionalIsMarked
  <2>1. IInv /\ CacheInv /\ StampInv
    BY <1>1 DEF FullInv, Benign
  <2>2. RealizedCapReconciles
    <3>1. Tip \in 0..Tip
      BY <2>1, ChainIs DEF IInv
    <3>2. Total(credit, 1..Tip) = Total(stamp, LiveAt(spent, Tip))
      BY <2>1, <3>1 DEF StampInv, BalancedBelow
    <3> QED
      BY <2>1, <3>2, LiveAtTip DEF IInv, RollbackExact, RealizedCapReconciles
  <2>3. SpendsSeeTheirStamp
    BY <2>1, SpendsAtStamp DEF SpendsSeeTheirStamp
  <2>4. ProvisionalIsMarked
    BY <2>1 DEF StampInv, StampsStand, Stamped, Worth, Live, ProvisionalIsMarked
  <2> QED
    BY <2>2, <2>3, <2>4
<1>2. RollbackExact /\ RowsShowCloses /\ FinalizedIsSettled /\ (~MayLoseAck => CacheFresh)
  BY DEF FullInv, IInv, CacheInv
<1> QED
  BY <1>1, <1>2 DEF PricesReconcile, Benign

\* The tables, the cache and the books keep their types: no close, flag, row
\* or cached price of a day outside the clock, one stamp, spend mark and delta
\* per stored block (the price tables and the columns of blocks and utxos).
THEOREM TypesHold == ASSUME PriceAssumption PROVE Spec => []TypeOK
<1>1. Init => IInv
  BY InitHolds
<1>2. IInv /\ [Next]_vars => IInv'
  BY StepHolds
<1>3. ASSUME IInv PROVE TypeOK
  <2>1. Types
    BY <1>3 DEF IInv
  <2>2. Tip \in 0..MaxHeight
    BY <2>1 DEF Types, BookType, Tip, PriceAssumption
  <2> QED
    BY <2>1, <2>2, ChainIs DEF TypeOK, Types, PriceTable
<1> QED
  BY <1>1, <1>2, <1>3, PTL DEF Spec

\* The realized cap of every reachable state is the sum of the deltas of the
\* stored blocks; rows show closes that never change again; with every COMMIT
\* answered the cache tells what the tables say; and while no settled close is
\* revised and no block of a re-priced day is rolled back, it is the live set
\* at its stamps, spends see the stamp their coin was credited at and whatever
\* is provisional is marked so (processBlocks, rollbackAbove, priceForDay and
\* repriceProvisionalDay).
THEOREM BooksReconcile == ASSUME PriceAssumption PROVE Spec => []PricesReconcile
<1>1. Init => FullInv
  BY InitFull
<1>2. FullInv /\ [Next]_vars => FullInv'
  BY StepFull
<1>3. FullInv => PricesReconcile
  BY FullImplies
<1> QED
  BY <1>1, <1>2, <1>3, PTL DEF Spec
=============================================================================
