------------------------------- MODULE Cycles -------------------------------
(***************************************************************************)
(* The shared cycle detector and the two charts built on it directly       *)
(* (server/src/bottoms.js, priceQuality.js): the bear market's peak and    *)
(* low of each halving epoch, the days around each low, and the rallies    *)
(* inside each bear.  A close that num() makes null is 0 here, a median is *)
(* doubled and an average is a sum, so that everything stays an integer.   *)
(***************************************************************************)
EXTENDS DailyRows

CONSTANTS
  SmoothHalf, \* half-width of the centered median
  MinFall,    \* minDrawdown, in tenths
  SmaDays,    \* length of the moving average
  Window,     \* days shown either side of a low
  Flagged     \* the days of BAD_CLOSE_WINDOWS

VARIABLE cycles \* what the route being served found: each epoch's peak and low, as rows

\* What the constants have to satisfy.
CyclesAssumption ==
  SmoothHalf \in Nat /\ MinFall \in 0..10 /\ SmaDays \in Nat \ {0} /\ Window \in Nat

Priced(i) == rows[i].price > 0
Price(i) == rows[i].price

\* A mutant of Median: the mean, which one print moves.
MedianMean(i) ==
  LET seen == {k \in 1..Len(rows) : k >= i - SmoothHalf /\ k <= i + SmoothHalf /\ Priced(k)}
  IN IF seen = {} THEN 0
     ELSE (2 * FoldSet(LAMBDA k, a : a + Price(k), 0, seen)) \div Cardinality(seen)

\* rollingMedian at row i, doubled; 0 when the window has no price.
Median(i) ==
  LET seen == SelectSeq([k \in 1..Len(rows) |-> k],
                        LAMBDA k : k >= i - SmoothHalf /\ k <= i + SmoothHalf /\ Priced(k))
      w == SortSeq([k \in DOMAIN seen |-> Price(seen[k])], <)
      n == Len(w)
  IN IF n = 0 THEN 0 ELSE IF n % 2 = 1 THEN 2 * w[(n + 1) \div 2]
     ELSE w[n \div 2] + w[n \div 2 + 1]

\* A mutant of Sma: a window that is not full yet is averaged too.
SmaPartial(vals) ==
  FoldLeft(LAMBDA a, v :
    IF v = 0 THEN [buf |-> <<>>, sum |-> 0, out |-> Append(a.out, 0)]
    ELSE LET more == Append(a.buf, v)
             buf == IF Len(more) > SmaDays THEN Tail(more) ELSE more
             sum == a.sum + v - (IF Len(more) > SmaDays THEN Head(more) ELSE 0)
         IN [buf |-> buf, sum |-> sum, out |-> Append(a.out, sum)],
    [buf |-> <<>>, sum |-> 0, out |-> <<>>], vals).out

\* sma: the running window of the last SmaDays values, restarted by a null;
\* the sum of a full window, 0 while it is not full.
Sma(vals) ==
  FoldLeft(LAMBDA a, v :
    IF v = 0 THEN [buf |-> <<>>, sum |-> 0, out |-> Append(a.out, 0)]
    ELSE LET more == Append(a.buf, v)
             buf == IF Len(more) > SmaDays THEN Tail(more) ELSE more
             sum == a.sum + v - (IF Len(more) > SmaDays THEN Head(more) ELSE 0)
         IN [buf |-> buf, sum |-> sum,
             out |-> Append(a.out, IF Len(buf) = SmaDays THEN sum ELSE 0)],
    [buf |-> <<>>, sum |-> 0, out |-> <<>>], vals).out

\* A mutant of FromOf: an epoch starts at the first row of all.
FromOfAll(e) == 1

\* The rows of an epoch: from its halving ...
FromOf(e) == FirstFrom(Start(e))

\* A mutant of UpTo: no epoch ends.
UpToAll(e) == Len(rows)

\* ... to the last before the next, or to the last there is.
UpTo(e) == IF Open(e) THEN Len(rows) ELSE FirstFrom(Start(e + 1)) - 1

\* One row of that scan: the median s there and the running maximum with it.
Fall(a, i, s, max) ==
  IF s = 0 THEN a
  ELSE IF a.at = 0 \/ s * a.top < a.s * max THEN [at |-> i, s |-> s, top |-> max, max |-> max]
  ELSE [a EXCEPT !.max = max]

FallAt(a, i, s) == Fall(a, i, s, High({a.max, s}))

\* The deepest drawdown of the median within the epoch, the first of equals:
\* the row, the median there, and the running maximum it fell from.
Trough(e) ==
  FoldLeft(LAMBDA a, i : FallAt(a, i, Median(i)), [at |-> 0, s |-> 0, top |-> 1, max |-> 0],
           [k \in 1..(UpTo(e) - FromOf(e) + 1) |-> FromOf(e) + k - 1])

NoCycle == [peak |-> 0, bottom |-> 0]

\* The highest close before the low, ...
PeakBefore(bottom, before) ==
  IF before = {} THEN NoCycle
  ELSE [peak |-> First(before, LAMBDA i, j : Price(i) > Price(j)), bottom |-> bottom]

PricedIn(from, to) == {i \in from..to : Priced(i)}
Lowest(S) == First(S, LAMBDA i, j : Price(i) < Price(j))

\* ... and that low: the lowest close near the trough.
CycleAround(from, around) ==
  IF around = {} THEN NoCycle
  ELSE LET bottom == Lowest(around) IN PeakBefore(bottom, PricedIn(from, bottom - 1))

\* findCycles for one epoch: NoCycle when it has had no bear market.
FindCycle(e) ==
  LET cycle(t) ==
        IF t.at = 0 \/ 10 * (t.top - t.s) < MinFall * t.top THEN NoCycle
        ELSE CycleAround(FromOf(e), PricedIn(High({FromOf(e), t.at - SmoothHalf}),
                                             Low({UpTo(e), t.at + SmoothHalf})))
  IN cycle(Trough(e))

FindCycles == [e \in Epochs |-> FindCycle(e)]

\* A route reads the rows and finds their cycles; rows that change leave them.
Read == cycles = <<>> /\ rows # <<>> /\ cycles' = FindCycles /\ UNCHANGED <<rows, day>>

CyclesInit == RowsInit /\ cycles = <<>>
CyclesNext == (RowsNext /\ cycles' = <<>>) \/ Read
Spec == CyclesInit /\ [][CyclesNext]_<<rows, day, cycles>>

Served == cycles # <<>>
Cycle(e) == cycles[e]
HasCycle(e) == Cycle(e) # NoCycle

---------------------------------------------------------------------------
\* Days on which the close stood above every earlier one.
AllTimeHigh(i) == Priced(i) /\ \A j \in 1..(i - 1) : Price(j) < Price(i)

\* A mutant of Panel: offsets are counted in rows.
PanelByRow(low) ==
  LET avg == Sma([i \in DOMAIN rows |-> Price(i)])
      shown == {i \in DOMAIN rows : i - low \in (-Window)..Window}
  IN {[d |-> i - low, price |-> Price(i), sma |-> avg[i], sth |-> rows[i].v,
       ath |-> AllTimeHigh(i)] : i \in shown}

\* buildBottoms: the days around a low, by days since it.
Panel(low) ==
  LET avg == Sma([i \in DOMAIN rows |-> Price(i)])
      since(i) == rows[i].day - rows[low].day
  IN {[d |-> since(i), price |-> Price(i), sma |-> avg[i], sth |-> rows[i].v,
       ath |-> AllTimeHigh(i)] : i \in {j \in DOMAIN rows : since(j) \in (-Window)..Window}}

Unflagged(i) == rows[i].day \notin Flagged

\* A mutant of Rally: flagged closes stay in the running low.
RallyFlagged(e, c) ==
  LET end == IF Open(e) THEN Len(rows) ELSE c.bottom
      shown == SelectSeq([k \in 1..Len(rows) |-> k],
                         LAMBDA k : k >= c.peak /\ k <= end /\ Priced(k))
  IN FoldLeft(LAMBDA a, i :
       LET low == IF a.low = 0 THEN Price(i) ELSE Low({a.low, Price(i)})
           rise == [at |-> i, p |-> Price(i), low |-> low]
       IN [low |-> low, last |-> rise,
           max |-> IF Price(i) * a.max.low > a.max.p * low THEN rise ELSE a.max],
       [low |-> 0, last |-> [at |-> 0, p |-> 1, low |-> 1],
        max |-> [at |-> c.peak, p |-> 1, low |-> 1]], shown)

\* buildRallies for one bear: the running low, the latest rise off it (none on
\* a flagged day) and the largest, each as a close and the low it rose from.
Rally(e, c) ==
  LET end == IF Open(e) THEN Len(rows) ELSE c.bottom
      shown == SelectSeq([k \in 1..Len(rows) |-> k],
                         LAMBDA k : k >= c.peak /\ k <= end /\ Priced(k))
  IN FoldLeft(LAMBDA a, i :
       IF ~Unflagged(i) THEN [a EXCEPT !.last = [at |-> i, p |-> 0, low |-> 0]]
       ELSE LET low == IF a.low = 0 THEN Price(i) ELSE Low({a.low, Price(i)})
                rise == [at |-> i, p |-> Price(i), low |-> low]
            IN [low |-> low, last |-> rise,
                max |-> IF Price(i) * a.max.low > a.max.p * low THEN rise ELSE a.max],
       [low |-> 0, last |-> [at |-> 0, p |-> 1, low |-> 1],
        max |-> [at |-> c.peak, p |-> 1, low |-> 1]], shown)

---------------------------------------------------------------------------
\* One bad print cannot define a cycle (bottoms.js:10-12): when all closes but
\* one lie within minDrawdown of each other, no epoch has a bear market.
\* Needs windows of three closes or more, at the ends of the table too.
OnePrintMakesNoBear ==
  (Len(rows) >= 3 /\ SmoothHalf >= 2 /\ \A i \in DOMAIN rows : Priced(i)) =>
    \A bad \in DOMAIN rows :
      (\A i, j \in DOMAIN rows \ {bad} : 10 * (Price(i) - Price(j)) < MinFall * Price(i))
        => \A e \in Epochs : ~HasCycle(e)

\* Every bear that is found fell: its low is below its peak, which is the
\* highest close of the epoch up to that low.
BearsFall ==
  \A e \in Epochs : LET c == Cycle(e) IN c # NoCycle =>
    /\ Price(c.bottom) < Price(c.peak)
    /\ \A i \in FromOf(e)..c.bottom : Price(i) <= Price(c.peak)
    /\ c.peak < c.bottom /\ rows[c.bottom].day >= Start(e)
    /\ ~Open(e) => rows[c.bottom].day < Start(e + 1)

\* The moving average the fold keeps is the plain one: the sum of the last
\* SmaDays closes where all of them have a price, and nothing elsewhere.
SmaIsTheWindow ==
  LET avg == Sma([i \in DOMAIN rows |-> Price(i)])
      full(i) == i >= SmaDays /\ \A k \in (i - SmaDays + 1)..i : Priced(k)
  IN \A i \in DOMAIN rows :
       avg[i] = IF full(i) THEN FoldSet(LAMBDA k, a : a + Price(k), 0, (i - SmaDays + 1)..i)
                ELSE 0

\* A panel is drawn by calendar days: no two of its points share an offset,
\* day 0 is the low, and a day without a price leaves a gap, never a shift.
PanelsByCalendar ==
  \A e \in Epochs : HasCycle(e) =>
    LET low == Cycle(e).bottom
        panel == Panel(low)
        days == {rows[i].day - rows[low].day : i \in DOMAIN rows}
    IN /\ {x.d : x \in panel} = days \cap ((-Window)..Window)
       /\ Cardinality(panel) = Cardinality({x.d : x \in panel})
       /\ \E x \in panel : x.d = 0 /\ x.price = Price(low)

\* The largest rally of a bear is the largest rise from any close of the bear
\* to a later one, flagged closes apart; no earlier day reached as much.
LargestRally ==
  \A e \in Epochs : HasCycle(e) =>
    LET c == Cycle(e)
        max == Rally(e, c).max
        days == {i \in c.peak..(IF Open(e) THEN Len(rows) ELSE c.bottom) :
                   Priced(i) /\ Unflagged(i)}
    IN /\ \A i, j \in days : i <= j => Price(j) * max.low <= max.p * Price(i)
       /\ \A i, j \in days : (i <= j /\ j < max.at) => Price(j) * max.low < max.p * Price(i)
       /\ max.p > max.low => \E i \in days : i <= max.at /\ Price(i) = max.low /\ Price(max.at) = max.p

=============================================================================
