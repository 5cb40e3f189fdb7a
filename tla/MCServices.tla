----------------------------- MODULE MCServices -----------------------------
(***************************************************************************)
(* The bounds of the services for TLC, part by part.                       *)
(***************************************************************************)
EXTENDS Services

MCForHeld ==
  [Worker |-> {"w1", "w2"}, MaxHeight |-> 4, MaxReorgs |-> 1, SessionDrops |-> 0,
   MaxStops |-> 2]
MCForLost ==
  [Worker |-> {"w1", "w2"}, MaxHeight |-> 3, MaxReorgs |-> 0, SessionDrops |-> 2,
   MaxStops |-> 1]
MCForFetch == [Lane |-> {"l1", "l2"}, Blocks |-> 3, MaxRetries |-> 1, MaxFetches |-> 2]
MCForDog ==
  [Threshold |-> 15, CheckEvery |-> 2, CallBudget |-> 6, StageMax |-> 7, Nap |-> 1,
   Probes |-> 3, Batch |-> 2, PassCap |-> 0]
MCForSettling ==
  [Offered |-> {0, 3}, FirstClose |-> 2, MaxDay |-> 3, MaxHeight |-> 2, RevisionWindow |-> 1,
   MayRevise |-> FALSE, MayReopen |-> FALSE, MayLoseAck |-> FALSE, MaxRollbacks |-> 1,
   MaxFaults |-> 1]
MCForRevising ==
  [Offered |-> {2, 3}, FirstClose |-> 2, MaxDay |-> 2, MaxHeight |-> 3, RevisionWindow |-> 1,
   MayRevise |-> TRUE, MayReopen |-> TRUE, MayLoseAck |-> TRUE, MaxRollbacks |-> 1,
   MaxFaults |-> 1]
MCForWatch ==
  [Alert |-> {"a1", "a2"}, Above |-> {"a1"}, Checker |-> {"c1"}, Limit |-> 1, MaxDays |-> 3,
   Nulls |-> FALSE, MaxRewinds |-> 1, MaxFaults |-> 0]
MCForOverlap ==
  [Alert |-> {"a1"}, Above |-> {"a1"}, Checker |-> {"c1", "c2"}, Limit |-> 1, MaxDays |-> 2,
   Nulls |-> TRUE, MaxRewinds |-> 0, MaxFaults |-> 1]
MCForSubscribe ==
  [Address |-> {"r1"}, Readers |-> {}, Campaign |-> {"n1", "n2"}, Tick |-> {"t1"},
   MaxAsks |-> 3, MaxEdits |-> 0, MaxFaults |-> 1, MaxStops |-> 0]
MCForSending ==
  [Address |-> {"r1", "r2"}, Readers |-> {"r1", "r2"}, Campaign |-> {"n1"}, Tick |-> {"t1",
   "t2"}, MaxAsks |-> 1, MaxEdits |-> 2, MaxFaults |-> 1, MaxStops |-> 1]
MCForDispatch ==
  [Address |-> {"r1", "r2"}, Readers |-> {"r1", "r2"}, Campaign |-> {"n1", "n2"},
   Tick |-> {"t1", "t2"}, MaxAsks |-> 0, MaxEdits |-> 1, MaxFaults |-> 1, MaxStops |-> 0]
MCForRevoke ==
  [Root |-> "root", Admin |-> {"x1", "x2"}, Key |-> {"k1", "k2"}, Request |-> {"q1", "q2",
   "q3"}, MaxActs |-> 5, MaxUses |-> 0]
MCForCount ==
  [Root |-> "root", Admin |-> {"x1"}, Key |-> {"k1", "k2"}, Request |-> {"q1"}, MaxActs |-> 4,
   MaxUses |-> 2]
MCForShared ==
  [Request |-> {"r1", "r2"}, Chains |-> <<<<1>>, <<2, 3>>>>, Wanted |-> {<<1, 0, 0>>, <<0, 2,
   0>>}, Rows0 |-> 1, NTx |-> 2, TxPage |-> 2, CacheMax |-> 1, MaxFaults |-> 0, MaxAsks |-> 2]
MCForEnrich ==
  [Request |-> {"r1", "r2"}, Chains |-> <<<<1>>>>, Wanted |-> {<<1, 0, 0>>, <<1, 0, 2>>, <<1,
   0, 4>>}, Rows0 |-> 1, NTx |-> 3, TxPage |-> 2, CacheMax |-> 2, MaxFaults |-> 1,
   MaxAsks |-> 2]
MCForTx ==
  [Chains |-> <<<<1>>, <<1, 2>>, <<1, 3, 4>>>>, TxIn |-> {2, 4}, Synced0 |-> 1,
   TxIndex |-> TRUE, MaxFaults |-> 1, MaxAsks |-> 2]
MCForAddress ==
  [Coin |-> {1, 2, 4}, ListMax |-> 2, Price |-> [h \in 0..5 |-> IF h <= 1 THEN 0 ELSE h % 3],
   MaxHeight |-> 5]
MCForRate ==
  [Ip |-> {"i1", "i2", "i3"}, Limit |-> 2, MaxKeys |-> 3, MaxWindows |-> 3, MaxHits |-> 3]
MCForLoad ==
  [Views |-> {"block", "tx", "home"}, Ids |-> {1, 2}, TxCount |-> 5, TxPage |-> 2,
   PendingPolls |-> 1, MaxNav |-> 4, MaxSearches |-> 0]
MCForSearch ==
  [Views |-> {"block", "address", "home"}, Ids |-> {1, 2}, TxCount |-> 5, TxPage |-> 2,
   PendingPolls |-> 1, MaxNav |-> 3, MaxSearches |-> 3]
=============================================================================
