----------------------------- MODULE RateWindow -----------------------------
(***************************************************************************)
(* publicRateLimit (server/src/explorer.js): a counter per address and     *)
(* minute, with the counters of past minutes dropped when there are many.  *)
(***************************************************************************)
EXTENDS Integers, FiniteSets

CONSTANTS
  Ip,         \* addresses
  Limit,      \* PUBLIC_RATE_LIMIT_PER_MIN = 60
  MaxKeys,    \* counters kept before a sweep: 50 000
  MaxWindows, \* bound: minutes
  MaxHits     \* bound: requests of an address in a minute

\* What the constants have to satisfy.
RateAssumption == {Limit, MaxKeys, MaxHits} \subseteq Nat /\ MaxWindows \in Nat \ {0}

VARIABLES
  win,        \* the minute
  hits,       \* the Map: <<address, minute>> -> requests
  asked,      \* history: requests of each address in this minute
  passed      \* history: those that were let through

vars == <<win, hits, asked, passed>>
Counters == DOMAIN hits

TypeOK ==
  /\ win \in 1..MaxWindows /\ Counters \subseteq Ip \X (1..win)
  /\ \A k \in Counters : hits[k] \in 1..MaxHits
  /\ asked \in [Ip -> 0..MaxHits] /\ passed \in [Ip -> 0..(IF Limit > 0 THEN Limit ELSE MaxHits)]

Init ==
  /\ win = 1 /\ hits = <<>>
  /\ asked = [i \in Ip |-> 0] /\ passed = [i \in Ip |-> 0]

\* A mutant of Stale: the sweep empties the map.
StaleAll(k) == TRUE

\* A counter of another minute.
Stale(k) == k[2] # win

Request(ip) ==
  LET k == <<ip, win>>
      n == IF k \in Counters THEN hits[k] + 1 ELSE 1
      all == Counters \cup {k}
      keep == IF Cardinality(all) > MaxKeys THEN {x \in all : ~Stale(x)} ELSE all
  IN /\ asked[ip] < MaxHits
     /\ hits' = [x \in keep |-> IF x = k THEN n ELSE hits[x]]
     /\ asked' = [asked EXCEPT ![ip] = @ + 1]
     /\ passed' = IF Limit > 0 /\ n > Limit THEN passed ELSE [passed EXCEPT ![ip] = @ + 1]
     /\ UNCHANGED win

NextMinute ==
  /\ win < MaxWindows /\ win' = win + 1
  /\ asked' = [i \in Ip |-> 0] /\ passed' = [i \in Ip |-> 0]
  /\ UNCHANGED hits

Next == NextMinute \/ \E ip \in Ip : Request(ip)

Spec == Init /\ [][Next]_vars

---------------------------------------------------------------------------
(* Properties. *)

\* Sweeps in the middle of a minute neither give an address more than its limit
\* nor take any of it away (423-437); a limit of 0 lets everything through.
LimitIsExact == \A ip \in Ip :
  passed[ip] = IF Limit > 0 /\ asked[ip] > Limit THEN Limit ELSE asked[ip]
=============================================================================
