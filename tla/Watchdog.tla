------------------------------- MODULE Watchdog ------------------------------
(***************************************************************************)
(* The stall watchdog of the sync worker (createStallWatchdog and the      *)
(* stages of main in server/src/sync.js) in discrete time.  A call to the  *)
(* node answers or gives up within its retry budget; a stage that works on *)
(* the database or on the price provider may hang for good.                *)
(*                                                                         *)
(* The lanes of fetchBlocks are one lane here: the longest silence of      *)
(* several is that of one.                                                 *)
(***************************************************************************)
EXTENDS Integers

CONSTANTS
  Threshold,   \* config.syncStallExitMs
  CheckEvery,  \* checkEveryMs
  CallBudget,  \* rpcMaxRetries + 1 timeouts of rpcTimeoutMs, and the pauses between
  StageMax,    \* the longest a healthy database or price stage takes
  Nap,         \* the pauses of the loop: after an error, and at the tip
  Probes,      \* config.reorgScanDepth
  Batch,       \* config.syncBatchBlocks
  PassCap      \* bound: how long a pass is timed; 0: not at all

\* What the constants have to satisfy.
WatchdogAssumption ==
  /\ Threshold \in Nat \ {0} /\ CheckEvery \in Nat \ {0}
  /\ {CallBudget, StageMax, Nap, Probes, Batch} \subseteq Nat \ {0} /\ PassCap \in Nat

\* A healthy worker is never silent for longer than the threshold.
MarginAssumption ==
  /\ 2 * CallBudget <= Threshold
  /\ Nap + StageMax + CallBudget <= Threshold

VARIABLES
  stage,      \* what is in flight
  elapsed,    \* for how long
  left,       \* probes or blocks this stage has left
  idle,       \* Date.now() - last of the watchdog
  due,        \* since the timer last fired
  orphans,    \* blocks that lanes of a failed fetch may still land
  silence,    \* history: since the node answered or the database committed
  strained,   \* history: since the last touch, a call gave up, a stage was slow or failed
  sincePass   \* history: since a pass of the loop succeeded

vars == <<stage, elapsed, left, idle, due, orphans, silence, strained, sincePass>>

Calls == {"probe", "info", "hash", "block"}
Work == {"prices", "db"}
Pauses == {"nap", "poll"}
AtMost(n, bound) == IF n > bound THEN bound ELSE n

TypeOK ==
  /\ stage \in Calls \cup Work \cup Pauses \cup {"exited"}
  /\ elapsed \in 0..AtMost(Threshold, CallBudget + StageMax + Nap)
  /\ left \in 0..Probes + Batch /\ orphans \in 0..Batch
  /\ idle \in 0..Threshold + CheckEvery /\ due \in 0..CheckEvery
  /\ silence \in Nat /\ strained \in BOOLEAN /\ sincePass \in 0..PassCap

\* The watchdog is armed after boot.
Init ==
  /\ stage = "probe" /\ elapsed = 0 /\ left = Probes
  /\ idle = 0 /\ due = 0 /\ orphans = 0
  /\ silence = 0 /\ strained = FALSE /\ sincePass = 0

Enter(next, n) == stage' = next /\ elapsed' = 0 /\ left' = n

\* A stage ends with progress the watchdog is told of ...
Touch == idle' = 0 /\ silence' = 0 /\ strained' = FALSE

\* ... or with an answer that only the history sees.
Untold == silence' = 0 /\ UNCHANGED <<idle, strained>>

GivesUp == strained' = TRUE /\ UNCHANGED <<idle, silence>>

Quiet == UNCHANGED <<due, orphans, sincePass>>

---------------------------------------------------------------------------
(* Time. *)

Limit == IF stage \in Calls THEN CallBudget ELSE Nap

Tick ==
  /\ stage # "exited" /\ due < CheckEvery
  /\ stage \notin Work => elapsed < Limit
  /\ elapsed' = AtMost(elapsed + 1, IF stage \in Work THEN StageMax + 1 ELSE Limit)
  /\ idle' = idle + 1 /\ silence' = silence + 1 /\ due' = due + 1
  /\ strained' = (strained \/ (stage \in Work /\ elapsed >= StageMax))
  /\ sincePass' = AtMost(sincePass + 1, PassCap)
  /\ UNCHANGED <<stage, left, orphans>>

\* A mutant of Stalled: the threshold is met by the length of one stage.
StalledStage == elapsed > Threshold

Stalled == idle > Threshold

\* The interval timer of the watchdog; onStall exits.
Check ==
  /\ stage # "exited" /\ due = CheckEvery /\ due' = 0
  /\ stage' = IF Stalled THEN "exited" ELSE stage
  /\ UNCHANGED <<elapsed, left, idle, orphans, silence, strained, sincePass>>

\* The platform starts a fresh container.
Restart ==
  /\ stage = "exited"
  /\ Enter("probe", Probes) /\ Touch /\ due' = 0 /\ orphans' = 0 /\ UNCHANGED sincePass

---------------------------------------------------------------------------
(* The stages of a pass. *)

StartPass ==
  /\ stage \in Pauses /\ elapsed = Nap
  /\ \/ Enter("probe", Probes)
     \/ Enter("prices", 0)
  /\ UNCHANGED <<idle, silence, strained>> /\ Quiet

\* The price refresh tells the watchdog nothing.
PricesEnd ==
  /\ stage = "prices"
  /\ Enter("probe", Probes)
  /\ UNCHANGED <<idle, silence, strained>> /\ Quiet

\* A probe agrees or finds a reorganization; either ends the scan.
ProbeAnswers == stage = "probe" /\ Touch /\ Enter("info", 0) /\ Quiet

\* A mutant of Unanswered: a probe that failed counts as progress.
UnansweredTouch == idle' = 0 /\ strained' = FALSE /\ UNCHANGED silence

Unanswered == GivesUp

\* A probe that failed is skipped, down to the last one.
ProbeFails ==
  /\ stage = "probe" /\ Unanswered
  /\ IF left > 1 THEN Enter("probe", left - 1) ELSE Enter("info", 0)
  /\ Quiet

InfoAnswers ==
  /\ stage = "info" /\ Touch
  /\ \/ Enter("hash", Batch) /\ UNCHANGED sincePass
     \/ Enter("poll", 0) /\ sincePass' = 0
  /\ UNCHANGED <<due, orphans>>

HashAnswers == stage = "hash" /\ Untold /\ Enter("block", left) /\ Quiet

\* A mutant of Landed: only the whole batch counts as progress.
LandedUntold == Untold

\* onProgress of fetchBlocks.
Landed == Touch

BlockLands ==
  /\ stage = "block" /\ Landed
  /\ IF left > 1 THEN Enter("hash", left - 1) ELSE Enter("db", 0)
  /\ Quiet

\* A call gives up and the pass with it; the other lanes go on with the batch.
PassFails ==
  /\ stage \in {"info", "hash", "block"} /\ GivesUp
  /\ orphans' = IF stage = "info" THEN orphans ELSE left
  /\ Enter("nap", 0) /\ UNCHANGED <<due, sincePass>>

OrphanLands ==
  /\ stage # "exited" /\ orphans > 0 /\ orphans' = orphans - 1
  /\ Touch /\ UNCHANGED <<stage, elapsed, left, due, sincePass>>

\* A flush, a day's snapshot or the pruning is committed, and the next one
\* follows, or the next pass.
Commits ==
  /\ stage = "db" /\ Touch
  /\ \/ Enter("db", 0) /\ UNCHANGED sincePass
     \/ Enter("probe", Probes) /\ sincePass' = 0
     \/ Enter("prices", 0) /\ sincePass' = 0
  /\ UNCHANGED <<due, orphans>>

\* A database stage or the price refresh throws; a refresh is due again in the
\* next pass, before the node is asked.
WorkFails ==
  /\ stage \in Work /\ GivesUp
  /\ Enter("nap", 0) /\ Quiet

---------------------------------------------------------------------------
Next ==
  \/ Tick \/ Check \/ Restart
  \/ StartPass \/ PricesEnd \/ ProbeAnswers \/ ProbeFails \/ InfoAnswers \/ HashAnswers
  \/ BlockLands \/ PassFails \/ OrphanLands \/ Commits \/ WorkFails

Spec == Init /\ [][Next]_vars

---------------------------------------------------------------------------
(* Properties *)

\* A worker whose calls all answer within their retry budgets, and whose
\* database and price stages neither fail nor are slow, is never restarted:
\* each stretch between two touches fits into the threshold.
NoFalseExit == stage = "exited" => strained

\* A worker to which the node answers nothing and that commits nothing exits
\* within the threshold and one check, in whatever stage it hangs.
SilenceEndsInExit == silence <= Threshold + CheckEvery

\* The watchdog stops the workers it should, and no others.
ExitsExactly == NoFalseExit /\ SilenceEndsInExit
=============================================================================
