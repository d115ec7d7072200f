-------------------------------- MODULE Shards --------------------------------
(***************************************************************************)
(* A run that is split over worker processes (engine/sharded.ts): the      *)
(* parent writes a config for each worker and forks this program with it;  *)
(* a worker runs its share of the bots and sends its metrics; the parent   *)
(* merges them (engine/shard.ts).                                          *)
(*                                                                         *)
(* What a worker measures is kept as the samples themselves, so that the   *)
(* merged figures can be compared with those of all samples.  The unit of  *)
(* Times is so small that means are whole numbers (WholeMeans).            *)
(***************************************************************************)
EXTENDS Integers, Sequences, FiniteSets, SequencesExt, FiniteSetsExt

CONSTANTS
  Times,       \* what a bot may need to spawn
  TimePackets  \* the time packets a worker may see: sequences of [age, at]

\* minecraft-protocol: worldAge is a 64-bit integer.  Time stamps are in ms.
ASSUME MeasuresAssumption ==
  /\ Times \subseteq Nat
  /\ \A packets \in TimePackets : packets \in Seq([age : Int, at : Int])

\* config/schema.ts: there is a bot and a worker.  A bot without reconnect has no
\* retries.
Plans == [count : Nat \ {0}, shards : Nat \ {0}, retries : Nat]

\* What a bot may be launched, the first time included (Engine: RetryBudget).
PerBot(p) == p.retries + 1

\* The mean of as many times as a worker may measure is a whole number.
WholeMeans(p) == \A t \in Times, n \in 1..(PerBot(p) * p.count) : t % n = 0

VARIABLES
  plan,      \* config.ramp.count, config.shards and config.reconnect
  parent,    \* where runSharded() stands
  dir,       \* whether the directory of the configs exists
  budgets,   \* the bots of each worker
  worker,    \* where each worker process stands
  measured,  \* what a worker measured: the launches it has tried, the samples in
             \* order, and its time packets
  inbox,     \* workers whose message is under way
  got,       \* workers whose message the parent has taken
  verdict    \* the promise of each runWorker()

shardVars == <<plan, parent, dir, budgets, worker, measured, inbox, got, verdict>>

\* lingering: a worker that has sent its message, and whose process a client keeps.
\* crashed: one that ended by itself without sending.  stranded: one that found its
\* config gone.
Workers == {"forked", "running", "lingering", "sent", "done", "crashed", "stranded"}
LeastOf(a, b) == IF a < b THEN a ELSE b
MostOf(a, b) == IF a > b THEN a ELSE b
Total(s) == FoldLeft(LAMBDA a, b : a + b, 0, s)

-----------------------------------------------------------------------------
(* metrics/histogram.ts, metrics/tps.ts                                    *)

NoSummary == [count |-> 0, min |-> 0, max |-> 0, mean |-> 0, p50 |-> 0, p95 |-> 0]

\* Nearest rank: the p-th percentile of samples that are not empty.
Quantile(samples, p) ==
  LET rank == MostOf(1, (p * Len(samples) + 99) \div 100)
      upto(v) == Cardinality({i \in DOMAIN samples : samples[i] <= v})
  IN Min({v \in ToSet(samples) : upto(v) >= rank})

Summary(samples) ==
  IF samples = <<>> THEN NoSummary
  ELSE [count |-> Len(samples), min |-> Min(ToSet(samples)), max |-> Max(ToSet(samples)),
        mean |-> Total(samples) \div Len(samples),
        p50 |-> Quantile(samples, 50), p95 |-> Quantile(samples, 95)]

\* TpsEstimator.record(), in hundredths: the ticks since the last packet over the
\* time since then, at most 20 a second, smoothed.  A packet that is too early or
\* does not advance yields no rate; it is the last packet all the same.
TpsRecord(e, packet) ==
  LET ticks == packet.age - e.last.age
      ms == packet.at - e.last.at
      instant == LeastOf(2000, (ticks * 100000) \div ms)
      counts == e.seen /\ ticks > 0 /\ ms >= 100
  IN [seen |-> TRUE, last |-> packet,
      primed |-> e.primed \/ counts,
      ewma |-> IF ~counts THEN e.ewma
               ELSE IF e.primed THEN (3 * instant + 7 * e.ewma) \div 10 ELSE instant]

Tps(packets) ==
  FoldLeft(TpsRecord, [seen |-> FALSE, last |-> [age |-> 0, at |-> 0], primed |-> FALSE,
                       ewma |-> 2000], packets).ewma

-----------------------------------------------------------------------------
(* engine/shard.ts                                                         *)

SplitBudget(total, shards) ==
  LET n == MostOf(1, LeastOf(shards, total))
  IN [i \in 1..n |-> total \div n + IF i <= total % n THEN 1 ELSE 0]

SumOf(rows, field) == FoldLeft(LAMBDA a, r : a + r[field], 0, rows)

Weighted(sums, field) ==
  LET count == SumOf(sums, "count")
  IN IF count = 0 THEN 0
     ELSE FoldLeft(LAMBDA a, s : a + s[field] * s.count, 0, sums) \div count

\* Mutant of MergeSummary: shards without a sample are merged like the others.
MergeSummaryAll(sums) ==
  [count |-> SumOf(sums, "count"),
   min   |-> Min({sums[i].min : i \in DOMAIN sums}),
   max   |-> Max({sums[i].max : i \in DOMAIN sums}),
   mean  |-> Weighted(sums, "mean"),
   p50   |-> Weighted(sums, "p50"),
   p95   |-> Weighted(sums, "p95")]

Present(sums) == FoldLeft(LAMBDA out, s : IF s.count > 0 THEN Append(out, s) ELSE out, <<>>, sums)

MergeSummary(sums) ==
  LET present == Present(sums)
  IN IF present = <<>> THEN NoSummary
     ELSE [count |-> SumOf(present, "count"),
           min   |-> Min({present[i].min : i \in DOMAIN present}),
           max   |-> Max({present[i].max : i \in DOMAIN present}),
           mean  |-> Weighted(present, "mean"),
           p50   |-> Weighted(present, "p50"),
           p95   |-> Weighted(present, "p95")]

\* Of the counters that are summed alike, attempted and spawned are kept.  The
\* success rate is in percent.
MergeSnapshots(snaps) ==
  LET attempted == SumOf(snaps, "attempted")
      spawned == SumOf(snaps, "spawned")
  IN [attempted |-> attempted,
      spawned   |-> spawned,
      rate      |-> IF attempted = 0 THEN 0 ELSE (100 * spawned) \div attempted,
      tps       |-> SumOf(snaps, "tps") \div Len(snaps),
      spawnMs   |-> MergeSummary([i \in DOMAIN snaps |-> snaps[i].spawnMs])]

\* MetricsCollector.snapshot() of worker i: a launch, which track() has counted, adds
\* a sample when its bot spawns.
WorkerSnapshot(i) ==
  [attempted |-> measured[i].attempts, spawned |-> Len(measured[i].samples),
   tps |-> Tps(measured[i].packets), spawnMs |-> Summary(measured[i].samples)]

\* What runSharded() returns once every worker has handed in its snapshot.
merged == MergeSnapshots([i \in DOMAIN worker |-> WorkerSnapshot(i)])

-----------------------------------------------------------------------------
(* engine/sharded.ts                                                       *)

ShardInit(plans) ==
  /\ plan \in plans
  /\ parent = "idle"
  /\ dir = FALSE
  /\ budgets = <<>> /\ worker = <<>> /\ measured = <<>> /\ verdict = <<>>
  /\ inbox = {} /\ got = {}

\* Mutant of RunSharded: `return Promise.all(...)` without await, so that
\* `finally` removes the directory at once.
RunShardedNoAwait ==
  LET split == SplitBudget(plan.count, plan.shards)
      each(x) == [i \in DOMAIN split |-> x]
  IN /\ parent = "idle"
     /\ parent' = "waiting"
     /\ dir' = FALSE
     /\ budgets' = split
     /\ worker' = each("forked")
     /\ measured' = each([attempts |-> 0, samples |-> <<>>, packets |-> <<>>])
     /\ verdict' = each("pending")
     /\ UNCHANGED <<plan, inbox, got>>

\* runSharded(): every config is written and every worker forked at once.
RunSharded ==
  LET split == SplitBudget(plan.count, plan.shards)
      each(x) == [i \in DOMAIN split |-> x]
  IN /\ parent = "idle"
     /\ parent' = "waiting"
     /\ dir' = TRUE
     /\ budgets' = split
     /\ worker' = each("forked")
     /\ measured' = each([attempts |-> 0, samples |-> <<>>, packets |-> <<>>])
     /\ verdict' = each("pending")
     /\ UNCHANGED <<plan, inbox, got>>

\* The worker process (cli.ts, shard-worker mode) reads its config ...
WorkerStarts(i) ==
  /\ worker[i] = "forked"
  /\ worker' = [worker EXCEPT ![i] = IF dir THEN "running" ELSE "stranded"]
  /\ UNCHANGED <<plan, parent, dir, budgets, measured, inbox, got, verdict>>

\* ... runs its bots and sends what it measured.  The run may be over before every
\* bot was launched; a bot that comes back is launched, and may spawn, once more
\* (a bot without a free proxy is a launch that was tried).  The process ends when
\* the message is written, but not while a client that had no socket to close when
\* the run ended goes on connecting.  Without a parent there is no channel any more.
WorkerSends(i) ==
  /\ worker[i] = "running"
  /\ \E attempts \in 0..(PerBot(plan) * budgets[i]), packets \in TimePackets :
       \E n \in 0..attempts : \E samples \in [1..n -> Times] :
         measured' = [measured EXCEPT ![i] = [attempts |-> attempts, samples |-> samples,
                                              packets |-> packets]]
  /\ \E left \in {"sent", "lingering"} : worker' = [worker EXCEPT ![i] = left]
  /\ inbox' = IF parent = "waiting" THEN inbox \cup {i} ELSE inbox
  /\ UNCHANGED <<plan, parent, dir, budgets, got, verdict>>

\* That client ends, if it ever does: its proxy, the server or the network decide.
WorkerLetsGo(i) ==
  /\ worker[i] = "lingering"
  /\ worker' = [worker EXCEPT ![i] = "sent"]
  /\ UNCHANGED <<plan, parent, dir, budgets, measured, inbox, got, verdict>>

\* Its process ends before it has sent, or could not be started.
WorkerCrashes(i) ==
  /\ worker[i] \in {"forked", "running"}
  /\ worker' = [worker EXCEPT ![i] = "crashed"]
  /\ UNCHANGED <<plan, parent, dir, budgets, measured, inbox, got, verdict>>

WorkerMessage(i) ==
  /\ parent = "waiting"
  /\ i \in inbox
  /\ inbox' = inbox \ {i}
  /\ got' = got \cup {i}
  /\ UNCHANGED <<plan, parent, dir, budgets, worker, measured, verdict>>

\* Node delivers a message that was sent before the exit of the process first.
ExitAfterMessage(i) == i \notin inbox

\* Mutant of WorkerExits: an exit without a snapshot does not reject.
WorkerExitsSilently(i) ==
  /\ parent = "waiting"
  /\ worker[i] = "sent"
  /\ i \in got
  /\ worker' = [worker EXCEPT ![i] = "done"]
  /\ verdict' = [verdict EXCEPT ![i] = "resolved"]
  /\ IF \A j \in DOMAIN verdict : verdict'[j] = "resolved"
       THEN /\ parent' = "merged"
            /\ dir' = FALSE
       ELSE UNCHANGED <<parent, dir>>
  /\ UNCHANGED <<plan, budgets, measured, inbox, got>>

\* The promise of runWorker() settles with the `exit` (or `error`) of the child;
\* Promise.all() with the first rejection or the last snapshot, then the
\* directory is removed.
WorkerExits(i) ==
  /\ parent = "waiting"
  /\ worker[i] \in {"sent", "crashed", "stranded"}
  /\ verdict[i] = "pending"
  /\ ExitAfterMessage(i)
  /\ worker' = [worker EXCEPT ![i] = IF @ = "sent" THEN "done" ELSE @]
  /\ verdict' = [verdict EXCEPT ![i] = IF i \in got THEN "resolved" ELSE "rejected"]
  /\ \/ /\ verdict'[i] = "rejected"
        /\ parent' = "failed"
        /\ dir' = FALSE
     \/ /\ \A j \in DOMAIN verdict : verdict'[j] = "resolved"
        /\ parent' = "merged"
        /\ dir' = FALSE
     \/ /\ verdict'[i] = "resolved"
        /\ \E j \in DOMAIN verdict : verdict'[j] = "pending"
        /\ UNCHANGED <<parent, dir>>
  /\ UNCHANGED <<plan, budgets, measured, inbox, got>>

\* Ctrl+C reaches every process of the terminal: the parent has no handler and
\* dies, a worker shuts its bots down as at the end of a run.
ShardInterrupt ==
  /\ parent = "waiting"
  /\ parent' = "killed"
  /\ inbox' = {}
  /\ UNCHANGED <<plan, dir, budgets, worker, measured, got, verdict>>

\* What a worker and the delivery of its message and of its exit come to.
WorkerStep(i) == WorkerStarts(i) \/ WorkerSends(i) \/ WorkerMessage(i) \/ WorkerExits(i)

ShardStep ==
  \/ \E i \in DOMAIN worker : WorkerStep(i) \/ WorkerLetsGo(i) \/ WorkerCrashes(i)
  \/ ShardInterrupt

-----------------------------------------------------------------------------
ShardTypeOK ==
  /\ parent \in {"idle", "waiting", "merged", "failed", "killed"}
  /\ dir \in BOOLEAN
  /\ worker \in [DOMAIN budgets -> Workers]
  /\ verdict \in [DOMAIN budgets -> {"pending", "resolved", "rejected"}]
  /\ inbox \subseteq DOMAIN budgets /\ got \subseteq DOMAIN budgets

\* A worker is without a config only when another one had failed before; the
\* figures of the run are made when every worker has handed in its own; the
\* directory of the configs is gone by then, and stays while one may be read.
ShardsHandIn ==
  /\ (\E i \in DOMAIN worker : worker[i] = "stranded") =>
       \E j \in DOMAIN worker : worker[j] = "crashed"
  /\ parent = "merged" => got = DOMAIN worker /\ \A i \in got : worker[i] = "done"
  /\ dir <=> parent \in {"waiting", "killed"}

\* runSharded(): the run is as large as it was asked for, no worker is idle and
\* none has more than one bot more than another; and what the workers hand in
\* makes the figures of the run (ShardsHandIn).
ShardsAddUp ==
  /\ parent # "idle" =>
       /\ Total(budgets) = plan.count /\ Len(budgets) <= MostOf(1, plan.shards)
       /\ \A i, j \in DOMAIN budgets : budgets[i] >= 1 /\ budgets[i] <= budgets[j] + 1
  /\ ShardsHandIn

\* mergeSnapshots(): the merged counts, extremes and mean are those of all samples
\* of all workers, also when a worker has none; the estimated percentiles are ordered
\* and within the extremes, the rate of the server is between those the workers saw;
\* and although reconnects count again, no more bots have spawned than were launched,
\* nor were more launched than the run as a whole may launch.
MergeIsExact ==
  parent = "merged" =>
    LET all == Summary(FoldLeft(LAMBDA sofar, m : sofar \o m.samples, <<>>, measured))
        m == merged.spawnMs
    IN /\ \A field \in {"count", "min", "max", "mean"} : m[field] = all[field]
       /\ m.min <= m.p50 /\ m.p50 <= m.p95 /\ m.p95 <= m.max
       /\ merged.spawned = all.count /\ merged.spawned <= merged.attempted
       /\ merged.attempted <= PerBot(plan) * plan.count /\ merged.rate <= 100
       /\ \E i, j \in DOMAIN measured :
            /\ Tps(measured[i].packets) <= merged.tps
            /\ merged.tps <= Tps(measured[j].packets)
=============================================================================
