----------------------------- MODULE RunEvidence -----------------------------
(***************************************************************************)
(* What Execute (src/internal/benchmarkexec/executor.go) makes of a        *)
(* LifecycleResult, and what the artifact writer                           *)
(* (src/internal/artifacts/writer.go) demands of it before it writes.      *)
(*                                                                         *)
(* A lifecycle result is [mode, warmup, measurement, drain, error, stop];  *)
(* a phase of it PhaseResult: [phase, status, requested, concurrency,      *)
(* workers, maxActive, elapsed, completed, arrivals, counts].              *)
(***************************************************************************)
EXTENDS RunSummary

(***************************************************************************)
(* Execute                                                                 *)
(***************************************************************************)

PhaseMetadata(mode, result) ==
  LET tally == Tally(result.completed)
      open  == mode = "open_loop"
  IN  [phase       |-> result.phase,
       status      |-> result.status,
       elapsed     |-> result.elapsed,
       requested   |-> result.requested,
       attempted   |-> Len(result.completed),
       completed   |-> Len(result.completed),
       successful  |-> tally["succeeded"],
       failed      |-> Failures(tally),
       outcomes    |-> tally,
       concurrency |-> IF open THEN 0 ELSE result.concurrency,
       workers     |-> IF open THEN 0 ELSE result.workers,
       maxActive   |-> IF open THEN 0 ELSE result.maxActive,
       arrivals    |-> IF open THEN result.counts ELSE NoCounts]

(* metrics.Calculate, with TokenUsage                                      *)
MetricsOf(observation) == Overlay([usage |-> observation.tokens], Calculate(observation))

LifecycleRequestArtifacts(result) ==
  LET completed == result.warmup.completed \o result.measurement.completed
  IN  [i \in DOMAIN completed |->
         [sequence    |-> completed[i].sequence,
          phase       |-> completed[i].phase,
          outcome     |-> completed[i].outcome,
          observation |-> completed[i].observation,
          metrics     |-> MetricsOf(completed[i].observation)]]

LifecycleArrivals(result) == result.warmup.arrivals \o result.measurement.arrivals

LoadLimited(result) ==
  /\ result.mode = "open_loop"
  /\ ~result.drain.parentCancelled
  /\ result.measurement.counts.clientLimited + result.measurement.counts.schedulerLimited > 0

(* Wrong: failed warmup requests are forgiven                              *)
WarmupForgiven(warmup) == FALSE

WarmupFailed(warmup) == warmup.failed > 0

(* classifyRun                                                             *)
Classification(result, warmup, measurement) ==
  IF result.error # "none"
  THEN [status |-> IF \/ result.error = "parent"
                      \/ result.drain.parentCancelled /\ result.error # "drain"
                   THEN "cancelled" ELSE "failed",
        error |-> TRUE, class |-> "none"]
  ELSE IF LoadLimited(result)
  THEN [status |-> "failed", error |-> TRUE, class |-> "load_delivery_error"]
  ELSE IF \/ WarmupFailed(warmup)
          \/ measurement.failed > 0
          \/ /\ result.mode = "closed_loop"
             /\ \/ warmup.attempted # warmup.requested
                \/ measurement.attempted # measurement.requested
  THEN [status |-> "failed", error |-> TRUE, class |-> "none"]
  ELSE [status |-> "completed", error |-> FALSE, class |-> "none"]

(* RunMetadata of a plan's result                                          *)
RunMetadata(plan, result) ==
  LET warmup      == PhaseMetadata(result.mode, result.warmup)
      measurement == PhaseMetadata(result.mode, result.measurement)
      verdict     == Classification(result, warmup, measurement)
  IN  [warmup      |-> warmup,
       measurement |-> measurement,
       status      |-> verdict.status,
       error       |-> verdict.error,
       class       |-> verdict.class,
       drain       |-> result.drain,
       stop        |-> result.stop,
       load        |-> plan.load,
       workload    |-> plan.workload,
       timing      |-> plan.timing,
       slo         |-> plan.slo,
       limits      |-> plan.limits]

(***************************************************************************)
(* validateRequests                                                        *)
(***************************************************************************)

TokenTimingAgrees(timing, q) ==
  /\ q.observation.requested = (timing = "vllm")
  /\ CountsConsistent(q.observation)
  /\ q.metrics.itl # Unavailable =>
       /\ q.observation.usage # NoUsage
       /\ Len(q.metrics.itl) = q.observation.usage - 1

RequestAcceptable(r, q) ==
  /\ q.sequence \in 1 .. (IF q.phase = "warmup" THEN r.warmup ELSE r.measurement).requested
  /\ TokenTimingAgrees(r.timing, q)
  /\ q.metrics = MetricsOf(q.observation)
  /\ q.outcome \in Outcomes
  /\ (q.outcome = "succeeded") = (q.observation.error = "none")

RequestsAcceptable(r, requests) ==
  /\ \A i \in DOMAIN requests : RequestAcceptable(r, requests[i])
  /\ Distinct(Measured(requests))
  /\ Distinct(InPhase("warmup", requests))

(***************************************************************************)
(* validateMetadata                                                        *)
(***************************************************************************)

PhaseAgrees(p, requests) ==
  /\ p.attempted <= p.requested
  /\ p.attempted = p.completed
  /\ p.completed = Len(requests)
  /\ p.successful + p.failed = p.completed
  /\ p.outcomes = Tally(requests)
  /\ p.outcomes["succeeded"] = p.successful
  /\ Failures(p.outcomes) = p.failed
  /\ p.elapsed >= 0

RunStatuses == {"completed", "failed", "cancelled"}

ClosedLoopPhaseAgrees(p, requests) ==
  /\ PhaseAgrees(p, requests)
  /\ p.concurrency > 0
  /\ \/ /\ p.status = "skipped"
        /\ p.attempted = 0 /\ p.workers = 0 /\ p.maxActive = 0
     \/ /\ p.status \in RunStatuses
        /\ p.workers = Least(p.concurrency, p.requested)
        /\ p.maxActive \in 0 .. p.workers

OnSchedule(load, arrivals) ==
  \A i \in DOMAIN arrivals :
    arrivals[i].scheduled = ArrivalOffset(load.rate, arrivals[i].sequence - 1)

OpenLoopPhaseAgrees(p, load, requests, arrivals) ==
  /\ PhaseAgrees(p, requests)
  /\ p.concurrency = 0 /\ p.workers = 0
  /\ p.arrivals # NoCounts
  /\ p.arrivals.planned = p.requested
  /\ p.arrivals.unprocessed >= 0
  /\ p.phase = "warmup" => p.arrivals.schedulerLimited = 0
  /\ CountsAddUp(p.arrivals, arrivals, Len(requests), load.maxInFlight)
  /\ p.attempted = p.arrivals.started
  /\ \/ /\ p.status = "skipped"
        /\ p.arrivals.processed = 0
        /\ p.arrivals.unprocessed \in {0, p.arrivals.planned}
     \/ /\ p.status \in RunStatuses
        /\ OnSchedule(load, arrivals)
        /\ ArrivalsMatch(p.arrivals, arrivals, requests)

ClosedLoopMetadata(r, requests, arrivals) ==
  /\ arrivals = <<>>
  /\ r.warmup.arrivals = NoCounts /\ r.measurement.arrivals = NoCounts
  /\ r.load.concurrency = r.measurement.concurrency
  /\ r.load.requests = r.measurement.requested
  /\ r.warmup.concurrency = r.measurement.concurrency
  /\ r.measurement.concurrency <= r.limits.max_concurrency
  /\ ClosedLoopPhaseAgrees(r.warmup, InPhase("warmup", requests))
  /\ ClosedLoopPhaseAgrees(r.measurement, Measured(requests))

(* an open-loop run that nobody cancelled stops at the end of its window   *)
OpenLoopMetadata(r, requests, arrivals) ==
  /\ r.load.rate > 0 /\ r.load.rate <= r.limits.max_request_rate
  /\ r.load.maxInFlight > 0 /\ r.load.maxInFlight <= r.limits.max_in_flight_ceiling
  /\ r.load.planned = r.measurement.requested
  /\ r.load.duration > 0
  /\ r.load.planned = PlannedArrivalCount(r.load.rate, r.load.duration)
  /\ ~r.drain.parentCancelled => r.stop = "measurement_duration_elapsed"
  /\ \A p \in {r.warmup, r.measurement} :
       OpenLoopPhaseAgrees(p, r.load, InPhase(p.phase, requests), InPhase(p.phase, arrivals))

WorkloadAcceptable(w, limits) ==
  /\ w.output > 0 /\ w.output <= limits.max_output_tokens_ceiling
  /\ w.mode = "token_length" =>
       /\ w.target > 0 /\ w.target <= limits.max_input_tokens
       /\ w.length > 0
       /\ w.target <= MaxInt - w.output
       /\ w.target + w.output <= w.length

StatusConsistent(r) ==
  /\ r.status = "completed" =>
       /\ ~r.error /\ r.class = "none"
       /\ r.warmup.failed = 0 /\ r.measurement.failed = 0
       /\ ~r.drain.timedOut /\ ~r.drain.parentCancelled
       /\ IF r.load.mode = "closed_loop"
          THEN /\ r.warmup.attempted = r.warmup.requested
               /\ r.measurement.attempted = r.measurement.requested
          ELSE /\ r.measurement.arrivals.clientLimited = 0
               /\ r.measurement.arrivals.schedulerLimited = 0
               /\ r.measurement.arrivals.unprocessed = 0
  /\ r.status # "completed" => r.error
  /\ r.class = "load_delivery_error" =>
       /\ r.load.mode = "open_loop" /\ r.status = "failed"
       /\ r.measurement.arrivals.clientLimited + r.measurement.arrivals.schedulerLimited > 0
       /\ ~r.drain.parentCancelled

MetadataAcceptable(r, requests, arrivals) ==
  /\ r.timing \in {"disabled", "vllm"}
  /\ WorkloadAcceptable(r.workload, r.limits)
  /\ r.measurement.requested \in 1 .. r.limits.max_requests
  /\ r.warmup.requested \in 0 .. r.limits.max_requests
  /\ IF r.load.mode = "open_loop" THEN OpenLoopMetadata(r, requests, arrivals)
     ELSE ClosedLoopMetadata(r, requests, arrivals)
  /\ StatusConsistent(r)

(* WriteWithArrivals gets as far as the file system                        *)
Acceptable(r, requests, arrivals) ==
  /\ RequestsAcceptable(r, requests)
  /\ MetadataAcceptable(r, requests, arrivals)
  /\ Aggregatable(r, requests, arrivals)

(***************************************************************************)
(* EvaluateEvidence (src/internal/calibration/evaluate.go): why a run of a *)
(* calibration was not delivered cleanly, {} when it was                   *)
(***************************************************************************)

NoBudget == -1

(* Wrong: the median of the lag is held against the budget                 *)
MedianExceeds(lag, budget) == lag.percentile[50][1] > budget * lag.percentile[50][2]

LagExceeds(lag, budget) == lag.percentile[95][1] > budget * lag.percentile[95][2]

LoadRefuted(summary, r, budget) ==
  IF r.load.mode = "closed_loop"
  THEN [requests_not_fully_attempted |->
          {r.measurement.attempted, summary.started, summary.successful} # {summary.requested}]
  ELSE LET counts == summary.load.counts
       IN  [planned_arrivals_not_processed |-> counts.processed # counts.planned,
            delivery_ratio_below_one       |-> counts.started # counts.planned,
            client_limited                 |-> counts.clientLimited # 0,
            scheduler_limited              |-> counts.schedulerLimited # 0,
            cancellation_unprocessed       |-> counts.unprocessed # 0,
            lag_unavailable                |-> budget # NoBudget /\ summary.lag.count = 0,
            lag_exceeded                   |-> /\ budget # NoBudget
                                               /\ summary.lag.count > 0
                                               /\ LagExceeds(summary.lag, budget)]

DeliveryReasons(summary, r, budget) ==
  LET refuted == Overlay([run_not_completed        |-> r.status # "completed" \/ ~summary.complete,
                          request_failures_present |-> summary.failed # 0],
                         LoadRefuted(summary, r, budget))
  IN  {reason \in DOMAIN refuted : refuted[reason]}
=============================================================================
