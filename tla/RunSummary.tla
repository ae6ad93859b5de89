------------------------------ MODULE RunSummary ------------------------------
(***************************************************************************)
(* The summary of a run (src/internal/aggregate/calculate.go and           *)
(* distribution.go, CalculateSummary in src/internal/artifacts/summary.go) *)
(* as functions of                                                         *)
(*   r         RunMetadata: load, measurement, drain, slo, ...; a phase is *)
(*             PhaseMetadata, its arrivals NoCounts in closed loop         *)
(*   requests  [sequence, phase, outcome, metrics]: the metrics of         *)
(*             RequestMetrics, with usage [input, output, total], the      *)
(*             server's TokenUsage, or NoTokens                            *)
(*   arrivals  [sequence, phase, disposition, lag]                         *)
(* A request's ID is a function of its phase and sequence.  Means are left *)
(* out, ratios and rates are <<numerator, denominator>>.                   *)
(***************************************************************************)
EXTENDS Admission, RequestMetrics, Collections

NoCounts == <<>>
NoTokens == <<>>

Outcomes == {"succeeded", "request_error", "request_timeout", "parent_cancelled",
             "drain_timeout"}

InPhase(phase, records) == Selected(LAMBDA x : x.phase = phase, records)
Measured(records)       == InPhase("measured", records)
Successful(requests)    == Selected(LAMBDA q : q.outcome = "succeeded", Measured(requests))

Tally(requests) == [o \in Outcomes |-> Number(LAMBDA q : q.outcome = o, requests)]

Failures(tally) == tally["request_error"] + tally["request_timeout"]
                   + tally["parent_cancelled"] + tally["drain_timeout"]

Distinct(records) ==
  \A i, j \in DOMAIN records : records[i].sequence = records[j].sequence => i = j

(***************************************************************************)
(* What Calculate refuses                                                  *)
(***************************************************************************)

WithinRequested(r, q) == q.sequence \in 1 .. r.measurement.requested

(* validateAndSelectMeasured                                               *)
RequestsAgree(r, requests) ==
  LET measured == Measured(requests)
  IN  /\ r.measurement.attempted = r.measurement.completed
      /\ \A k \in DOMAIN r.slo : r.slo[k] > 0
      /\ \A i \in DOMAIN requests : requests[i].phase \in {"warmup", "measured"}
      /\ \A i \in DOMAIN measured :
           WithinRequested(r, measured[i]) /\ measured[i].outcome \in Outcomes
      /\ Distinct(measured)
      /\ Len(measured) = r.measurement.completed
      /\ Tally(measured) = r.measurement.outcomes

ClosedLoadAgrees(r, arrivals) ==
  /\ r.measurement.arrivals = NoCounts
  /\ Measured(arrivals) = <<>>
  /\ r.load.concurrency > 0
  /\ r.load.requests = r.measurement.requested
  /\ r.load.concurrency = r.measurement.concurrency
  /\ r.measurement.maxActive \in 0 .. r.measurement.workers

(* the counts of a phase's arrivals add up                                 *)
CountsAddUp(counts, arrivals, started, limit) ==
  /\ counts.processed = Len(arrivals)
  /\ counts.processed = counts.started + counts.clientLimited + counts.schedulerLimited
  /\ counts.planned = counts.processed + counts.unprocessed
  /\ counts.started = started
  /\ counts.maxInFlight >= 0
  /\ counts.maxInFlight <= limit
  /\ counts.maxInFlight <= counts.started

(* a started arrival has a request and a lag, no other has                 *)
RequestMatches(arrival, requests) ==
  (arrival.disposition = "started") =
    (\E i \in DOMAIN requests : requests[i].sequence = arrival.sequence)

(* the records of a phase against its counts                               *)
ArrivalsMatch(counts, arrivals, requests) ==
  /\ \A i \in DOMAIN arrivals :
       /\ arrivals[i].sequence \in 1 .. counts.planned
       /\ arrivals[i].disposition \in {"started", "client_limited", "scheduler_limited"}
       /\ RequestMatches(arrivals[i], requests)
       /\ arrivals[i].disposition = "started" => arrivals[i].lag >= 0
       /\ arrivals[i].disposition # "started" => arrivals[i].lag = NoTime
  /\ Distinct(arrivals)
  /\ Number(LAMBDA a : a.disposition = "started", arrivals) = counts.started
  /\ Number(LAMBDA a : a.disposition = "client_limited", arrivals) = counts.clientLimited
  /\ Number(LAMBDA a : a.disposition = "scheduler_limited", arrivals) = counts.schedulerLimited

OpenLoadAgrees(r, requests, arrivals) ==
  LET counts == r.measurement.arrivals
  IN  /\ counts # NoCounts
      /\ r.load.planned = r.measurement.requested
      /\ r.load.planned = counts.planned
      /\ r.load.planned = PlannedArrivalCount(r.load.rate, r.load.duration)
      /\ CountsAddUp(counts, Measured(arrivals), Len(Measured(requests)), r.load.maxInFlight)
      /\ ArrivalsMatch(counts, Measured(arrivals), Measured(requests))

(* Calculate returns no error                                              *)
Aggregatable(r, requests, arrivals) ==
  /\ RequestsAgree(r, requests)
  /\ IF r.load.mode = "open_loop" THEN OpenLoadAgrees(r, requests, arrivals)
     ELSE ClosedLoadAgrees(r, arrivals)

(***************************************************************************)
(* Distributions                                                           *)
(***************************************************************************)

Below(x, y) == x[1] * y[2] < y[1] * x[2]

Percentiles == {50, 90, 95, 99}

(* Wrong: the rank is one more than the whole part of the product          *)
RankTruncated(percentile, count) == Least((percentile * count) \div 100 + 1, count)

(* the ceiling of the float product, which is the ceiling of the exact one *)
(* as long as there are fewer than 2^46 samples                            *)
NearestRank(percentile, count) == Greatest(-((-percentile * count) \div 100), 1)

(* x behind those that are not above it                                    *)
Inserted(ordered, x) ==
  InsertAt(ordered, Number(LAMBDA y : ~Below(x, y), ordered) + 1, x)

Sorted(samples) == FoldLeft(Inserted, <<>>, samples)

Distribution(samples, unavailable) ==
  LET ordered == Sorted(samples)
      count   == Len(samples)
  IN  IF count = 0 THEN [count |-> 0, unavailable |-> unavailable]
      ELSE [count       |-> count,
            unavailable |-> unavailable,
            min         |-> ordered[1],
            percentile  |-> [p \in Percentiles |-> ordered[NearestRank(p, count)]],
            max         |-> ordered[count]]

Scalars == {"headers", "ttfb", "ttft", "ttlt", "e2e", "tpot", "output", "decode"}

ScalarDistribution(scalar, successful) ==
  LET values  == [i \in DOMAIN successful |-> successful[i].metrics[scalar]]
      samples == Selected(LAMBDA v : v # Unavailable, values)
  IN  Distribution(samples, Len(successful) - Len(samples))

Fractions(numbers) == [i \in DOMAIN numbers |-> <<numbers[i], 1>>]
MeanOf(gaps)       == <<Total(gaps), Len(gaps)>>
Joined(sequences)  == FoldLeft(\o, <<>>, sequences)

(* of "icl" or "itl": the means of the requests, and all gaps together     *)
IntervalSummary(kind, successful) ==
  LET gaps         == [i \in DOMAIN successful |-> successful[i].metrics[kind]]
      contributing == Selected(LAMBDA g : g # Unavailable, gaps)
  IN  [means     |-> Distribution([i \in DOMAIN contributing |-> MeanOf(contributing[i])],
                                  Len(successful) - Len(contributing)),
       intervals |-> Distribution(Fractions(Joined(contributing)), 0)]

SchedulerLag(mode, arrivals) ==
  LET started == Selected(LAMBDA a : a.disposition = "started", Measured(arrivals))
  IN  Distribution(IF mode = "open_loop"
                   THEN Fractions([i \in DOMAIN started |-> started[i].lag]) ELSE <<>>, 0)

(***************************************************************************)
(* Tokens                                                                  *)
(***************************************************************************)

(* addInt64 returns FALSE on overflow                                      *)
Fits(left, right) == ~(right > 0 /\ left > MaxInt - right)

(* Wrong: the total is added unchecked                                     *)
SumsFitUnchecked(sum, usage) == Fits(sum.input, usage.input) /\ Fits(sum.output, usage.output)

SumsFit(sum, usage) ==
  /\ Fits(sum.input, usage.input)
  /\ Fits(sum.output, usage.output)
  /\ Fits(sum.total, usage.total)

Consistent(usage) ==
  /\ usage.input <= MaxInt - usage.output
  /\ usage.input + usage.output = usage.total

(* a request that cannot be added is skipped, and the totals withheld      *)
AddUsage(sum, q) ==
  LET usage == q.metrics.usage
  IN  IF usage = NoTokens THEN sum
      ELSE IF ~Consistent(usage) \/ ~SumsFit(sum, usage)
      THEN [sum EXCEPT !.covered = @ + 1, !.refused = TRUE]
      ELSE [covered |-> sum.covered + 1,
            refused |-> sum.refused,
            input   |-> sum.input + usage.input,
            output  |-> sum.output + usage.output,
            total   |-> sum.total + usage.total]

NoTotals == [covered |-> 0, refused |-> FALSE, input |-> 0, output |-> 0, total |-> 0]

Tokens(successful, elapsed) ==
  LET sum == FoldLeft(AddUsage, NoTotals, successful)
  IN  IF successful = <<>> \/ sum.refused \/ sum.covered # Len(successful) \/ elapsed <= 0
      THEN [available |-> FALSE, covered |-> sum.covered]
      ELSE [available |-> TRUE, covered |-> sum.covered,
            input |-> sum.input, output |-> sum.output, total |-> sum.total]

(***************************************************************************)
(* Service level objectives: slo maps the configured ones to a threshold   *)
(***************************************************************************)

Passes(value, threshold) == value[1] <= threshold * value[2]

(* Wrong: a metric that is unavailable counts as passed                    *)
EvaluableAnyway(q, slo) == TRUE

Evaluable(q, slo) == \A k \in DOMAIN slo : q.metrics[k] # Unavailable

PassedAll(q, slo) ==
  \A k \in DOMAIN slo : q.metrics[k] # Unavailable => Passes(q.metrics[k], slo[k])

MetricSummary(k, slo, successful) ==
  LET with == Selected(LAMBDA q : q.metrics[k] # Unavailable, successful)
  IN  [available |-> Len(with),
       passing   |-> Number(LAMBDA q : Passes(q.metrics[k], slo[k]), with)]

SLOSummary(slo, successful) ==
  IF slo = <<>> THEN [configured |-> FALSE]
  ELSE [configured  |-> TRUE,
        metrics     |-> [k \in DOMAIN slo |-> MetricSummary(k, slo, successful)],
        good        |-> Number(LAMBDA q : Evaluable(q, slo) /\ PassedAll(q, slo), successful),
        bad         |-> Number(LAMBDA q : Evaluable(q, slo) /\ ~PassedAll(q, slo), successful),
        unevaluable |-> Number(LAMBDA q : ~Evaluable(q, slo), successful)]

(***************************************************************************)
(* The summary                                                             *)
(***************************************************************************)

Quotient(numerator, denominator) ==
  IF denominator <= 0 THEN Unavailable ELSE <<numerator, denominator>>

(* summaryComplete                                                         *)
Complete(r) ==
  /\ ~r.drain.timedOut
  /\ ~r.drain.parentCancelled
  /\ IF r.load.mode = "open_loop"
     THEN /\ r.measurement.arrivals.unprocessed = 0
          /\ r.measurement.arrivals.processed = r.measurement.arrivals.planned
     ELSE r.measurement.attempted = r.measurement.requested

LoadSummary(r) ==
  LET counts == r.measurement.arrivals
  IN  IF r.load.mode # "open_loop"
      THEN [concurrency |-> r.load.concurrency, workers |-> r.measurement.workers,
            maxActive |-> r.measurement.maxActive]
      ELSE [counts    |-> counts,
            delivery  |-> Quotient(counts.started, counts.planned),
            startRate |-> Quotient(counts.started, r.load.duration)]

Summary(r, requests, arrivals) ==
  LET successful == Successful(requests)
      measured   == Measured(requests)
      tally      == Tally(measured)
      elapsed    == r.measurement.elapsed
  IN  [complete   |-> Complete(r),
       requested  |-> r.measurement.requested,
       started    |-> Len(measured),
       successful |-> tally["succeeded"],
       failed     |-> Failures(tally),
       success    |-> Quotient(tally["succeeded"], Len(measured)),
       throughput |-> Quotient(Len(measured), elapsed),
       load       |-> LoadSummary(r),
       metrics    |-> [s \in Scalars |-> ScalarDistribution(s, successful)],
       icl        |-> IntervalSummary("icl", successful),
       itl        |-> IntervalSummary("itl", successful),
       lag        |-> SchedulerLag(r.load.mode, arrivals),
       tokens     |-> Tokens(successful, elapsed),
       slo        |-> SLOSummary(r.slo, successful)]
=============================================================================
