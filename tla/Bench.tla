-------------------------------- MODULE Bench --------------------------------
(***************************************************************************)
(* One invocation of the slentore command (src/cmd/slentore): a            *)
(* configuration is resolved and validated, a workload prepared, a run     *)
(* executed, summarised and written (Execute in                            *)
(* src/internal/benchmarkexec/executor.go), and the process exits.  A      *)
(* sweep or calibration is followed up to the start of its experiment,     *)
(* which Sweep and Calibration model.                                      *)
(*                                                                         *)
(* The lifecycle of a run is what PhaseContract and Lifecycle say of it:   *)
(* it returns any result they allow.                                       *)
(***************************************************************************)
EXTENDS Configuration, RunEvidence, WorkloadBuilder

CONSTANTS
  Invocations,    (* [command, form, lag]: the arguments, without flags    *)
  Files,          (* [status, given, openLoopBlock]                        *)
  Flaggings,      (* what the flags may give                               *)
  Environments,   (* sets of the environment variables that are set        *)
  Observations,   (* of requests that succeed, and of failed ones          *)
  Lags            (* of the arrivals of a phase, in turn                   *)

(* the settings have their types: the decoder and the flags see to it      *)
ASSUME InputAssumption ==
  /\ \A i \in Invocations : i.command \in {"bench", "sweep", "calibrate-client"}
  /\ \A f \in Files : TypedSettings(f.given)
  /\ \A f \in Flaggings : TypedSettings(f)

(* what the stream client makes: it counts the token IDs that it has seen, *)
(* and refuses a negative usage; some requests succeed                     *)
ASSUME ObservationAssumption ==
  /\ \A o \in Observations :
       /\ TypedObservation(o)
       /\ CountsConsistent(o)
       /\ o.tokens = NoTokens \/ o.tokens \in [input : Nat, output : Nat, total : Nat]
  /\ \A wants \in BOOLEAN : \E o \in Observations : o.requested = wants /\ o.error = "none"

ASSUME LagAssumption == Lags \in Seq(Nat) /\ Lags # <<>>

VARIABLES
  invocation, file, flags, environment,    (* fixed                        *)
  step,         (* what the command does next                              *)
  config,       (* the resolved configuration                              *)
  points,       (* the configurations that are to be run                   *)
  plan,         (* what a run keeps of its configuration                   *)
  run,          (* [metadata, requests, arrivals], once it has ended       *)
  summary,
  refusedBy,    (* who refused to publish the run                          *)
  exit

inputs == <<invocation, file, flags, environment>>
vars   == <<inputs, step, config, points, plan, run, summary, refusedBy, exit, builderVars>>

Absent  == <<>>
NoExit  == -1
Command == invocation.command
IsRun   == Command = "bench"

Init ==
  /\ invocation \in Invocations
  /\ file \in Files
  /\ flags \in {f \in Flaggings : DOMAIN f \subseteq Flags(invocation.command)}
  /\ environment \in Environments
  /\ step = "start"
  /\ config = Absent
  /\ points = Absent
  /\ plan = Absent
  /\ run = Absent
  /\ summary = Absent
  /\ refusedBy = "nobody"
  /\ exit = NoExit
  /\ BuilderInit

(* the command ends with this exit status                                 *)
Exit(code) ==
  /\ exit' = code
  /\ step' = "done"

(***************************************************************************)
(* runContext, and the part the three commands share                       *)
(***************************************************************************)

(* usage, help, version, unknown commands and bad flags                    *)
AnswerUsage ==
  /\ step = "start"
  /\ invocation.form # "options"
  /\ Exit(IF invocation.form = "help" THEN 0 ELSE 2)
  /\ UNCHANGED <<inputs, config, points, plan, run, summary, refusedBy, builderVars>>

Resolved ==
  LET c == Resolve(file, flags)
  IN  IF Command = "calibrate-client" THEN ForCalibration(c) ELSE c

ResolutionFails ==
  \/ file.status = "refused"
  \/ /\ ~IsRun
     /\ Conflicting(Resolve(file, flags), flags)
  \/ /\ Command = "calibrate-client"
     /\ ~CalibrationAllowed(Resolve(file, flags))

ResolveConfig ==
  /\ step = "start"
  /\ invocation.form = "options"
  /\ IF ResolutionFails
     THEN Exit(2) /\ UNCHANGED config
     ELSE config' = Resolved /\ step' = "resolved" /\ UNCHANGED exit
  /\ UNCHANGED <<inputs, points, plan, run, summary, refusedBy, builderVars>>

PlanOrRunAccepted ==
  CASE Command = "bench"            -> ValidStatic(config)
    [] Command = "sweep"            -> PlanAccepted(config)
    [] Command = "calibrate-client" -> /\ PlanAccepted(config)
                                       /\ CalibrationPlanAccepted(config, invocation.lag)

Validate ==
  /\ step = "resolved"
  /\ IF PlanOrRunAccepted
     THEN /\ points' = IF IsRun THEN <<config>> ELSE Points(config)
          /\ step' = "validated"
          /\ UNCHANGED exit
     ELSE Exit(2) /\ UNCHANGED points
  /\ UNCHANGED <<inputs, config, plan, run, summary, refusedBy, builderVars>>

SLOConfig(v) ==
  LET threshold == [ttft |-> v.slo_ttft, tpot |-> v.slo_tpot, e2e |-> v.slo_e2e]
  IN  [k \in {m \in DOMAIN threshold : threshold[m] # NoThreshold} |-> threshold[k]]

(* loadMetadata                                                            *)
LoadMetadata(v) ==
  IF v.mode = "open_loop"
  THEN [mode |-> v.mode, rate |-> v.request_rate, duration |-> v.duration,
        maxInFlight |-> v.max_in_flight, planned |-> AdmissionDecision(v).requested]
  ELSE [mode |-> v.mode, concurrency |-> v.concurrency, requests |-> v.requests]

Limits == {"max_concurrency", "max_requests", "max_request_rate", "max_in_flight_ceiling",
           "max_input_tokens", "max_output_tokens_ceiling"}

RunPlan(v) ==
  [load      |-> LoadMetadata(v),
   warmup    |-> v.warmup_requests,
   requested |-> AdmissionDecision(v).requested,
   workload  |-> [mode |-> v.workload_mode, target |-> v.input_tokens,
                  output |-> v.max_output_tokens, length |-> 0],
   timing    |-> v.token_timing,
   slo       |-> SLOConfig(v),
   limits    |-> [l \in Limits |-> v[l]]]

(* ResolveAPIKey; nobody asks for the configuration again                  *)
ResolveKey ==
  /\ step = "validated"
  /\ IF KeyResolved(config, environment)
     THEN /\ step' = IF IsRun THEN "prepare" ELSE "experiment"
          /\ plan' = IF IsRun THEN RunPlan(config.values) ELSE Absent
          /\ UNCHANGED exit
     ELSE Exit(2) /\ UNCHANGED plan
  /\ config' = Absent
  /\ file' = Absent
  /\ flags' = Absent
  /\ points' = Absent
  /\ environment' = {}
  /\ UNCHANGED <<invocation, run, summary, refusedBy, builderVars>>

(* runner.Run of the experiment or calibration: Sweep, Calibration         *)
ExperimentReturns ==
  /\ step = "experiment"
  /\ \E code \in {0, 1} : Exit(code)
  /\ UNCHANGED <<inputs, config, points, plan, run, summary, refusedBy, builderVars>>

(***************************************************************************)
(* Execute: the workload                                                   *)
(***************************************************************************)

PreparePrompt ==
  /\ step = "prepare"
  /\ plan.workload.mode = "prompt"
  /\ step' = "launch"
  /\ UNCHANGED <<inputs, config, points, plan, run, summary, refusedBy, exit, builderVars>>

PrepareTokens ==
  /\ step = "prepare"
  /\ plan.workload.mode = "token_length"
  /\ StartBuild(plan.workload.target, plan.workload.output)
  /\ step' = "build"
  /\ UNCHANGED <<inputs, config, points, plan, run, summary, refusedBy, exit>>

Build ==
  /\ step = "build"
  /\ BuilderStep
  /\ UNCHANGED <<inputs, step, config, points, plan, run, summary, refusedBy, exit>>

BuildReturns ==
  /\ step = "build"
  /\ \/ /\ bStep = "prepared"
        /\ plan' = [plan EXCEPT !.workload.length = maxLength]
        /\ step' = "launch"
        /\ UNCHANGED exit
     \/ /\ bStep = "refused"
        /\ Exit(1)
        /\ UNCHANGED plan
  /\ UNCHANGED <<inputs, config, points, run, summary, refusedBy, builderVars>>

(* NewRunID found no entropy                                               *)
RunIDFails ==
  /\ step = "launch"
  /\ Exit(2)
  /\ UNCHANGED <<inputs, config, points, plan, run, summary, refusedBy, builderVars>>

(***************************************************************************)
(* Execute: the run.  A fate is what became of one request: not claimed,   *)
(* dropped, or started with an outcome and an observation                  *)
(***************************************************************************)

Fate(disposition, outcome, observation) ==
  [disposition |-> disposition, outcome |-> outcome, observation |-> observation]

NoObservation == <<>>
Unclaimed     == Fate("unclaimed", "none", NoObservation)

(* the metrics of warmup requests are not summarised: one observation will *)
(* do for those that succeed                                               *)
Observed(measured) ==
  LET possible  == {o \in Observations : o.requested = (plan.timing = "vllm")}
      succeeded == {o \in possible : o.error = "none"}
  IN  IF measured THEN possible ELSE (possible \ succeeded) \cup {CHOOSE o \in succeeded : TRUE}

StartedFates(measured) ==
  {Fate("started", IF o.error = "none" THEN "succeeded" ELSE failure, o) :
     o \in Observed(measured), failure \in Outcomes \ {"succeeded"}}

OpenLoopRun == plan.load.mode = "open_loop"

Dropped(measured) ==
  IF ~OpenLoopRun THEN {}
  ELSE {Fate(d, "none", NoObservation) :
          d \in {"client_limited"} \cup (IF measured THEN {"scheduler_limited"} ELSE {})}

(* no further request than the given one has this disposition              *)
Suffix(fates, disposition) ==
  \A s \in 1 .. Len(fates) - 1 :
    fates[s].disposition = disposition => fates[s + 1].disposition = disposition

Ended(fates, outcome) == \E s \in DOMAIN fates : fates[s].outcome = outcome

(* how a phase may end: PhaseContract!Return, requests claimed in order    *)
Returns(fates, error, cancelled, measured) ==
  /\ Suffix(fates, "unclaimed")
  /\ Suffix(fates, "scheduler_limited")
  /\ error # "parent" =>
       \A s \in DOMAIN fates : fates[s].disposition # "unclaimed"
  /\ error = "none" /\ cancelled => OpenLoopRun
  /\ error = "drain" => measured
  /\ error = "parent" => cancelled
  /\ Ended(fates, "drain_timeout") => error = "drain"
  /\ Ended(fates, "parent_cancelled") => cancelled

With(fates, disposition) == {s \in DOMAIN fates : fates[s].disposition = disposition}

(* the requests of a phase; in which order they completed matters to       *)
(* nothing below                                                           *)
Completed(phase, fates) ==
  LET request(s) == [sequence    |-> s,
                     phase       |-> phase,
                     outcome     |-> fates[s].outcome,
                     observation |-> fates[s].observation]
  IN  Those([s \in DOMAIN fates |-> request(s)], With(fates, "started"))

Lag(sequence) == Lags[((sequence - 1) % Len(Lags)) + 1]

Arrivals(phase, fates) ==
  LET arrival(s) == [sequence    |-> s,
                     phase       |-> phase,
                     disposition |-> fates[s].disposition,
                     scheduled   |-> ArrivalOffset(plan.load.rate, s - 1),
                     lag         |-> IF fates[s].disposition = "started" THEN Lag(s) ELSE NoTime]
  IN  Those([s \in DOMAIN fates |-> arrival(s)], DOMAIN fates \ With(fates, "unclaimed"))

Counts(fates, maxInFlight) ==
  LET number(disposition) == Cardinality(With(fates, disposition))
  IN  [planned          |-> Len(fates),
       processed        |-> Len(fates) - number("unclaimed"),
       started          |-> number("started"),
       clientLimited    |-> number("client_limited"),
       schedulerLimited |-> number("scheduler_limited"),
       unprocessed      |-> number("unclaimed"),
       maxInFlight      |-> maxInFlight]

PhaseStatus(fates, error) ==
  IF error = "parent" THEN "cancelled"
  ELSE IF error # "none" \/ \E o \in Outcomes \ {"succeeded"} : Ended(fates, o) THEN "failed"
  ELSE "completed"

Workers(requested) == Least(plan.load.concurrency, requested)

PhaseResult(phase, fates, error, active) ==
  [phase       |-> phase,
   status      |-> PhaseStatus(fates, error),
   requested   |-> Len(fates),
   elapsed     |-> 4,
   completed   |-> Completed(phase, fates),
   maxActive   |-> active,
   concurrency |-> IF OpenLoopRun THEN 0 ELSE plan.load.concurrency,
   workers     |-> IF OpenLoopRun THEN 0 ELSE Workers(Len(fates)),
   arrivals    |-> IF OpenLoopRun THEN Arrivals(phase, fates) ELSE <<>>,
   counts      |-> IF OpenLoopRun THEN Counts(fates, active) ELSE NoCounts]

(* skippedPhaseResult, markSkippedOpenLoopUnprocessed                      *)
SkippedPhase(phase, requested) ==
  LET unclaimed == [s \in 1 .. requested |-> Unclaimed]
  IN  [phase       |-> phase,
       status      |-> "skipped",
       requested   |-> requested,
       elapsed     |-> 0,
       completed   |-> <<>>,
       maxActive   |-> 0,
       concurrency |-> IF OpenLoopRun THEN 0 ELSE plan.load.concurrency,
       workers     |-> 0,
       arrivals    |-> <<>>,
       counts      |-> IF OpenLoopRun THEN Counts(unclaimed, 0) ELSE NoCounts]

(* how many requests were in flight at once                                *)
Active(fates) ==
  LET started == Cardinality(With(fates, "started"))
      limit   == IF OpenLoopRun THEN plan.load.maxInFlight ELSE Workers(Len(fates))
  IN  IF started = 0 THEN {0} ELSE 1 .. Least(limit, started)

Fates(requested, measured) ==
  [1 .. requested -> StartedFates(measured) \cup Dropped(measured) \cup {Unclaimed}]

WarmupResult(fates, error, active) ==
  IF plan.warmup = 0 THEN SkippedPhase("warmup", 0) ELSE PhaseResult("warmup", fates, error, active)

(* a warmup that went well, its parent cancelled in time to be seen or not *)
WarmedUp(fates, cancelled) ==
  \E seen \in {FALSE, cancelled} : Returns(fates, "none", seen, FALSE)

LimitReason ==
  IF OpenLoopRun THEN "measurement_duration_elapsed" ELSE "measured_request_limit_reached"

StopReasons(error, cancelled) ==
  {LimitReason} \cup (IF error # "none" /\ cancelled THEN {"parent_cancelled_during_measurement"}
                      ELSE {})

Recorded(result) ==
  run' = [metadata |-> RunMetadata(plan, result),
          requests |-> LifecycleRequestArtifacts(result),
          arrivals |-> LifecycleArrivals(result)]

(* the lifecycle returned, and classifyRun has seen its result             *)
LifecycleReturned(warmup, measurement, error, cancelled, stop) ==
  /\ step' = "aggregate"
  /\ Recorded([mode        |-> plan.load.mode,
               warmup      |-> warmup,
               measurement |-> measurement,
               drain       |-> [timedOut |-> error = "drain", parentCancelled |-> cancelled],
               error       |-> error,
               stop        |-> stop])
  /\ UNCHANGED <<inputs, config, points, plan, summary, refusedBy, exit, builderVars>>

CancelledInSetup ==
  /\ step = "launch"
  /\ LifecycleReturned(SkippedPhase("warmup", plan.warmup),
                       SkippedPhase("measured", plan.requested),
                       "parent", TRUE, "parent_cancelled_during_setup")

CancelledInWarmup ==
  /\ step = "launch"
  /\ plan.warmup > 0
  /\ \E fates \in Fates(plan.warmup, FALSE) :
       /\ Returns(fates, "parent", TRUE, FALSE)
       /\ \E active \in Active(fates) :
            LifecycleReturned(WarmupResult(fates, "parent", active),
                              SkippedPhase("measured", plan.requested),
                              "parent", TRUE, "parent_cancelled_during_warmup")

MeasurementReturns ==
  /\ step = "launch"
  /\ \E fates \in Fates(plan.requested, TRUE), error \in {"none", "parent", "drain"},
        cancelled \in BOOLEAN :
       /\ Returns(fates, error, cancelled, TRUE)
       /\ \E warmup \in Fates(plan.warmup, FALSE) :
            /\ WarmedUp(warmup, cancelled)
            /\ \E before \in Active(warmup), active \in Active(fates),
                  stop \in StopReasons(error, cancelled) :
                 LifecycleReturned(WarmupResult(warmup, "none", before),
                                   PhaseResult("measured", fates, error, active),
                                   error, cancelled, stop)

(***************************************************************************)
(* Execute: the summary and the artifacts                                  *)
(***************************************************************************)

Refused(by) ==
  /\ refusedBy' = by
  /\ Exit(1)

Aggregate ==
  /\ step = "aggregate"
  /\ IF Aggregatable(run.metadata, run.requests, run.arrivals)
     THEN /\ summary' = Summary(run.metadata, run.requests, run.arrivals)
          /\ step' = "write"
          /\ UNCHANGED <<refusedBy, exit>>
     ELSE Refused("aggregator") /\ UNCHANGED summary
  /\ UNCHANGED <<inputs, config, points, plan, run, builderVars>>

(* Wrong: a run that was written is a success                              *)
ExitOfWritten == 0

ExitOfRun == IF run.metadata.status = "completed" THEN 0 ELSE 1

(* WriteWithArrivals: the checks, then the files                           *)
WriteArtifacts ==
  /\ step = "write"
  /\ \/ /\ Acceptable(run.metadata, run.requests, run.arrivals)
        /\ Exit(ExitOfRun)
        /\ UNCHANGED refusedBy
     \/ ~Acceptable(run.metadata, run.requests, run.arrivals) /\ Refused("writer")
     \/ Refused("file system")
  /\ UNCHANGED <<inputs, config, points, plan, run, summary, builderVars>>

Terminated ==
  /\ step = "done"
  /\ UNCHANGED vars

CommandStep ==
  \/ AnswerUsage \/ ResolveConfig \/ Validate \/ ResolveKey \/ ExperimentReturns
  \/ PreparePrompt \/ PrepareTokens \/ Build \/ BuildReturns \/ RunIDFails
  \/ CancelledInSetup \/ CancelledInWarmup \/ MeasurementReturns
  \/ Aggregate \/ WriteArtifacts

Next == CommandStep \/ Terminated

(* every call of the tokenizer returns, by its context's deadline at the   *)
(* latest, and Build is sequential code between the calls                  *)
Fairness == WF_vars(Build) /\ WF_vars(BuildReturns)

Spec == Init /\ [][Next]_vars /\ Fairness

(***************************************************************************)
(* Reference definitions                                                   *)
(***************************************************************************)

Executed == Command = "bench" /\ run # Absent
Published == Executed /\ step = "done" /\ refusedBy = "nobody"

AtMost(x, y) == x[1] * y[2] <= y[1] * x[2]

(* v is the least sample with percentile % of the samples at or below it   *)
IsNearestRank(v, percentile, samples) ==
  /\ \E i \in DOMAIN samples : samples[i] = v
  /\ 100 * Number(LAMBDA x : AtMost(x, v), samples) >= percentile * Len(samples)
  /\ 100 * Number(LAMBDA x : Below(x, v), samples) < percentile * Len(samples)

Describes(distribution, samples) ==
  /\ distribution.count = Len(samples)
  /\ samples # <<>> =>
       \A p \in Percentiles : IsNearestRank(distribution.percentile[p], p, samples)

SuccessfulMetrics ==
  LET requests == Successful(run.requests)
  IN  [i \in DOMAIN requests |-> requests[i].metrics]

SumOf(field) ==
  Total([i \in DOMAIN SuccessfulMetrics |-> SuccessfulMetrics[i].usage[field]])

MeetsEverySLO(m) ==
  \A k \in DOMAIN plan.slo : m[k] # Unavailable /\ AtMost(m[k], <<plan.slo[k], 1>>)

(***************************************************************************)
(* Properties                                                              *)
(***************************************************************************)

(* Of everything that is about to run, each setting is what calibration    *)
(* fixes, or else the flag's, a point's of the axis, the file's, the       *)
(* default; every combination of axis values is one point; and no setting  *)
(* of the other load mode was given and ignored, but for the axes of a     *)
(* file, which bench knows nothing of (README.md:109-113, 244-247,         *)
(* 505-508).                                                               *)
PrecedenceKept ==
  step = "validated" =>
    LET given  == Overlay(flags, Overlay(file.given, Default))
        fixed  == IF Command = "calibrate-client" THEN CalibrationValues ELSE <<>>
        swept  == {s \in DOMAIN AxisOf : ~IsRun /\ given[AxisOf[s]] # <<>>}
        axis(s) == {given[AxisOf[s]][i] : i \in DOMAIN given[AxisOf[s]]}
        load(k) == [s \in swept |-> points[k].values[s]]
        others == IF given.mode = "open_loop" THEN {"concurrency", "requests", "concurrency_values"}
                  ELSE OpenLoopSettings \cup {"request_rate_values"}
    IN  /\ \A k \in DOMAIN points, s \in DOMAIN Default :
             points[k].values[s] = IF s \in swept THEN load(k)[s] ELSE Overlay(fixed, given)[s]
        /\ {load(k) : k \in DOMAIN points} =
             {f \in [swept -> UNION {axis(s) : s \in swept}] : \A s \in swept : f[s] \in axis(s)}
        /\ \A j, k \in DOMAIN points : load(j) = load(k) => j = k
        /\ \A s \in others :
             s \in DOMAIN flags \cup DOMAIN file.given => s \in Axes /\ (IsRun \/ given[s] = <<>>)

(* A run that ended is refused its evidence for one reason only: its       *)
(* parent was cancelled when no phase returned an error for it.  Whatever  *)
(* the lifecycle returns, the aggregator and the writer agree with it      *)
(* (calculate.go:87-260, writer.go:301-463 and 569-687).                   *)
EvidenceNeverRefused ==
  /\ refusedBy # "aggregator"
  /\ refusedBy = "writer" =>
       run.metadata.drain.parentCancelled /\ run.metadata.status # "cancelled"

(* The percentiles of a run are nearest ranks of exactly the successful    *)
(* measured requests that have the metric.                                 *)
PercentilesAreNearestRanks ==
  summary # Absent =>
    /\ \A s \in Scalars :
         Describes(summary.metrics[s],
                   Selected(LAMBDA v : v # Unavailable,
                            [i \in DOMAIN SuccessfulMetrics |-> SuccessfulMetrics[i][s]]))
    /\ \A kind \in {"icl", "itl"} :
         Describes(summary[kind].intervals,
                   Fractions(Joined([i \in DOMAIN SuccessfulMetrics |->
                                       SuccessfulMetrics[i][kind]])))

(* Token totals are published only when they are exact sums over every     *)
(* successful request, and they are when they can be.                      *)
TotalsAreExact ==
  summary # Absent =>
    /\ summary.tokens.available =>
         /\ \A i \in DOMAIN SuccessfulMetrics : SuccessfulMetrics[i].usage # NoTokens
         /\ \A field \in {"input", "output", "total"} :
              /\ summary.tokens[field] = SumOf(field)
              /\ SumOf(field) <= MaxInt
         /\ summary.tokens.input + summary.tokens.output = summary.tokens.total
    /\ ~summary.tokens.available /\ SuccessfulMetrics # <<>> =>
         \/ \E i \in DOMAIN SuccessfulMetrics :
              LET usage == SuccessfulMetrics[i].usage
              IN  usage = NoTokens \/ usage.input + usage.output # usage.total
         \/ SumOf("total") > MaxInt

(* The good requests are those that meet every objective, and a request    *)
(* that lacks a metric of one is neither good nor bad.                     *)
SLOPartition ==
  summary # Absent =>
    LET slo == summary.slo
    IN  slo.configured =>
          /\ slo.good + slo.bad + slo.unevaluable = summary.successful
          /\ slo.good = Number(MeetsEverySLO, SuccessfulMetrics)
          /\ slo.unevaluable =
               Number(LAMBDA m : \E k \in DOMAIN plan.slo : m[k] = Unavailable, SuccessfulMetrics)
          /\ \A k \in DOMAIN plan.slo : slo.metrics[k].passing >= slo.good

(* README.md:940-952: 0 is earned by a complete run in every respect, and  *)
(* 2 means that nothing was run.                                           *)
ExitStatusHonest ==
  /\ exit = 0 /\ Executed =>
       /\ Published
       /\ summary.complete
       /\ summary.successful = plan.requested
       /\ \A i \in DOMAIN run.requests : run.requests[i].outcome = "succeeded"
       /\ ~run.metadata.drain.parentCancelled /\ ~run.metadata.drain.timedOut
  /\ exit = 2 => run = Absent

CleanWithin(budget) ==
  LET started == Selected(LAMBDA a : a.disposition = "started", Measured(run.arrivals))
      inTime  == Number(LAMBDA a : a.lag <= budget, started)
  IN  DeliveryReasons(summary, run.metadata, budget) = {} <=>
        /\ run.metadata.status = "completed"
        /\ budget # NoBudget => 100 * inTime >= 95 * Len(started)

(* A run that was written counts as delivered cleanly to a calibration     *)
(* exactly when it completed and no more than one in twenty of its         *)
(* arrivals started later than the lag budget allows: no further reason    *)
(* refuses a completed run, and none lets another pass                     *)
(* (evaluate.go:18-64).                                                    *)
DeliveryAgrees == Published => \A budget \in {NoBudget} \cup 1 .. 2 : CleanWithin(budget)

(* The search for a prompt ends, whatever the tokenizer answers: blocks    *)
(* halve down to nothing and no loop starts over (builder.go:87-112).      *)
SearchEnds == step = "build" ~> step # "build"

(* README.md:518: fractional rates use offsets rounded down from the       *)
(* direct formula.                                                         *)
OffsetsRoundedDown ==
  step = "resolved" /\ config.values.mode = "open_loop" /\ Valid(config) =>
    \A i \in 1 .. PlannedArrivalCount(config.values.request_rate, config.values.duration) :
      ArrivalOffset(config.values.request_rate, i - 1) =
        ((i - 1) * Second * RateUnit) \div config.values.request_rate

(* README.md:950: exit status 0 requires every warmup and measured request *)
(* to succeed.                                                             *)
EveryRequestSucceeds ==
  exit = 0 /\ Executed =>
    Number(LAMBDA q : q.outcome = "succeeded", run.requests) = plan.warmup + plan.requested
=============================================================================
