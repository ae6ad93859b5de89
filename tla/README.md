# Formal models of Slentore

This directory holds TLA+ models of Slentore, the LLM-serving benchmark harness
in `src/`: what they cover, what TLC checks about them, and what TLAPS proves.
Line numbers refer to `src/`.

## The system

Slentore sends streaming chat requests to an OpenAI-compatible server, measures
them, and publishes one directory of evidence per run. A run has a warmup phase
and a measured phase; a sweep is a list of runs; a calibration wraps a sweep and
compares client-side resource use. The program is one process; its concurrency
is goroutines and its only outside influences are the server under test, timers
and Ctrl-C.

| Component | State it keeps | Operations | Module |
|---|---|---|---|
| Closed-loop phase (`benchmark/lifecycle.go`, `runClosedLoopPhase`) | claim counter, active count and maximum, results channel, final-claim handshake, drain timer, phase and request contexts | worker loop, coordinator select, drain expiry, return | `ClosedLoopPhase` |
| Open-loop phase (`runOpenLoopPhase`) | schedule position, slots, active count, dispositions, results channel, deadline and drain | schedule walk, start or drop, deadline, drain, collect, return | `OpenLoopPhase` |
| Lifecycle (`LifecycleCoordinator.Run`) | transition log, warmup and measured results, drain flags, error | setup, warmup, measurement, stop admission, drain, finish | `Lifecycle` |
| Run classification (`benchmarkexec/executor.go`) | run status, error class, metadata | `classifyRun`, `stopAdmissionMetadata`, the metadata of `Execute` | `Lifecycle` (control), `RunEvidence` (every field) |
| Artifact writer (`artifacts/writer.go`, `summary.go`) | staged tree, final directory | validate, write, rename | `RunEvidence` (validation), `Sweep` (staging and rename) |
| Request execution, stream client (`benchmark/runner.go`, `openai/`) | the observation, the frame being collected, DONE mark | request, first-byte callback, decode, finish | `StreamClient` |
| Fake server (`fakeserver/`) | none across requests | scripted stream | `RequestStream`, as the stream client's peer |
| Request metrics (`metrics/`) | none | `Calculate` | `RequestMetrics` |
| Run aggregation (`aggregate/`) | none | validation, distributions, token totals, SLO | `RunSummary` |
| Client admission, arrival schedule (`benchmark/admission.go`, `schedule.go`) | none | `AdmitRun`, planned count, offsets | `Admission`; the schedule's postcondition in `OpenLoopPhase` |
| Configuration (`config/`, `experiment/plan.go`, the `resolve...` functions of `cmd/slentore`) | none | defaults, file, flags, validation, expansion of axes | `Configuration` |
| Workload preparation (`workload/`) | the model length observed, the best prompt | search for an exact prompt length | `WorkloadBuilder` |
| Commands (`cmd/slentore`) | none | `bench`, `sweep`, `calibrate-client`, from arguments to exit status | `Bench` |
| Sweep (`experiment/`) | planned points, child runs, manifest, staging tree | begin, run children, abort, publish, validate | `Sweep`, `EvidenceStore` |
| Calibration (`calibration/`) | sampler, evaluation, its own publication | sample, evaluate, publish | `Calibration`, `Sampler`, `EvidenceStore`; its delivery verdict in `RunEvidence` |

How they interact. A command installs a signal context, loads a configuration
and calls `benchmarkexec.Execute`, which builds the client and the workload and
calls `LifecycleCoordinator.Run`. Run calls a phase function for warmup and then
for measurement; the phase calls back (`onFinalClaim`, `onParentCancellation`)
when admission stops or the parent is cancelled, and hands back a `PhaseResult`
and an error. Execute classifies the result and hands it to the artifact writer,
which may refuse it. The sweep runner calls Execute once per point and publishes
the whole; calibration runs the sweep with a sampler beside it.

What is hard. Within a request: a response read line by line from a server that
may write anything and stop anywhere, a cancellation at any moment, and a callback
on the transport's goroutine. Within a phase: several workers on one lock-free counter, a
handshake between the worker that claims the last request and the coordinator, a
drain timer, per-request deadlines and a parent cancellation that race with each
other and with completion, and error causes that are read after the fact. Between
phases: callbacks and return values that must agree on whether a run was
cancelled. After the run: a validator that refuses evidence in which the pieces
disagree, so that a wrong combination costs the user all of it. Around the run:
sums that overflow, quotients that round, settings that override each other, and
a tokenizer whose answers obey no law.

What makes each part correct:

- *Closed loop*: each request sequence is claimed once and delivered once; the
  phase returns only when nothing is running; it always returns; the last
  measured request starts after the stop-admission boundary; no error means that
  all requests were attempted; a cancelled or drained request is explained by the
  error the phase returns.
- *Open loop*: never more requests in flight than slots; every planned arrival
  is accounted for exactly once; arrivals lost to a late scheduler are a suffix;
  the drain leaves no request running; it always returns.
- *Lifecycle*: only legal transitions; measurement starts on a quiet system, and
  not after a cancelled warmup; a published status tells the truth; a finished run
  is published.
- *Sweep, calibration*: all or nothing on disk, a disposition per
  point, child directories that match, and a cancelled sweep that survives.
- *Stream client, metrics*: success only for one whole stream that ends in
  `[DONE]`; what was seen before a failure is kept; no timing is invented from
  events that do not prove it.
- *Aggregation, evidence*: percentiles are nearest ranks of the successful
  requests, totals exact or absent, good, bad and unevaluable requests add up;
  every result a lifecycle can return passes the writer, but for one.
- *Configuration, schedule, workload*: each setting comes from the right source,
  arrival offsets follow their formula, the prompt sent is the prompt counted.

## The modules

`PhaseContract` is the abstract specification: what either kind of phase promises
Run. A request is pending, then admitted or dropped, then ends with an outcome;
admission closes once, for one reason; the parent's cancellation may be reported;
the phase returns one of three verdicts. The conditions under which it may return
each (`Return`) are what Run and the artifact validator depend on. Both phases
are shown to implement it; `Lifecycle` is composed from two instances of it.

```
            PhaseContract
       implemented by                       used by (twice)
   ClosedLoopPhase, OpenLoopPhase               Lifecycle

            EvidenceStore
       implemented by
   Calibration  extends  Sweep, Sampler

   RequestStream -> StreamClient -> RequestMetrics

   BenchMC -> Bench -> Configuration ------------------> Admission, Collections
                    -> RunEvidence -> RunSummary ------> Admission, Collections, RequestMetrics
                    -> WorkloadBuilder

   proofs:  ClosedLoopPhase <- ClosedLoopPhaseProofs     OpenLoopPhase <- OpenLoopPhaseProofs
            Lifecycle <- LifecycleProofs                 Calibration, Sweep <- CalibrationProofs
            RequestStream <- RequestStreamProofs         RunSummary <- RunSummaryProofs
            Bench, WorkloadBuilder <- BenchProofs (on RunSummaryProofs)
            FoldLemmas: instances in RequestStreamProofs and RunSummaryProofs
```

`Sweep` takes from `Lifecycle` what a run can end with: `RunChild` allows a
cancelled status, or evidence that the writer refuses, only when the parent was
cancelled, which `PublishedStatusIsHonest` shows. `Bench` starts a run's evidence from
the same contract: any result that the phases and Run allow.

### ClosedLoopPhase

One step of a worker is one step of the worker closure at `lifecycle.go:349-377`
between two points where another goroutine can interfere: check the phase context
(`CheckPhase`), load the counter, compare-and-swap it (`ClaimSequence`,
`LoseSwap`), announce the final claim, wait for `admissionStopped`, start
(context, `active.Add(1)`), record the maximum, run, finish (`active.Add(-1)`),
classify, send. The coordinator has one action per case of its select
(`lifecycle.go:394-449`); the two cases that read `active` and then cancel are
split there, because a worker can run in between (`AnchorDrain` or
`ReceiveDrainTimer`, then `ExpireDrain`). A select with several ready cases
takes any of them.

- `phaseCause`, `requestCause`: `context.Cause`. The first cause is kept.
  `CancelParent` sets the parent's Err and `PropagateParent` hands it to the
  phase context as a separate step. Whether a goroutine can observe the gap
  depends on the Go release (older ones hold the parent's lock while they cancel
  children); the model allows it, which includes the behaviours without a gap.
- `drainExpired`: "the final claim was longer than the drain timeout ago". This
  one bit is all that the code's clock decides here; it is set at any time after
  the final claim.
- `resultsCh`: the buffered channel, in order, with the capacity of the code.
- `RunRequest` chooses any error a server can cause, with or without a
  cancelled context: a response that completed wins over a late cancellation.
- `LoseSwap` goes straight back to the check of the context, which is the next
  thing the loop in `claimNext` does.
- `plan` says which of the three kinds of phase this is: warmup (no boundary), or
  measured without or with a drain timeout.

### OpenLoopPhase

The scheduler is `lifecycle.go:565-683`, one action per decision; request
goroutines, collector and waiter are those of lines 498-561 and 618-623. `now` is
a discrete clock that may advance between any two steps, so a scheduler, a timer
or a goroutine may be arbitrarily late. `Offset(s)` is `ArrivalOffsets` without its rounding (see `Admission`);
`OpenLoopAssumption` is what `DurationArrivalOffsets` checks: a measured schedule
holds exactly the arrivals before the deadline. The order of `Completed` is left out
(the code sorts nothing and no caller depends on it): `collected` is a set.

### Lifecycle

`step` is the position in Run, then in Execute. A phase begins (`BeginPhase`),
takes any steps `PhaseContract!Next` allows while `Callbacks` writes the
transitions and the drain flag that the code's callbacks write, and its verdict is
taken (`LeaveWarmup`, `LeaveMeasurement`). `CollectMeasurement` is the last look at
the parent at `lifecycle.go:278-283`, a step of its own because Ctrl-C can come
just before it. `ClassifyRun` is `classifyRun`; `Acceptable` is the part of
`validateMetadata` a run's outcome can decide; the whole of it is in `RunEvidence`. `AllAttempted` compares with the
plan's numbers, as both do. Ctrl-C after Run has returned is ignored, as in the code.

### Sweep

`step` is the position in `experiment.Runner.Run` (`run.go:36-131`), in `Execute`
within it, or in `Publish`. The state that matters is the disk: `child[p]` is
the directory of a point's run under `runs/` (absent, staged or published),
`tree` and `files` are the experiment's own directory. `Faults` names the
operations that may fail; each may then fail at every call or succeed. `Kill` stops the process between
any two operations. `CleanChild` and `Abort` are the deferred `os.RemoveAll` calls, whose errors
the code drops; the history variable `removalFailed` remembers one. `record` and
`manifest` are the manifest's dispositions and status, `ValidPublication` is what
`validatePublication` compares between them and the directory. Its other
checks compare fields that Run copied from the same plan or child.

`NothingLeftBehind` speaks of Run's return: whichever step failed, an error and no directory, or neither.
A killed process returns nothing and may leave its staging directory; what holds of it is that no
reader sees half an experiment, which is `ImplementsStore`.

### Calibration

The wrapper that calibration puts around `Execute` (`calibration/run.go:89-104`)
numbers the calls and keeps the resources and the child under that number:
`CallExecute` and `ExecuteReturns` join its assignments to the sweep's own steps.
The rest of Run (`EvaluatePoints`) and `Writer.Write` follow once the
sweep has returned. The delivery verdict of a completed run is any here
(`RunEvidence` has it); the other runs are not clean.

`Sampler` is `Sampler.Measure` (`calibration/sampler.go`): the goroutine takes a
sample and only then the lock (`TakeSample`, `UpdatePeak`), so the operation can end
in between; `SeeStop` is the select's other case, which a ready ticker may beat any
number of times up to `MaxTicks`. A sample is one number of `Readings`. `Calibration`
joins it to the sweep: `CallExecute` starts a measurement, `ExecuteEnds` is
`Execute`'s return to it, and `ExecuteReturns` waits for the goroutine.

`EvidenceStore` is the abstract specification, seen by a reader of the
output directory: an experiment appears in one step, whole and consistent, and
never changes; a calibration appears only next to an experiment with which it agrees.
It mentions neither staging nor failures nor kills.

### StreamClient and RequestStream

`StreamClient` is `Client.Execute` with `parseSSE` and its data handler, under
`Runner.RunRequest`. `pc` is the position in Execute. The response is a queue of
lines (`sent`, `read`) that somebody else writes; a line is blank, data with a
body, or other; a body is a kind (an event, `[DONE]`, broken JSON, padding) and a
size in which the prefix of a data line counts 1, so that `MaxFrame` is met from both
sides. `GotFirstResponseByte` is the `httptrace` callback on the transport's goroutine: it
may come before, between and after Execute's own steps, and what it heard enters the
observation when Execute takes it. A callback heard before Do returned must not be lost
when Do fails, and one that comes later must change nothing: both are
`ObservationSealed`. `CancelRequest` is the request's context, at any moment. Time is a small clock of offsets from the request's start.

`RequestStream` adds the peer: the fake server's handler in every configuration
its validation accepts (`Fixtures`), or any other server, which writes whatever
lines it likes, closes or breaks the connection, or goes silent. What a stream means
is defined there a second time, without the client: `Parsed` folds `ParseLine` over
the lines, `Frames` are its results, and `Complete` says which are a whole answer. The
properties compare what the client did with that. `MaxFrame` is at least 4 units, so that a
frame of the fake server always fits: the limit of the code is a megabyte.

`RequestMetrics` is `metrics.Calculate`: a metric is unavailable or a fraction
<<numerator, denominator>>, never a rounded number.

### Admission, Configuration, RunSummary, RunEvidence

These are the pure parts, as operators. `Collections` has what they share: one function laid
over another, and the elements of a sequence at some of its indices, in order.

- `Admission`: `AdmitRun`, the planned count and the offsets. float64 is a
  binary number of `Precision` bits with rounding to even at every quotient and product,
  as in the source, only shorter; a second is `Second` ticks. A planned count of 0 stands
  for the error of `PlannedArrivalCount`.
- `Configuration`: a configuration is a value per setting and the set of settings that
  somebody gave (`TypedSettings`: numbers, texts and lists of numbers); defaults, file and
  flags are laid over each other in the code's order, and `Valid` is every check on a setting or a combination. Numbers are scaled
  down with their order kept. Text is missing, good or bad. A YAML file
  that cannot be decoded is one that is refused. The plan of a sweep is the
  product of its axes.
- `RunSummary`: `aggregate.Calculate` with its validation. `MaxInt` is the largest
  integer, so a total can overflow. The nearest rank is the integer ceiling; the
  source computes it as a float product, which is exact below 2^46 samples. Means
  are left out.
- `RunEvidence`: what `Execute` makes of a lifecycle's result, `classifyRun`, the
  relations that `validateRequests`, `validateMetadata` and the arrival validators
  demand, and `EvaluateEvidence`, the calibration's delivery verdict. Checks of one field alone
  (an identifier's form, a timestamp that is not zero) are left out.

### WorkloadBuilder

`DeterministicBuilder.Build` over the vLLM tokenizer. Each call of the service
is one step that answers any count and any `max_model_len`, or fails: neither
additivity nor stability of the service is assumed. `bStep` is the loop Build is in; a
prompt is the sequence of blocks it was put together from. `answered` and
`lengths` are history: the last answer, and all lengths answered.

### Bench

One invocation: `step` is the position in the command and in `Execute`. Arguments,
file, flags and environment are fixed at the start. `CancelledInSetup`, `CancelledInWarmup`
and `MeasurementReturns` give any result
that `PhaseContract` and `Lifecycle` allow in the configured load mode: outcomes per
request, dispositions per arrival, drain, error and stop reason. The observation of a
request is one of `Observations`, which are what the stream client can make
(`ObservationAssumption`: times from the start on, counts that are counts, no usage that
is negative); the lags of started arrivals are `Lags` in turn, any sequence of numbers. From
there on everything is a function of the code's: metadata, classification, summary,
the writer's verdict, the exit status. A sweep or calibration is followed to its plan.
`BenchMC` holds the inputs for TLC.

### Mutated definitions

Next to some definitions stands a variant whose comment begins with "Wrong:". It is a plausible
bug in the code that the definition models. No specification uses it; it exists to
confirm that the property it is paired with in `PROJECT.json` fails when it replaces
the definition.

## What the runs check

| Run | Instance | Shows |
|---|---|---|
| `ClosedLoop` | 2 workers, 2 requests, warmup, measured and timed, fairness | claims conserved, final request after the boundary, drained on return, cancellation reported and reaching requests; every phase returns; `PhaseContract` is implemented |
| `OpenLoop` | 3 arrivals due within the first tick, 1 slot, deadline 1, drain 1, both phases, fairness | in-flight bound, arrivals accounted (lost ones a suffix, a clean return complete), drain ends requests and reports its timeout; every phase returns; `PhaseContract` is implemented |
| `LifecycleRun` | both modes, with and without warmup, 2 requests each | legal transitions, clean start of measurement, honest status, which runs the writer refuses |
| `CalibratedSweep` | 3 points, every operation may fail, Ctrl-C and kill at any step, 2 ticks of the sampler per run | records and child directories agree at every step, why a sweep is refused, nothing left behind, exit status 0 only for complete evidence, the calibration is accepted, the resource evidence covers every sample, `EvidenceStore` is implemented |
| `RequestStreamRun` | every fixture of up to 3 chunks, other servers of up to 3 pieces, frames of up to 4 units, cancellation at any step | the verdict and its meaning, the evidence kept, the frame limit, when token timings are proven, gaps that add up, an observation that keeps a first byte heard in time and is sealed once it is handed over; a request ends |
| `BenchRun` | the files, flags, arguments and environments of `BenchMC`, every lifecycle result of up to 2 requests per phase | precedence, exact prompts, evidence that is never refused but in one case, percentiles, totals, objectives, exit status, the delivery verdict; the prompt search ends |
| `ClosedLoopDrainExpiry`, `OpenLoopWarmupCancel`, `LifecycleEvidence`, `SweepInterrupted`, `ArrivalSchedule`, `WarmupDelivery` | smallest instance | a statement of README.md or of a comment that the code does not keep (below) |

Bounds, and why they are enough.

- *Closed loop.* Workers are interchangeable and interact through one counter, one
  count and one channel. Two workers produce every race between two of them, and two
  requests make one worker the final claimer while the other is anywhere in
  the first. The proofs below remove these bounds for safety and for the refinement.
- *Open loop.* Three arrivals on one slot give started and dropped ones in any
  order, arrivals lost to the deadline, and a horizon just past the drain deadline
  lets every comparison with the clock come out both ways; the clock stands still at
  the horizon, where nothing depends on it any more. A scheduler that wakes late is
  included since ticks are free. These bounds, too, are removed by proofs.
- *Lifecycle.* Two requests per phase allow one to succeed and one to fail in any way.
- *Sweep and calibration.* Three points give one before, one at and one after the
  point where something happens, and numbers that can slip past a point without a
  child. Two ticks give a sample that is recorded and one that is pending when the
  operation ends. Proofs remove both.
- *Request stream.* Three chunks are the least with two gaps, a batch beside a
  singleton, and a missing ID in the middle. A frame of 4 units can be filled
  exactly, by one line or by several, and exceeded by one. A clock of one tick
  separates before from after; times are only compared and subtracted.
- *Bench.* Two requests per phase, as above, with observations of three chunks, one chunk, large
  and inconsistent usage and none. `MaxInt` 12 is small enough for two of them
  to overflow. A float of 7 bits makes an inexact quotient as likely among two
  or three arrivals as 53 bits do among many.

Deadlock is checked in every run but one: `Terminated` is the stuttering of a phase or
process that has ended, so a state with no successor is a goroutine that waits for
ever. `RequestStreamRun` does not check it, since a server may go silent for good;
there, `RequestEnds` says what the client owes.

Fairness. Goroutines that can run do run: each worker, the coordinator or scheduler,
collector and waiter (`FairSpec` of both phases), the steps of Execute and the
callback (`RequestStream`), the prompt search and its return (`Bench`). Timers
fire, and a cancellation reaches derived contexts. Nothing makes a server answer: in the
phases, `RunRequest` is weakly fair only once the request's own context is done, when
the HTTP client returns, and in `RequestStream` only the fake server's own handler is
fair; against another server a request ends once it is cancelled. Ctrl-C is never bound to come. A
coordinator's select is treated as one fair process, so the code gets no help from a
fair choice among ready cases.

## Where the code and its documents differ

Each is a run that TLC refutes; the counterexamples are short and follow the code.

1. `ClosedLoopDrainExpiry`. The drain timer cancels only if `active.Load() > 0`
   (`lifecycle.go:436`) and fires once. If it is served after the final claimer was
   released and before its `active.Add(1)`, nothing is cancelled and the last
   request runs without a drain bound, against README.md:464. Its own
   request timeout still ends it, which is why `PhaseReturns` holds.
2. `OpenLoopWarmupCancel`. An open-loop warmup does not look at its parent while or
   after it waits for its requests (`lifecycle.go:625`). Requests that Ctrl-C
   ended then leave no error, and Run goes on to measurement, against README.md:466.
   `PhaseContract!Return` allows it for the open loop only, and
   `CancelledWarmupSkipsMeasurement`, a part of `MeasurementStartsClean`, is
   stated for the closed loop only.
3. `LifecycleEvidence`. Ctrl-C that comes between a measured phase's successful
   return and the look at `lifecycle.go:279` marks the drain as cancelled
   without an error. `classifyRun` says completed, the validator refuses a
   completed run with a cancelled drain, and the run is lost, against README.md:942.
   `RejectedOnlyWhenCancelledLate`, a part of `PublishedStatusIsHonest`, and
   `EvidenceNeverRefused` show that this is the only way a finished run is refused.
4. `SweepInterrupted`. Ctrl-C that comes after the last child run was published
   makes the sweep cancelled (`experiment/run.go:107`) although every point was
   executed and none was cancelled. `validatePublication` refuses that combination
   (`experiment/writer.go:168-171`), and the deferred `Abort` deletes all child
   runs, against README.md:306-308. `RefusalExplained` shows that only this and a directory
   that could not be removed make a sweep fail its own validator.
5. `ArrivalSchedule`. An offset is the floor of a float quotient that was already
   rounded, so it can be one nanosecond more than the formula's (`schedule.go:40`
   against its comment at 29-30 and README.md:518-519). At the last arrival it can
   reach the duration, and a legal configuration is refused: a rate of 1.1 over 90s
   plans 100 arrivals, the last at exactly 90000000000 ns. So do 2.2 over 45s, 2.7 over
   90s and 4.9 over 50s.
6. `WarmupDelivery`. `classifyRun` (`executor.go:242`) never looks at the arrivals that
   an open-loop warmup dropped, so such a run exits 0, against README.md:950-952.

## What is proved

For all values of the constants that satisfy each module's assumptions, which say
what configuration validation enforces (positive counts, known plans, a schedule within
its window) or what a bound of the model is. TLC evaluates each assumption in a run.

| Theorem | Module | States |
|---|---|---|
| `TypeCorrect`, `ActiveCorrect` | `ClosedLoopPhaseProofs` | `[]TypeOK`: the counter stays within the limit, the channel within its capacity; the active count is exact |
| `PhaseInvariant` | | `[]PhaseInv`, the inductive invariant |
| `ClaimsConservedCorrect`, `FinalRequestCorrect`, `DrainedCorrect`, `CleanReturnCorrect`, `CancellationReportedCorrect`, `CancellationReachesCorrect`, `CauseKeptCorrect` | | every safety property of the closed loop, and that the first cause is kept (an action property) |
| `ContractCorrect` | | `ClosedLoopPhase` implements `PhaseContract` |
| `PhaseInvariant`, `TypeCorrect`, `InFlightCorrect`, `ArrivalsAccountedCorrect`, `DrainEndsCorrect` | `OpenLoopPhaseProofs` | the inductive invariant and every safety property of the open loop |
| `ContractCorrect` | | `OpenLoopPhase` implements `PhaseContract` |
| `RunInvariant`, `TransitionsCorrect`, `MeasurementStartsCleanCorrect`, `PublishedHonestCorrect` | `LifecycleProofs` | the inductive invariant and every safety property of a run, for every number of requests and both modes |
| `ObservationSealedCorrect` | `RequestStreamProofs` | a first byte heard before Do returns is merged and kept, and the observation never changes once the request has returned (an action property) |
| `StreamInvariant` | | `[]StreamInv`, the inductive invariant of a request, types included |
| `FrameBoundedCorrect`, `StreamVerdictCorrect`, `EvidenceKeptCorrect`, `GapsSpanContentCorrect`, `ITLProvenCorrect`, `FixtureVerdictCorrect` | | every safety property of a request, for every frame limit, any number of lines, chunks and events |
| `SweepInvariant`, `EvidenceRecordedCorrect`, `RefusalExplainedCorrect`, `NothingLeftCorrect`, `SuccessCorrect` | `CalibrationProofs` | the inductive invariant and every safety property of a sweep, for every number of points and set of faults |
| `CalibrationInvariant`, `SamplesCorrect`, `AcceptedCorrect`, `CompleteCorrect` | | the calibration's invariant; its resource evidence, its acceptance, its exit status |
| `StoreCorrect` | | `Calibration` implements `EvidenceStore` |
| `SortedIs`, `DistributionIs`, `TokensAre`, `ObjectivesAre` | `RunSummaryProofs` | what a summary's parts say of any requests: sorting, nearest ranks, totals, the partition by objectives |
| `BuilderInvariant`, `PreparedIsExactCorrect` | `BenchProofs` | the prompt that is sent is the prompt last counted, at its target, under one model length that fits it, for every tokenizer |
| `CommandInvariant` | | `[]CommandInv`, the inductive invariant of a command |
| `PreparedForTheRun`, `PrecedenceKeptCorrect`, `EvidenceNeverRefusedCorrect`, `ExitStatusHonestCorrect`, `PercentilesAreNearestRanksCorrect`, `TotalsAreExactCorrect`, `SLOPartitionCorrect`, `DeliveryAgreesCorrect` | | every safety property of a command, for all inputs, numbers of requests and arrivals, lags, objectives and observations |
| `DeliveryAgreesOnEveryBudget` | | `DeliveryAgrees` for every lag budget; TLC tries no budget, 1 and 2 |

The arguments.

*Closed loop.* `TypeOK` is not inductive: `active \in 0..WorkerCount` holds because
`active` counts a set of workers, and results have their types because of where
their worker stands. `TypeInv` adds `ActiveIsExact` and `WorkerState`; the
count is handled with the cardinality theorems in `StartIsCounted` and
`FinishIsCounted`. The safety properties need more. That a clean return is complete
depends on why workers quit (`QuietInv`: the counter is exhausted or the phase is
cancelled), on what a phase's cause implies (`CauseInv`), and on the parent being
reported before or at the return (`ReportInv`). That outcomes agree with the error
needs what an outcome proved when it was classified (`OutcomeInv`, kept on its way
through the channel). That the last request waits needs what `admissionStopped`
and the coordinator's position imply (`BoundaryInv`). Claims need `ClaimInv`, where
`SendDelivers` and `ReceiveKeepsDelivered` carry the two halves of a delivery.

*Open loop.* Two counts are kept by different goroutines, so `CountInv` ties each
to the set it counts and `StartInv` ties goroutines to started arrivals. `FateInv` says
how far the schedule is and which arrivals the deadline took; `DeliveryInv`
that a finished request is in the channel or collected; `QuietInv` when the channel
may be closed; `BoundaryInv` how far the scheduler came; `ErrorInv` and `CauseInv`
what an error or a cause proves. `ArrivalsAccounted` then is a statement about
the cardinalities of a partition of the arrivals.

*Contracts.* To each action of a phase corresponds one of `PhaseContract`
or a stutter: a claim or a start is `Admit`, a collected result `Finish`, and so on. What the
phase's own invariant lacks is the tie between what was reported and the
verdict (`VerdictInv`), and for the open loop between a result and its outcome
(`ResultInv`). `ReturnRefines` is the step that needs everything.

*Lifecycle.* The properties look at a whole transition log and at results that were
written steps ago, so the invariant ties both to the position in Run. `RunTypeOK` has
the log legal and ended by the current phase, which makes the next transition legal;
`StopInv` that a stop without a cancelled drain is the request limit's; `BeforeInv` what holds
before and during each phase, `PhaseState` being what a phase's statuses, boundary
and callbacks have in common; `ResultInv` what is left of `PhaseContract!Return` in
the results; `LateInv` and `ClassInv` carry the drain flag and the classification to the
writer. A step of a phase is a step of `PhaseContract` with the
callbacks beside it: `WarmupSeen` and `MeasurementSeen` reduce both instances to one
form (`SeenStep`), and `PhaseKeeps` is proved once for it. `RefusesOnlyLate` compares
classification and validator case by case.

*Folds.* Every sum, filter and parser of a request's models is a left fold. The
library defines it by a recursive function over subsets of the domain, about which the
provers know nothing; its induction theorems take an operator and cannot be
used. `FoldLemmas` therefore has induction on sets instead: a set that holds 0 and every successor
holds every number (`NatInduct`, from the well-foundedness of `<`), one that holds
`<<>>` and every extension holds every sequence (`SeqInduct`). `FoldExists` builds the
recursive function level by level, `FoldPrefix` shows that two such functions agree where they
meet. Its parameters `Base` and `Op` are constants of the module, so each fold is an
instance: `Sums`, `Parses`, `Contents`, `Tokens` of a request, `Sorts`, `Joins`, `Usages` of a
summary. `Sorts!Fold(s)` and the library's fold are the same expression once both are expanded,
which lemmas such as `SortedFold` say once. Its `FoldEmpty` and `FoldAppend` are lemmas about any
operator: they say nothing of the code, and the theorems about requests and summaries rest on them.

*Request stream.* `Arrived` is the reference parser's state on the lines read so far and
`Answer` its frames. `ProgressInv` says that the client's `frame` is the parser's open
frame; `FrameInv` that its counted bytes are the size joined; `EvidenceInv` that event
i is what frame i says (`Noted`), at most one frame behind; `AcceptedInv` what each frame
that was taken satisfies and where usage came from; `EndedInv` what each error proves of the next
frame; `TimesInv` and `ContentInv` the order of times and the first and last
content. `HandledCases` splits the data handler once for all of them. `StreamVerdict` then
compares `EndedInv` with `Complete`: each refusal names the frame that spoils the
stream. `GapsTotal` is the telescoping sum, by induction on events; `TokensCounted`
that, with one token in each token event, the sum of tokens, the number of token events and the
number of events that carry tokens are the same. For `FixtureVerdict`, `FixtureInv` adds that
the fake server has written a prefix of its script, two lines to a frame (`Written`), and that
the parser's frames are that prefix (`Collected`); `ScriptShape` places role, chunks,
finish, usage and `[DONE]` in it for every configuration. The error follows from
where `[DONE]` is (`ScriptDone`), the number of latencies from which events carry tokens
(`FixtureTokens`, `CarryingInterval`).

*One writer.* `ObservationSealed` looks at steps. That both returns of Do merge the byte heard by then
and no other step touches it is `FirstByteStep`, a case per action; it needs the types of the
invariant, since a handled frame must give back an observation, and `HandledCases` for the handler.

*Prompt search.* `LengthInv` (one length was ever answered, and it is the one
remembered), `FitInv` (it holds the workload) and `AnswerInv` (what is returned is what
the last answer was about).

*Sweep.* `LoopInv` places the current point's directory by the position in Execute,
and says that it has no record yet; `StagedInv` that a staged directory belongs to the
run in progress unless a removal failed; `TreeInv` how long the tree is staged;
`RecordInv` that a cancellation in a record is known to the loop; `FinishInv` why the loop
ended and what status follows; `PublicationInv` that the steps after the validator are
valid still. `RefusalReasons` is the argument behind `RefusalExplained`: without a
failed removal directories and records agree, so the refusal is about the status,
and of the three statuses only the cancelled one can be inconsistent.

*Calibration.* The sweep's invariant is kept because each step of the calibration is a
step of the sweep or leaves it alone (`OutsideStep`). `SamplerInv` counts a pending sample
apart from the recorded ones (`Recorded`); `WrapperInv` ties the counter of calls
to the loop's point, so that number and point never slip; `ManifestInv` follows the
writer. For `EvidenceStore`, only two renames are seen by a reader: `CommittedWhole`
and `CommittedAgrees` show what is renamed, `FinalStays` that nothing is
taken away.

*Summaries.* A percentile is stated without sorting: as many samples at most it as the
percentage asks for, and fewer below it. `SortedIs` is an induction over insertions: an
inserted sample has one place (`InsertedAt`), the order survives it, and the numbers of
samples at most and below any value grow as they should (`IndexAdded`, `CountAppend`).
In an ascending sequence these numbers bracket every index (`RankOfSorted`), and `NearestRankIs`
is the integer fact about the ceiling; fractions are compared by cross-multiplication
(`BelowOrders`), so the order is shown to be one. `Summed` is the invariant of the token fold:
while nothing was refused each accumulator is the sum so far and fits, and a refusal has a
request whose usage does not add up or a prefix whose total is too large; totals only grow,
so a prefix that is too large makes the whole so. The objectives are a partition of indices, and
`ThoseCounted` says that a selection from a sequence counts the indices it was made from.
Selections have no recursion: the k-th element is at the index of rank k
(`RankOnto`, `RankInjective`).

*A command.* None of the properties of `Bench` is inductive: they relate the end of
a run to inputs that were read long before. `CommandInv` keeps what connects them.
`ConfigInv`: up to the key, the configuration is the resolution of the inputs and the points
are its expansion. `PlanInv`: what is launched came from a valid configuration (`PlanOK`,
proved in `ValidPlan` from every check of `Valid` and `AdmitRun`), and the workload is
one that the writer accepts once it was prepared (`BuilderInv`, `FitInv` give the prompt's
length). `RunInv`: a run that ended is what `Execute` makes of a result that the lifecycle may
return (`RunOK`). `VerdictInv`: a summary is the summary of this run, and the exit status
follows from who refused what.

`EvidenceNeverRefused` is the long one: each relation that the writer or the aggregator
demands is derived from what a phase may return. `FatesOK` says what each request's fate
is, `CompletedOf` and `ArrivalsOf` what `Execute` keeps of it, and `CountsOf` ties the phase's counts
to the four classes of fates, whose cardinalities add up (`PartsAdd`). `PhaseOK` collects this per phase,
`ResultOK` for the two phases and the verdict, `EvidenceOf`, `MetadataOf` and `RecordOf` for the
artifacts made of them. `ArtifactsMatch`, `RequestsAccepted`, `StatusIs`,
`EvidenceAggregates` and `EvidenceAccepted` then take the validators in turn. What is left is the
one line of `StatusConsistent` about a cancelled drain, where the proof needs the hypothesis
that no cancellation went unreported; without it the writer refuses, which is finding 3.

`ExitStatusHonest` follows the counts of a completed run through the summary.
`DeliveryAgrees` compares `DeliveryReasons` with the lags of the started arrivals, by way
of the percentile: 95 of 100 are in time exactly when the 95th percentile is
(`DistributionIs`). `PrecedenceKept` has two halves. That each setting comes from the right source
is a statement about `Overlay`, and about `supplied`, which `Resolve` and the axes must
not lose: a setting of the other load mode is then refused. That the points are the product of the axes,
each combination once, is arithmetic: the k-th point has as its positions on the axes the digits of
k - 1 in a mixed radix (`PointIs`), digits determine the number (`DigitsAre`) and every
combination of digits is a number in range (`DigitsOf`).

A setting of the other load mode that a file or flag gives is refused, with one exception that
the proof brought out: `bench` neither expands nor looks at the axes of its file, so an axis of
the other mode is ignored there, and `NothingIgnored`, the last part of `PrecedenceKept`, excepts it.
What the proofs take of the inputs is assumed by name in `Bench` (`InputAssumption`,
`ObservationAssumption`, `LagAssumption`), with the code's reason beside it.

Only model-checked: liveness (`PhaseReturns` of both phases, `RequestEnds`, `SearchEnds`), which
depends on fairness and is outside the prover's reach. The runs that
expect a violation are counterexamples and need no proof. Every other property of
a passing run is a theorem.

## What is not modelled

- Timestamps' formats, identifiers, and the encoding of the files: no decision
  depends on them. Checks of a single field in the writers, for the same reason.
- The writer's comparisons of timestamps (`artifacts/writer.go:366-383, 416, 652, 666`): each
  pair it compares is one boundary time that the lifecycle took once and that was passed on unchanged.
- Elapsed time as a number: in `Bench` a phase that ran has lasted 4 and one that was skipped 0. So
  the summary's branch for no elapsed time is taken only without completed requests; a
  request that went over HTTP has taken time. `BenchProofs` uses no more than that: elapsed
  is positive if a request completed.
- A schedule that the lifecycle itself would refuse: admission has built the same schedule
  from the same configuration before.
- Means of distributions, CSV columns, printed reports, YAML syntax.
- A callback that returns an error (`lifecycle.go:404, 430`): the callbacks fail
  only if a transition is refused, and `TransitionsLegal` shows none is.
- Panics, and requests whose construction fails before they are sent: those are
  request errors to the phase.
- The HTTP transport: it is the environment of `StreamClient`. Listening,
  shutdown and the command of the fake server, and its tokenizer, which is one
  of those `WorkloadBuilder` allows.
- That a phase's cancelled verdict may be overwritten by the drain timer
  (`lifecycle.go:438`) is in the model, and `CancellationReported` is stated so that
  either cause explains an outcome.
- `src/experiments` holds earlier lab results, no part of the program.

## What could follow

1. The composition of `RequestStream` with a phase, where now a phase takes any answer.
2. The fake server's listening and shutdown.
3. Means of distributions, as fractions, beside the percentiles.
