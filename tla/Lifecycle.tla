------------------------------ MODULE Lifecycle ------------------------------
(***************************************************************************)
(* One benchmark run: LifecycleCoordinator.Run with finishLifecycle        *)
(* (src/internal/benchmark/lifecycle.go), then benchmarkexec.Execute's     *)
(* classification of the result (src/internal/benchmarkexec/executor.go)   *)
(* and the artifact writer's verdict on it (validateMetadata in            *)
(* src/internal/artifacts/writer.go).                                      *)
(*                                                                         *)
(* Warmup and measurement are phases that keep PhaseContract, one after    *)
(* the other in the same variables.                                        *)
(***************************************************************************)
EXTENDS Naturals, Sequences, FiniteSets

CONSTANTS
  Modes,              (* load modes the plan may ask for                   *)
  WarmupRequests,     (* warmup requests of a plan that has any            *)
  MeasuredRequests

ASSUME LifecycleAssumption ==
  /\ Modes \subseteq {"closed_loop", "open_loop"}
  /\ WarmupRequests \in Nat \ {0}
  /\ MeasuredRequests \in Nat \ {0}

VARIABLES
  plan,         (* LifecyclePlan: mode, warmupRequests; fixed              *)
  cancelled,    (* ctx.Err() # nil                                         *)
  (* the running phase, as PhaseContract sees it *)
  status, boundary, reported, verdict,
  (* Run *)
  step,         (* what Run, then Execute, does next                       *)
  transitions,  (* lifecycleState.transitions: phase and reason            *)
  warmup,       (* result.Warmup: status per request, <<>> when skipped    *)
  measurement,  (* result.Measurement, likewise                            *)
  drain,        (* result.Drain: timedOut, parentCancelled                 *)
  runErr,       (* the error Run returns, "none" or a phase's verdict      *)
  (* Execute *)
  runStatus,    (* metadata.RunStatus                                      *)
  errorClass    (* metadata.ErrorClass                                     *)

phaseVars     == <<status, boundary, reported, verdict>>
resultVars    == <<warmup, measurement, runErr>>
executionVars == <<runStatus, errorClass>>
vars == <<plan, cancelled, phaseVars, step, transitions, drain, resultVars, executionVars>>

OpenLoop == plan.mode = "open_loop"

Warmup == INSTANCE PhaseContract WITH
  Requests <- WarmupRequests,
  kind     <- [measured |-> FALSE, openLoop |-> OpenLoop]

Measurement == INSTANCE PhaseContract WITH
  Requests <- MeasuredRequests,
  kind     <- [measured |-> TRUE, openLoop |-> OpenLoop]

Outcome == Measurement!Outcome

Init ==
  /\ plan \in [mode : Modes, warmupRequests : {0, WarmupRequests}]
  /\ cancelled \in BOOLEAN
  /\ status = <<>>
  /\ boundary = "open"
  /\ reported = FALSE
  /\ verdict = "none"
  /\ step = "setup"
  /\ transitions = << [phase |-> "setup", reason |-> "lifecycle_started"] >>
  /\ warmup = <<>>
  /\ measurement = <<>>
  /\ drain = [timedOut |-> FALSE, parentCancelled |-> FALSE]
  /\ runErr = "none"
  /\ runStatus = "none"
  /\ errorClass = "none"

(* Ctrl-C; the executor no longer looks once Run has returned              *)
CancelParent ==
  /\ ~cancelled
  /\ step \in {"setup", "warmup", "measure", "measurement", "collect"}
  /\ cancelled' = TRUE
  /\ UNCHANGED <<plan, phaseVars, step, transitions, drain, resultVars, executionVars>>

(***************************************************************************)
(* lifecycleState                                                          *)
(***************************************************************************)

Current == transitions[Len(transitions)].phase

LegalTransition ==
  {<<"setup", "warmup">>, <<"setup", "stop_admission">>, <<"warmup", "measurement">>,
   <<"warmup", "stop_admission">>, <<"measurement", "stop_admission">>,
   <<"stop_admission", "drain">>, <<"drain", "artifacts">>}

Enter(phase, reason) == <<[phase |-> phase, reason |-> reason]>>

(* enterStopAndDrain: the first boundary is kept                           *)
StopAndDrain(reason) ==
  IF Current \in {"stop_admission", "drain"} THEN <<>>
  ELSE Enter("stop_admission", reason) \o Enter("drain", reason)

(***************************************************************************)
(* Run                                                                     *)
(***************************************************************************)

(* the variables of a phase that begins                                    *)
BeginPhase(requests) ==
  /\ status' = [s \in 1 .. requests |-> "pending"]
  /\ boundary' = "open"
  /\ reported' = FALSE
  /\ verdict' = "running"

CancelledInSetup ==
  /\ step = "setup"
  /\ cancelled
  /\ transitions' = transitions \o StopAndDrain("parent_cancelled_during_setup")
  /\ drain' = [drain EXCEPT !.parentCancelled = TRUE]
  /\ runErr' = "parent"
  /\ step' = "finish"
  /\ UNCHANGED <<plan, cancelled, phaseVars, warmup, measurement, executionVars>>

StartWarmup ==
  /\ step = "setup"
  /\ ~cancelled
  /\ transitions' = transitions \o Enter("warmup", "warmup_started")
  /\ IF plan.warmupRequests = 0
     THEN step' = "measure" /\ UNCHANGED phaseVars
     ELSE step' = "warmup" /\ BeginPhase(plan.warmupRequests)
  /\ UNCHANGED <<plan, cancelled, drain, resultVars, executionVars>>

(* the effect of the phase's callbacks on Run's state: the boundary is     *)
(* recorded when it is first reached, the cancellation whenever reported   *)
Callbacks(limitReason, parentReason) ==
  /\ transitions' = IF boundary' = boundary THEN transitions
                    ELSE transitions \o StopAndDrain(IF boundary' = "limit" THEN limitReason
                                                     ELSE parentReason)
  /\ drain' = [drain EXCEPT !.parentCancelled = @ \/ (reported' /\ ~reported)]

WarmupStep ==
  /\ step = "warmup"
  /\ UNCHANGED <<plan, cancelled>> /\ Warmup!Next
  /\ Callbacks("none", "parent_cancelled_during_warmup")
  /\ UNCHANGED <<step, resultVars, executionVars>>

(* Wrong: measurement begins without waiting for the warmup phase          *)
LeaveWarmupEarly ==
  /\ step = "warmup"
  /\ warmup' = status
  /\ step' = "measure"
  /\ UNCHANGED <<plan, cancelled, phaseVars, transitions, drain, measurement, runErr,
                 executionVars>>

(* Wrong: a warmup error does not end the run                              *)
LeaveWarmupRegardless ==
  /\ step = "warmup"
  /\ verdict # "running"
  /\ warmup' = status
  /\ runErr' = verdict
  /\ step' = "measure"
  /\ UNCHANGED <<plan, cancelled, phaseVars, transitions, drain, measurement, executionVars>>

(* a warmup error ends the run, failed warmup requests do not              *)
LeaveWarmup ==
  /\ step = "warmup"
  /\ verdict # "running"
  /\ warmup' = status
  /\ runErr' = verdict
  /\ step' = IF verdict = "none" THEN "measure" ELSE "finish"
  /\ UNCHANGED <<plan, cancelled, phaseVars, transitions, drain, measurement, executionVars>>

StartMeasurement ==
  /\ step = "measure"
  /\ transitions' = transitions \o Enter("measurement", "warmup_complete")
  /\ BeginPhase(MeasuredRequests)
  /\ step' = "measurement"
  /\ UNCHANGED <<plan, cancelled, drain, resultVars, executionVars>>

LimitReason == IF ~OpenLoop THEN "measured_request_limit_reached"
               ELSE "measurement_duration_elapsed"

MeasurementStep ==
  /\ step = "measurement"
  /\ UNCHANGED <<plan, cancelled>> /\ Measurement!Next
  /\ Callbacks(LimitReason, "parent_cancelled_during_measurement")
  /\ UNCHANGED <<step, resultVars, executionVars>>

LeaveMeasurement ==
  /\ step = "measurement"
  /\ verdict # "running"
  /\ measurement' = status
  /\ runErr' = verdict
  /\ step' = "collect"
  /\ UNCHANGED <<plan, cancelled, phaseVars, transitions, drain, warmup, executionVars>>

(* the drain fields of the result, with one more look at the parent        *)
CollectMeasurement ==
  /\ step = "collect"
  /\ drain' = [timedOut        |-> runErr = "drain",
               parentCancelled |-> drain.parentCancelled \/ cancelled]
  /\ step' = "finish"
  /\ UNCHANGED <<plan, cancelled, phaseVars, transitions, resultVars, executionVars>>

FinishLifecycle ==
  /\ step = "finish"
  /\ transitions' = transitions \o (IF Current = "drain" THEN <<>>
                                    ELSE StopAndDrain("phase_complete"))
                                \o Enter("artifacts", "drain_complete")
  /\ step' = "classify"
  /\ UNCHANGED <<plan, cancelled, phaseVars, drain, resultVars, executionVars>>

(***************************************************************************)
(* Execute                                                                 *)
(***************************************************************************)

Count(phase, S) == Cardinality({s \in DOMAIN phase : phase[s] \in S})

Attempted(phase)  == Count(phase, Outcome)
Failed(phase)     == Count(phase, Outcome \ {"succeeded"})
Undelivered(phase) == Count(phase, {"dropped"})

(* a closed-loop run that returned no error skipped nothing                *)
AllAttempted ==
  Attempted(warmup) = plan.warmupRequests /\ Attempted(measurement) = MeasuredRequests

(* Wrong: a parent cancellation hides a drain timeout                      *)
RunCancelledFirst == runErr = "parent" \/ drain.parentCancelled

(* errors.Is(runErr, context.Canceled), or a parent cancellation that no   *)
(* drain timeout hides                                                     *)
RunCancelled == runErr = "parent" \/ (drain.parentCancelled /\ runErr # "drain")

LoadLimited ==
  OpenLoop /\ ~drain.parentCancelled /\ Undelivered(measurement) > 0

(* classifyRun                                                             *)
ClassifyRun ==
  /\ step = "classify"
  /\ step' = "validate"
  /\ \/ /\ runErr # "none"
        /\ runStatus' = IF RunCancelled THEN "cancelled" ELSE "failed"
        /\ UNCHANGED errorClass
     \/ /\ runErr = "none"
        /\ LoadLimited
        /\ runStatus' = "failed"
        /\ errorClass' = "load_delivery_error"
     \/ /\ runErr = "none"
        /\ ~LoadLimited
        /\ runStatus' = IF \/ Failed(warmup) > 0
                           \/ Failed(measurement) > 0
                           \/ ~OpenLoop /\ ~AllAttempted
                        THEN "failed" ELSE "completed"
        /\ UNCHANGED errorClass
  /\ UNCHANGED <<plan, cancelled, phaseVars, transitions, drain, resultVars>>

StopReason ==
  LET stops == {i \in DOMAIN transitions : transitions[i].phase = "stop_admission"}
  IN transitions[CHOOSE i \in stops : \A j \in stops : i <= j].reason

(* validateMetadata, as far as Run's result decides it                     *)
Acceptable ==
  /\ OpenLoop /\ ~drain.parentCancelled =>
       StopReason = "measurement_duration_elapsed"
  /\ runStatus = "completed" =>
       /\ Failed(warmup) = 0 /\ Failed(measurement) = 0
       /\ ~drain.timedOut /\ ~drain.parentCancelled
       /\ ~OpenLoop => AllAttempted
       /\ OpenLoop => Attempted(measurement) = MeasuredRequests
  /\ errorClass = "load_delivery_error" =>
       /\ OpenLoop /\ runStatus = "failed"
       /\ Undelivered(measurement) > 0
       /\ ~drain.parentCancelled

(* WriteWithArrivals renames the staged tree into place, or nothing is     *)
(* left of the run                                                         *)
WriteArtifacts ==
  /\ step = "validate"
  /\ step' = IF Acceptable THEN "published" ELSE "rejected"
  /\ UNCHANGED <<plan, cancelled, phaseVars, transitions, drain, resultVars, executionVars>>

Terminated ==
  /\ step \in {"published", "rejected"}
  /\ UNCHANGED vars

RunStep ==
  \/ CancelledInSetup \/ StartWarmup \/ LeaveWarmup \/ StartMeasurement
  \/ LeaveMeasurement \/ CollectMeasurement \/ FinishLifecycle
  \/ ClassifyRun \/ WriteArtifacts

Next == RunStep \/ WarmupStep \/ MeasurementStep \/ CancelParent \/ Terminated

Spec == Init /\ [][Next]_vars

(***************************************************************************)
(* Properties                                                              *)
(***************************************************************************)

(* Whenever the two callbacks and finishLifecycle come, no transition is   *)
(* refused by legalTransition: a refusal would drop the whole result.      *)
TransitionsLegal ==
  \A i \in 1 .. Len(transitions) - 1 :
    <<transitions[i].phase, transitions[i + 1].phase>> \in LegalTransition

(* README.md:466 for the closed loop: a warmup that lost a request to the  *)
(* parent's cancellation is not followed by a measurement.                 *)
CancelledWarmupSkipsMeasurement ==
  step = "measurement" /\ ~OpenLoop => Count(warmup, {"parent_cancelled"}) = 0

(* Measurement begins on a quiet system: every warmup request has ended or *)
(* was dropped, a cancellation the result mentions was reported by the     *)
(* measured phase, not by a warmup that should have ended the run, and a   *)
(* closed-loop warmup lost nothing to a cancellation.                      *)
MeasurementStartsClean ==
  /\ step = "measurement" =>
       /\ \A s \in DOMAIN warmup : warmup[s] \in Outcome \cup {"dropped"}
       /\ Len(warmup) = plan.warmupRequests
       /\ drain.parentCancelled => reported
  /\ CancelledWarmupSkipsMeasurement

(* Exactly one kind of finished run is lost: the parent was cancelled but  *)
(* no phase returned an error for it.                                      *)
RejectedOnlyWhenCancelledLate ==
  step = "rejected" => cancelled /\ runErr = "none" /\ drain.parentCancelled

(* A published run that claims completion has nothing to hide in either    *)
(* phase, its drain or its schedule; a cancelled one says that its parent  *)
(* was cancelled; and a run goes unpublished in one case only.             *)
PublishedStatusIsHonest ==
  /\ step = "published" =>
       /\ runStatus = "completed" =>
            /\ Count(measurement, {"succeeded"}) = MeasuredRequests
            /\ Failed(warmup) = 0
            /\ ~drain.parentCancelled /\ ~drain.timedOut
       /\ runStatus = "cancelled" => drain.parentCancelled /\ ~drain.timedOut
  /\ RejectedOnlyWhenCancelledLate

(* README.md:942-945: once the lifecycle has started, cancellation and     *)
(* drain timeout preserve the available artifacts.                         *)
EvidencePreserved == step # "rejected"

=============================================================================
