---------------------------- MODULE Configuration ----------------------------
(***************************************************************************)
(* The configuration of a command: built-in defaults, a YAML file, the     *)
(* flags of the command line (src/internal/config, resolveRunConfig,       *)
(* resolveSweepConfig and resolveCalibrationConfig in src/cmd/slentore)    *)
(* and the plan of a sweep (src/internal/experiment/plan.go).              *)
(*                                                                         *)
(* A configuration is [values, supplied]: a value for each setting, and    *)
(* the settings that somebody gave.  A file or the flags give a function   *)
(* on some of the settings.  Text is "" when missing, "bad" when not       *)
(* acceptable where it is parsed.  A number that must be positive is       *)
(* refused as 0, like every smaller one.                                   *)
(***************************************************************************)
EXTENDS Admission, Collections

NoThreshold == -1

(* the numbers are scaled down, with their order kept                      *)
Default ==
  [base_url |-> "", api_key_env |-> "", model |-> "",
   prompt |-> "", max_output_tokens |-> 1, temperature |-> 0,
   workload_mode |-> "prompt", input_tokens |-> 0, tokenizer_adapter |-> "",
   tokenizer_url |-> "", timeout |-> 1, drain_timeout |-> 1, output_dir |-> "runs",
   mode |-> "closed_loop", concurrency |-> 1, requests |-> 1, warmup_requests |-> 0,
   request_rate |-> 0, duration |-> 0, max_in_flight |-> 0, token_timing |-> "disabled",
   slo_ttft |-> NoThreshold, slo_tpot |-> NoThreshold, slo_e2e |-> NoThreshold,
   max_concurrency |-> 2, max_requests |-> 2, max_request_rate |-> 2 * RateUnit,
   max_in_flight_ceiling |-> 2, max_input_tokens |-> 3, max_output_tokens_ceiling |-> 2,
   concurrency_values |-> <<>>, request_rate_values |-> <<>>, input_token_values |-> <<>>,
   output_token_values |-> <<>>, max_points |-> 2]

Axes == {"concurrency_values", "request_rate_values", "input_token_values",
         "output_token_values"}

Texts == {"base_url", "api_key_env", "model", "prompt", "workload_mode", "tokenizer_adapter",
          "tokenizer_url", "output_dir", "mode", "token_timing"}

(* what a file or the flags may give                                       *)
TypedSettings(given) ==
  /\ DOMAIN given \subseteq DOMAIN Default
  /\ \A s \in DOMAIN given :
       /\ s \in Axes => given[s] \in Seq(Int)
       /\ s \notin Axes \cup Texts => given[s] \in Int

Calibrated == {"base_url", "model", "api_key_env", "mode", "requests", "duration",
               "max_in_flight", "warmup_requests", "timeout", "drain_timeout", "output_dir",
               "max_concurrency", "max_requests", "max_request_rate",
               "max_in_flight_ceiling", "concurrency_values", "request_rate_values",
               "max_points"}

(* the flags a command registers                                           *)
Flags(command) ==
  CASE command = "bench"            -> DOMAIN Default \ (Axes \cup {"max_points"})
    [] command = "sweep"            -> DOMAIN Default
    [] command = "calibrate-client" -> Calibrated

(***************************************************************************)
(* Resolution                                                              *)
(***************************************************************************)

OpenLoopSettings == {"request_rate", "duration", "max_in_flight"}

Tracked == OpenLoopSettings \cup
  {"prompt", "workload_mode", "input_tokens", "tokenizer_adapter", "tokenizer_url",
   "mode", "concurrency", "requests"}

Given(c, given) ==
  [values   |-> Overlay(given, c.values),
   supplied |-> c.supplied \cup (DOMAIN given \cap Tracked)
                \cup (IF DOMAIN given \cap OpenLoopSettings # {} THEN {"open_loop"} ELSE {})]

(* Load: an open_loop block counts as supplied even when it is empty       *)
Load(file) ==
  LET c == Given([values |-> Default, supplied |-> {}], file.given)
  IN  IF file.openLoopBlock THEN [c EXCEPT !.supplied = @ \cup {"open_loop"}] ELSE c

(* Wrong: flags first, the file over them                                  *)
FileLast(file, flags) ==
  LET c == Given([values |-> Default, supplied |-> {}], flags)
  IN  [Given(c, file.given) EXCEPT
         !.supplied = @ \cup (IF file.openLoopBlock THEN {"open_loop"} ELSE {})]

(* resolveRunConfig, and resolveSweepConfig's lists                        *)
Resolve(file, flags) == Given(Load(file), flags)

AxisOf == [concurrency       |-> "concurrency_values",
           request_rate      |-> "request_rate_values",
           input_tokens      |-> "input_token_values",
           max_output_tokens |-> "output_token_values"]

(* a scalar flag beside an active axis of the same setting                 *)
Conflicting(c, flags) ==
  \E s \in DOMAIN AxisOf : s \in DOMAIN flags /\ c.values[AxisOf[s]] # <<>>

CalibrationValues ==
  [prompt |-> "calibration", max_output_tokens |-> 1, temperature |-> 0,
   token_timing |-> "disabled", slo_ttft |-> NoThreshold, slo_tpot |-> NoThreshold,
   slo_e2e |-> NoThreshold]

ForCalibration(c) == [c EXCEPT !.values = Overlay(CalibrationValues, @)]

CalibrationAllowed(c) ==
  /\ c.values.workload_mode = "prompt"
  /\ c.values.input_token_values = <<>>
  /\ c.values.output_token_values = <<>>

KeyResolved(c, environment) ==
  c.values.api_key_env = "" \/ c.values.api_key_env \in environment

(***************************************************************************)
(* Validate                                                                *)
(***************************************************************************)

Url(text) == text = "url"

ValidEndpoint(v) ==
  /\ Url(v.base_url)
  /\ v.api_key_env # "bad"
  /\ v.model # ""

ValidTokens(v) ==
  /\ v.max_output_tokens > 0
  /\ v.max_input_tokens > 0
  /\ v.max_output_tokens_ceiling > 0
  /\ v.max_output_tokens <= v.max_output_tokens_ceiling

ValidThresholds(v) ==
  \A t \in {v.slo_ttft, v.slo_tpot, v.slo_e2e} : t # NoThreshold => t > 0

ValidWorkload(c) ==
  LET v == c.values
  IN  \/ /\ v.workload_mode = "prompt"
         /\ c.supplied \cap {"input_tokens", "tokenizer_adapter", "tokenizer_url"} = {}
         /\ v.prompt # ""
      \/ /\ v.workload_mode = "token_length"
         /\ "prompt" \notin c.supplied
         /\ v.input_tokens > 0
         /\ v.input_tokens <= v.max_input_tokens
         /\ v.tokenizer_adapter = "vllm"
         /\ Url(v.tokenizer_url)
         /\ v.input_tokens <= MaxInt - v.max_output_tokens

ValidBounds(v) ==
  /\ v.temperature >= 0
  /\ v.timeout > 0
  /\ v.drain_timeout > 0
  /\ v.output_dir # ""
  /\ v.warmup_requests >= 0
  /\ v.max_concurrency > 0
  /\ v.max_requests > 0
  /\ v.max_request_rate > 0
  /\ v.max_in_flight_ceiling > 0

ValidLoad(c) ==
  LET v == c.values
  IN  \/ /\ v.mode = "closed_loop"
         /\ "open_loop" \notin c.supplied
         /\ v.concurrency > 0
         /\ v.requests > 0
      \/ /\ v.mode = "open_loop"
         /\ c.supplied \cap {"concurrency", "requests"} = {}
         /\ v.request_rate > 0
         /\ v.duration > 0
         /\ v.max_in_flight > 0

Valid(c) ==
  /\ ValidEndpoint(c.values)
  /\ ValidTokens(c.values)
  /\ c.values.token_timing \in {"disabled", "vllm"}
  /\ ValidThresholds(c.values)
  /\ ValidWorkload(c)
  /\ ValidBounds(c.values)
  /\ ValidLoad(c)

(* benchmarkexec.ValidateStatic                                            *)
ValidStatic(c) == Valid(c) /\ Admissible(c.values)

(***************************************************************************)
(* BuildPlan                                                               *)
(***************************************************************************)

Applicable(v) ==
  /\ v.mode = "closed_loop" => v.request_rate_values = <<>>
  /\ v.mode = "open_loop" => v.concurrency_values = <<>>
  /\ v.mode \in {"closed_loop", "open_loop"}
  /\ v.workload_mode = "prompt" => v.input_token_values = <<>>
  /\ v.workload_mode \in {"prompt", "token_length"}

ValidAxis(values) ==
  /\ \A i \in DOMAIN values : values[i] > 0
  /\ \A i, j \in DOMAIN values : values[i] = values[j] => i = j

AxisOr(axis, scalar) == IF axis = <<>> THEN <<scalar>> ELSE axis

LoadSetting(v) == IF v.mode = "closed_loop" THEN "concurrency" ELSE "request_rate"

Inputs(v)  == AxisOr(v.input_token_values, v.input_tokens)
Outputs(v) == AxisOr(v.output_token_values, v.max_output_tokens)
Loads(v)   == AxisOr(v[AxisOf[LoadSetting(v)]], v[LoadSetting(v)])

PointCount(v) == Len(Inputs(v)) * Len(Outputs(v)) * Len(Loads(v))

(* buildPoint: the base with the values of one point; nothing becomes      *)
(* supplied                                                                *)
PointConfig(c, input, output, load) ==
  LET v == c.values
  IN  [c EXCEPT !.values =
         [v EXCEPT !.max_output_tokens = output,
                   !.input_tokens = IF v.workload_mode = "token_length" THEN input
                                    ELSE v.input_tokens,
                   ![LoadSetting(v)] = load]]

(* the points in order: the load varies fastest, the input slowest         *)
Points(c) ==
  LET v == c.values
      l == Len(Loads(v))
      o == Len(Outputs(v))
  IN  [k \in 1 .. PointCount(v) |->
         PointConfig(c, Inputs(v)[((k - 1) \div (l * o)) + 1],
                        Outputs(v)[(((k - 1) \div l) % o) + 1],
                        Loads(v)[((k - 1) % l) + 1])]

PlanAccepted(c) ==
  LET v == c.values
  IN  /\ \E a \in Axes : v[a] # <<>>
      /\ v.max_points > 0
      /\ Applicable(v)
      /\ \A a \in Axes : ValidAxis(v[a])
      /\ PointCount(v) <= v.max_points
      /\ \A k \in DOMAIN Points(c) : ValidStatic(Points(c)[k])

(* calibration.ValidatePlan                                                *)
CalibrationPlanAccepted(c, lagBudget) ==
  LET v == c.values
  IN  /\ v.mode = "closed_loop" => v.concurrency_values # <<>> /\ lagBudget = NoThreshold
      /\ v.mode = "open_loop" => v.request_rate_values # <<>>
      /\ lagBudget # NoThreshold => lagBudget > 0
=============================================================================
