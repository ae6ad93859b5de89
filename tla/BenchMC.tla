------------------------------- MODULE BenchMC -------------------------------
(***************************************************************************)
(* Bench for TLC: the arguments, files, flags and environments of a        *)
(* command, and the observations of its requests.                          *)
(***************************************************************************)
EXTENDS Bench, TLC

MCInvocations ==
  {[command |-> c, form |-> f, lag |-> NoThreshold] :
     c \in {"bench", "sweep", "calibrate-client"}, f \in {"options", "help", "wrong"}}
  \cup {[command |-> "calibrate-client", form |-> "options", lag |-> l] : l \in {0, 1}}

MCBench == {[command |-> "bench", form |-> "options", lag |-> NoThreshold]}

(***************************************************************************)
(* Files                                                                   *)
(***************************************************************************)

Endpoint == [base_url |-> "url", model |-> "model"]
Prompted == Endpoint @@ [prompt |-> "prompt"]

File(given)  == [status |-> "ok", given |-> given, openLoopBlock |-> FALSE]
NoFile       == File(<<>>)
RefusedFile  == [NoFile EXCEPT !.status = "refused"]

ClosedLoop == Prompted @@ [mode |-> "closed_loop", concurrency |-> 2, requests |-> 2]
TwoClosed  == ClosedLoop @@ [warmup_requests |-> 1]
OpenLoop   == Prompted @@ [mode |-> "open_loop", request_rate |-> RateUnit,
                           duration |-> 2 * Second, max_in_flight |-> 2]
WarmOpen   == OpenLoop @@ [warmup_requests |-> 1]
TokenLength ==
  Endpoint @@ [workload_mode |-> "token_length", input_tokens |-> 2,
               tokenizer_adapter |-> "vllm", tokenizer_url |-> "url"]
WithSLO    == ClosedLoop @@ [slo_ttft |-> 2, slo_tpot |-> 1]
Evidence   == ClosedLoop @@ [token_timing |-> "vllm"]
SweepClosed == Prompted @@ [requests |-> 2, concurrency_values |-> <<2, 1>>]
(* axes that are of no use to the load mode                                *)
IdleAxis    == Prompted @@ [request_rate_values |-> <<RateUnit>>]
SweepOpen   == OpenLoop @@ [request_rate_values |-> <<RateUnit \div 2, RateUnit>>]

MCFiles ==
  {NoFile, RefusedFile, [File(Prompted) EXCEPT !.openLoopBlock = TRUE]} \cup
  {File(g) : g \in {Prompted, ClosedLoop, TwoClosed, OpenLoop, WarmOpen, TokenLength, WithSLO,
                    Evidence, SweepClosed, SweepOpen, IdleAxis}}

(* seven arrivals of 91 in 64 seconds, within 34 / 8 seconds               *)
MCUnevenFiles == {File([request_rate |-> 91, duration |-> 34, max_requests |-> 7] @@ OpenLoop)}
MCWarmFiles   == {File(WarmOpen)}

(***************************************************************************)
(* Flags                                                                   *)
(***************************************************************************)

(* of one setting                                                          *)
Singles ==
  {s :> "" : s \in {"base_url", "model", "prompt", "output_dir"}}
  \cup {s :> "bad" : s \in {"base_url", "api_key_env"}}
  \cup {"workload_mode" :> t : t \in {"prompt", "token_length"}}
  \cup {"token_timing" :> t : t \in {"disabled", "vllm", "bad"}}
  \cup {s :> n : s \in {"timeout", "drain_timeout", "slo_ttft", "input_tokens", "max_input_tokens",
                        "max_output_tokens_ceiling", "max_points", "max_in_flight_ceiling",
                        "max_concurrency", "max_output_tokens"}, n \in {0, 1}}

(* of the settings that depend on each other                               *)
LoadFlags ==
  {"mode" :> t : t \in {"closed_loop", "open_loop", "bad"}}
  \cup {s :> n : s \in {"concurrency", "requests", "warmup_requests", "max_in_flight"},
                 n \in {0, 1, 3}}
  \cup {"request_rate" :> r : r \in {0, RateUnit \div 2, 3 * RateUnit}}
  \cup {"duration" :> d : d \in {0, Second}}
  \cup {"max_requests" :> 3}

AxisFlags ==
  {"concurrency_values" :> a : a \in {<<1>>, <<1, 2>>, <<1, 1>>, <<0>>}}
  \cup {"request_rate_values" :> a : a \in {<<RateUnit>>, <<RateUnit, RateUnit \div 2>>}}
  \cup {"output_token_values" :> a : a \in {<<1, 2>>, <<3>>}}
  \cup {"input_token_values" :> <<1, 2>>, "max_points" :> 4}

MCFlaggings ==
  {<<>>, ClosedLoop, OpenLoop, TokenLength} \cup Singles \cup LoadFlags
  \cup {Prompted @@ a : a \in LoadFlags}
  \cup {a @@ b : a \in AxisFlags, b \in AxisFlags \cup LoadFlags}

MCNoFlags == {<<>>}

MCEnvironments == {{}, {"bad"}}

MCLags == <<2, 1, 0>>

(***************************************************************************)
(* Observations                                                            *)
(***************************************************************************)

Chunk(at, tokens, wants) ==
  [at |-> at, content |-> TRUE, ids |-> wants, tokens |-> IF wants THEN tokens ELSE 0]

Observation(events, completed, tokens, wants) ==
  [firstByte |-> 1, headers |-> 1, firstEvent |-> events[1].at,
   firstContent |-> events[1].at, lastContent |-> events[Len(events)].at,
   completed |-> completed, events |-> events, tokens |-> tokens,
   usage |-> IF tokens = NoTokens THEN NoUsage ELSE tokens.output,
   requested |-> wants, invalid |-> FALSE, through |-> TRUE, error |-> "none"]

Usage(input, output, total) == [input |-> input, output |-> output, total |-> total]

Failed(wants) ==
  [firstByte |-> NoTime, headers |-> NoTime, firstEvent |-> NoTime, firstContent |-> NoTime,
   lastContent |-> NoTime, completed |-> 3, events |-> <<>>, tokens |-> NoTokens,
   usage |-> NoUsage, requested |-> wants, invalid |-> FALSE, through |-> FALSE,
   error |-> "failed"]

(* three chunks; one chunk without usage; a large count; one whose total   *)
(* is not the sum                                                          *)
MCObservations ==
  UNION {{Observation(<<Chunk(1, 1, w), Chunk(2, 1, w), Chunk(4, 1, w)>>, 5, Usage(1, 3, 4), w),
          Observation(<<Chunk(3, 1, w)>>, 4, NoTokens, w),
          Observation(<<Chunk(2, 1, w), Chunk(3, 1, w)>>, 4, Usage(MaxInt - 3, 2, MaxInt - 1), w),
          Observation(<<Chunk(2, 2, w), Chunk(5, 0, w)>>, 6, Usage(1, 2, 4), w),
          Failed(w)} : w \in BOOLEAN}
=============================================================================
