------------------------------ MODULE Admission ------------------------------
(***************************************************************************)
(* Client admission (src/internal/benchmark/admission.go) and the arrival  *)
(* schedule it derives (src/internal/benchmark/schedule.go).               *)
(*                                                                         *)
(* Offsets and durations count ticks, the nanoseconds of the source; rates *)
(* count arrivals per RateUnit seconds.  float64 is a binary number of     *)
(* Precision bits, and a quotient or product is rounded to it, ties to     *)
(* even.  Every rate, tick count and index is itself such a number, as     *)
(* they are in the source for any run shorter than 2^53 ns.                *)
(***************************************************************************)
EXTENDS Integers, Sequences

CONSTANTS
  Precision,    (* bits of a float's mantissa, 53 in the source            *)
  Second,       (* ticks of time.Second                                    *)
  RateUnit,
  MaxInt        (* the largest int                                         *)

ASSUME AdmissionAssumption ==
  /\ Precision \in Nat \ {0}
  /\ Second \in Nat \ {0}
  /\ RateUnit \in Nat \ {0}
  /\ MaxInt \in Nat

(***************************************************************************)
(* Floating point                                                          *)
(***************************************************************************)

Least(a, b)    == IF a < b THEN a ELSE b
Greatest(a, b) == IF a < b THEN b ELSE a

HalfEven(n, d) ==
  LET q == n \div d
      r == n % d
  IN  IF 2 * r > d \/ (2 * r = d /\ q % 2 = 1) THEN q + 1 ELSE q

(* the scale at which n/d has Precision bits before the point              *)
Exponent(n, d) ==
  CHOOSE e \in 0 .. 2 * Precision :
    /\ 2 ^ (Precision - 1) * d <= n * 2 ^ e
    /\ n * 2 ^ e < 2 ^ Precision * d

(* n/d rounded, as numerator and denominator                               *)
Float(n, d) ==
  IF n = 0 THEN <<0, 1>>
  ELSE LET scale == 2 ^ Exponent(n, d) IN <<HalfEven(n * scale, d), scale>>

Floor(x) == x[1] \div x[2]
Ceil(x)  == -((-x[1]) \div x[2])

(***************************************************************************)
(* The schedule of a positive rate                                         *)
(***************************************************************************)

(* 0 stands for the error of a count that is not positive or is no int     *)
PlannedArrivalCount(rate, duration) ==
  LET seconds == Float(duration, Second)
      count   == Ceil(Float(rate * seconds[1], RateUnit * seconds[2]))
  IN  IF count \in 1 .. MaxInt THEN count ELSE 0

(* the offset of the arrival with this index, counted from 0               *)
ArrivalOffset(rate, index) == Floor(Float(index * Second * RateUnit, rate))

ArrivalOffsets(rate, count) == [i \in 1 .. count |-> ArrivalOffset(rate, i - 1)]

Nondecreasing(offsets) ==
  \A i \in 1 .. Len(offsets) - 1 : offsets[i] <= offsets[i + 1]

(* DurationArrivalOffsets returns no error                                 *)
FitsDuration(rate, duration) ==
  LET offsets == ArrivalOffsets(rate, PlannedArrivalCount(rate, duration))
  IN  /\ Nondecreasing(offsets)
      /\ \A i \in DOMAIN offsets : offsets[i] < duration

(***************************************************************************)
(* AdmitRun of a request r with the settings' names                        *)
(***************************************************************************)

AdmissibleClosedLoop(r) ==
  /\ r.concurrency > 0 /\ r.concurrency <= r.max_concurrency
  /\ r.requests > 0 /\ r.requests <= r.max_requests

AdmissibleOpenLoop(r) ==
  /\ r.request_rate > 0 /\ r.request_rate <= r.max_request_rate
  /\ r.duration > 0
  /\ r.max_in_flight > 0 /\ r.max_in_flight <= r.max_in_flight_ceiling
  /\ PlannedArrivalCount(r.request_rate, r.duration) \in 1 .. r.max_requests
  /\ FitsDuration(r.request_rate, r.duration)
  /\ Nondecreasing(ArrivalOffsets(r.request_rate, r.warmup_requests))

Admissible(r) ==
  /\ r.warmup_requests >= 0
  /\ r.max_requests > 0
  /\ r.warmup_requests <= r.max_requests
  /\ IF r.mode = "open_loop" THEN AdmissibleOpenLoop(r) ELSE AdmissibleClosedLoop(r)

MeasurementWorkers(r) == Least(r.concurrency, r.requests)
WarmupWorkers(r)      == Least(r.concurrency, r.warmup_requests)

(* the connections the shared transport may hold                           *)
TransportLimit(r) ==
  IF r.mode = "open_loop" THEN r.max_in_flight
  ELSE Greatest(MeasurementWorkers(r), WarmupWorkers(r))

(* AdmissionDecision of an admissible request                              *)
AdmissionDecision(r) ==
  [mode      |-> r.mode,
   requested |-> IF r.mode = "open_loop" THEN PlannedArrivalCount(r.request_rate, r.duration)
                 ELSE r.requests,
   workers   |-> IF r.mode = "open_loop" THEN 0 ELSE MeasurementWorkers(r),
   limit     |-> TransportLimit(r)]
=============================================================================
