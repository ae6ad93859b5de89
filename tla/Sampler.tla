------------------------------- MODULE Sampler -------------------------------
(***************************************************************************)
(* Sampler.Measure (src/internal/calibration/sampler.go): a goroutine      *)
(* samples the process on a ticker while an operation runs, and the peak   *)
(* is shared with it.  A sample is one number, the heap say; the other     *)
(* peaks and the differences of start and end go the same way.             *)
(*                                                                         *)
(* The operation is the business of whoever composes this module:          *)
(* MeasureStarts, the operation, OperationReturned, MeasureReturns.        *)
(***************************************************************************)
EXTENDS Integers, Sequences

CONSTANTS
  Readings,     (* what ReadMemStats may say                               *)
  MaxTicks      (* bound: the ticks within one operation                   *)

ASSUME SamplerAssumption ==
  /\ Readings \subseteq Nat
  /\ MaxTicks \in Nat

VARIABLES
  measuring,    (* "idle", "operation", or "stopped" once stop is closed   *)
  goroutine,    (* "absent", "select", or "sampled": it holds a sample     *)
  current,      (* the goroutine's sample                                  *)
  peak,
  samples,
  evidence,     (* [peak, samples] of the last ResourceEvidence            *)
  (* history *)
  readings      (* every reading since the measurement started             *)

samplerVars == <<measuring, goroutine, current, peak, samples, evidence, readings>>

NoEvidence == [peak |-> 0, samples |-> 0]

SamplerInit ==
  /\ measuring = "idle"
  /\ goroutine = "absent"
  /\ current = 0
  /\ peak = 0
  /\ samples = 0
  /\ evidence = NoEvidence
  /\ readings = <<>>

Higher(a, b) == IF a < b THEN b ELSE a

(* the start sample, and the goroutine                                     *)
MeasureStarts ==
  /\ measuring = "idle"
  /\ \E reading \in Readings :
       /\ peak' = reading
       /\ readings' = <<reading>>
  /\ samples' = 1
  /\ goroutine' = "select"
  /\ measuring' = "operation"
  /\ evidence' = NoEvidence
  /\ UNCHANGED current

(* the ticker's case                                                       *)
TakeSample ==
  /\ goroutine = "select"
  /\ Len(readings) <= MaxTicks
  /\ \E reading \in Readings :
       /\ current' = reading
       /\ readings' = Append(readings, reading)
  /\ goroutine' = "sampled"
  /\ UNCHANGED <<measuring, peak, samples, evidence>>

(* updatePeak, under the lock                                              *)
UpdatePeak ==
  /\ goroutine = "sampled"
  /\ peak' = Higher(peak, current)
  /\ samples' = samples + 1
  /\ goroutine' = "select"
  /\ current' = 0
  /\ UNCHANGED <<measuring, evidence, readings>>

(* close(stop)                                                             *)
OperationReturned ==
  /\ measuring = "operation"
  /\ measuring' = "stopped"
  /\ UNCHANGED <<goroutine, current, peak, samples, evidence, readings>>

(* the case of stop, when the select picks it                              *)
SeeStop ==
  /\ goroutine = "select"
  /\ measuring = "stopped"
  /\ goroutine' = "absent"
  /\ UNCHANGED <<measuring, current, peak, samples, evidence, readings>>

(* Wrong: the goroutine is told to stop, and not waited for                *)
NotWaitedFor == measuring = "stopped"

(* <-done                                                                  *)
SamplerDone == measuring = "stopped" /\ goroutine = "absent"

(* the end sample, and the evidence                                        *)
MeasureReturns ==
  /\ SamplerDone
  /\ \E reading \in Readings :
       /\ readings' = Append(readings, reading)
       /\ peak' = Higher(peak, reading)
  /\ samples' = samples + 1
  /\ evidence' = [peak |-> peak', samples |-> samples']
  /\ measuring' = "idle"
  /\ UNCHANGED <<goroutine, current>>

SamplerStep == TakeSample \/ UpdatePeak \/ SeeStop

(***************************************************************************)
(* Properties                                                              *)
(***************************************************************************)

(* The evidence accounts for every sample that was taken, the start's and  *)
(* the end's included, its peak is the highest of them, and the goroutine  *)
(* is gone when it is returned (sampler.go:56-62).                         *)
EvidenceCoversSamples ==
  evidence # NoEvidence =>
    /\ evidence.samples = Len(readings)
    /\ \A i \in DOMAIN readings : readings[i] <= evidence.peak
    /\ \E i \in DOMAIN readings : readings[i] = evidence.peak
    /\ goroutine = "absent"
=============================================================================
