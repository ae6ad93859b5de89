---------------------------- MODULE EvidenceStore ----------------------------
(***************************************************************************)
(* What a reader of the output directory may rely on, whatever happens to  *)
(* the process that writes it: an experiment appears in one step, whole,   *)
(* and never changes; a calibration appears after the experiment it refers *)
(* to, and agrees with it.  Sweep and Calibration implement it.            *)
(***************************************************************************)
EXTENDS Naturals

CONSTANT
  Points    (* the number of planned points                                *)

Point == 1 .. Points

VARIABLES
  experiments,    (* the published experiments: none or one                *)
  calibrations    (* the published calibrations: none or one               *)

vars == <<experiments, calibrations>>

Executed(e) == {p \in Point : e.status[p] = "executed"}

(* the files, the child directories and the verdict fit the dispositions   *)
Whole(e) ==
  /\ e.files = {"experiment.json", "summary.csv"}
  /\ e.children = Executed(e)
  /\ \A p \in Point : e.run[p] # "none" <=> p \in Executed(e)
  /\ \A p, q \in Point : p < q /\ e.status[p] \in {"cancelled", "not_started"} =>
       e.status[q] = "not_started"
  /\ e.verdict = "completed" =>
       \A p \in Point : /\ e.status[p] \in {"executed", "preflight_failed"}
                        /\ e.run[p] # "cancelled"
  /\ e.verdict = "failed" =>
       \A p \in Point : e.status[p] # "cancelled" /\ e.run[p] # "cancelled"
  /\ e.verdict = "cancelled" =>
       \E p \in Point : e.status[p] \in {"cancelled", "not_started"} \/ e.run[p] = "cancelled"

(* the calibration evaluates the executed points, each from its own run    *)
Agrees(c, e) ==
  /\ c.files = {"calibration.json", "summary.csv"}
  /\ c.verdict = e.verdict
  /\ \A p \in Point : c.evaluated[p] = IF p \in Executed(e) THEN p ELSE 0

Init == experiments = {} /\ calibrations = {}

PublishExperiment ==
  /\ experiments = {}
  /\ \E e \in experiments' : experiments' = {e} /\ Whole(e)
  /\ UNCHANGED calibrations

PublishCalibration ==
  /\ calibrations = {}
  /\ \E c \in calibrations' : calibrations' = {c} /\ \E e \in experiments : Agrees(c, e)
  /\ UNCHANGED experiments

Next == PublishExperiment \/ PublishCalibration

Spec == Init /\ [][Next]_vars

=============================================================================
