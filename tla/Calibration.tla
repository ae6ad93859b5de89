----------------------------- MODULE Calibration -----------------------------
(***************************************************************************)
(* A calibration: calibration.Runner.Run wraps the execution of a sweep,   *)
(* numbers the calls of Execute to pair each child run with the resources  *)
(* that Sampler measured beside it, and publishes its own tree after the   *)
(* experiment's.                                                           *)
(*                                                                         *)
(* The context is not read again once the experiment has returned.         *)
(***************************************************************************)
EXTENDS Sweep, Sampler

VARIABLES
  nextPoint,      (* Run's counter of calls of Execute                     *)
  resources,      (* the numbers resources were sampled for                *)
  children,       (* per number: the point whose run was kept, 0 for none  *)
  clean,          (* the points evaluated as delivered cleanly             *)
  calStep,        (* what Run, or Writer.Write within it, does next        *)
  calErr,         (* the error it returns                                  *)
  calTree,        (* where the calibration's directory is                  *)
  calFiles        (* the files in it                                       *)

wrapperVars == <<nextPoint, resources, children>>
calVars == <<wrapperVars, clean, calStep, calErr, calTree, calFiles>>
allVars == <<vars, calVars, samplerVars>>

CalibrationInit ==
  /\ Init
  /\ SamplerInit
  /\ nextPoint = 0
  /\ resources = {}
  /\ children = [p \in Point |-> 0]
  /\ clean = {}
  /\ calStep = "experiment"
  /\ calErr = "none"
  /\ calTree = "absent"
  /\ calFiles = {}

(***************************************************************************)
(* The sweep, and the wrapper around Execute                               *)
(***************************************************************************)

(* Wrong: numbered by the children kept, not by the calls                  *)
NumberByChildren == Cardinality({n \in Point : children[n] # 0}) + 1

NextNumber == nextPoint + 1

CallExecute ==
  /\ StartPoint
  /\ nextPoint' = NextNumber
  /\ MeasureStarts
  /\ UNCHANGED <<resources, children>>

(* Execute has returned to Measure                                         *)
ExecuteEnds ==
  /\ step = "child"
  /\ OperationReturned
  /\ UNCHANGED <<vars, wrapperVars>>

(* the goroutine of the sampler, for as long as the process lives          *)
SamplerRuns ==
  /\ step # "killed"
  /\ SamplerStep
  /\ UNCHANGED <<vars, wrapperVars>>

ExecuteReturns ==
  /\ MeasureReturns
  /\ ChildReturned
  /\ resources' = resources \cup {nextPoint}
  /\ children' = IF execErr = "none" THEN [children EXCEPT ![nextPoint] = point] ELSE children
  /\ UNCHANGED nextPoint

RunExperiment ==
  /\ calStep = "experiment"
  /\ \/ CallExecute
     \/ ExecuteEnds
     \/ SamplerRuns
     \/ ExecuteReturns
     \/ (ExecuteStep \/ PublicationStep \/ CancelParent \/ Kill) /\ UNCHANGED <<wrapperVars, samplerVars>>
  /\ UNCHANGED <<clean, calStep, calErr, calTree, calFiles>>

(* the plan or the identifier is refused                                   *)
RefuseRun ==
  /\ calStep = "experiment"
  /\ step = "begin"
  /\ Fails("begin")
  /\ calErr' = "setup"
  /\ calStep' = "returned"
  /\ UNCHANGED <<vars, wrapperVars, samplerVars, clean, calTree, calFiles>>

ExperimentFailed ==
  /\ calStep = "experiment"
  /\ step = "returned"
  /\ runErr # "none"
  /\ calErr' = "experiment"
  /\ calStep' = "returned"
  /\ UNCHANGED <<vars, wrapperVars, samplerVars, clean, calTree, calFiles>>

Evaluated == {p \in Point : children[p] # 0}

(* EvaluateEvidence: only a completed run can be clean; whether it is, the *)
(* counts of its summary decide.                                           *)
EvaluatePoints ==
  /\ calStep = "experiment"
  /\ step = "returned"
  /\ runErr = "none"
  /\ \E delivered \in SUBSET {p \in Evaluated : record[children[p]].run = "completed"} :
       clean' = delivered
  /\ calStep' = "validate"
  /\ UNCHANGED <<vars, wrapperVars, samplerVars, calErr, calTree, calFiles>>

(***************************************************************************)
(* Writer.Write                                                            *)
(***************************************************************************)

(* validateManifest and validateReferencedEvidence                         *)
ValidPoint(p) ==
  IF p \in Evaluated
  THEN /\ p \in resources
       /\ record[p].status = "executed"
       /\ child[p] = "published"
       /\ children[p] = p
  ELSE record[p].status # "executed" /\ record[p].run = "none"

ValidateCalibration ==
  /\ calStep = "validate"
  /\ IF \A p \in Point : ValidPoint(p)
     THEN \/ calStep' = "stage" /\ UNCHANGED calErr
          \/ Fails("read") /\ calStep' = "returned" /\ calErr' = "io"
     ELSE calStep' = "returned" /\ calErr' = "refused"
  /\ UNCHANGED <<vars, wrapperVars, samplerVars, clean, calTree, calFiles>>

StageCalibration ==
  /\ calStep = "stage"
  /\ \/ calTree' = "staging" /\ calStep' = "manifest" /\ UNCHANGED calErr
     \/ Fails("write") /\ calErr' = "io" /\ calStep' = "returned" /\ UNCHANGED calTree
  /\ UNCHANGED <<vars, wrapperVars, samplerVars, clean, calFiles>>

WriteCalibrationFile(at, file, next) ==
  /\ calStep = at
  /\ \/ calFiles' = calFiles \cup {file} /\ calStep' = next /\ UNCHANGED calErr
     \/ Fails("write") /\ calErr' = "io" /\ calStep' = "clean" /\ UNCHANGED calFiles
  /\ UNCHANGED <<vars, wrapperVars, samplerVars, clean, calTree>>

WriteCalibrationManifest == WriteCalibrationFile("manifest", "calibration.json", "summary")

WriteCalibrationSummary  == WriteCalibrationFile("summary", "summary.csv", "commit")

CommitCalibration ==
  /\ calStep = "commit"
  /\ \/ calTree' = "final" /\ calStep' = "returned" /\ UNCHANGED calErr
     \/ Fails("rename") /\ calErr' = "io" /\ calStep' = "clean" /\ UNCHANGED calTree
  /\ UNCHANGED <<vars, wrapperVars, samplerVars, clean, calFiles>>

(* the deferred os.RemoveAll                                               *)
CleanCalibration ==
  /\ calStep = "clean"
  /\ calStep' = "returned"
  /\ \/ calTree' = "absent" /\ calFiles' = {} /\ UNCHANGED removalFailed
     \/ Fails("remove") /\ removalFailed' = TRUE /\ UNCHANGED <<calTree, calFiles>>
  /\ UNCHANGED <<cancelled, step, loopVars, manifest, runErr, execVars, child, files, tree,
                 wrapperVars, samplerVars, clean, calErr>>

KillCalibration ==
  /\ step = "returned"
  /\ calStep \notin {"returned", "killed"}
  /\ calStep' = "killed"
  /\ UNCHANGED <<vars, wrapperVars, samplerVars, clean, calErr, calTree, calFiles>>

CalibrationEnded ==
  /\ step = "killed" \/ calStep \in {"returned", "killed"}
  /\ UNCHANGED allVars

WriteCalibration ==
  \/ ValidateCalibration \/ StageCalibration \/ WriteCalibrationManifest
  \/ WriteCalibrationSummary \/ CommitCalibration \/ CleanCalibration

CalibrationNext ==
  \/ RunExperiment \/ RefuseRun \/ ExperimentFailed \/ EvaluatePoints
  \/ WriteCalibration \/ KillCalibration \/ CalibrationEnded

CalibrationSpec == CalibrationInit /\ [][CalibrationNext]_allVars

(* Wrong: points without an evaluation are not missed                      *)
NoDirtyPoint ==
  /\ calStep = "returned" /\ calErr = "none"
  /\ manifest.status = "completed" /\ manifest.complete
  /\ Evaluated \ clean = {}

(* Result.Successful, when Run returned no error: exit status 0            *)
CalibrationSuccessful ==
  /\ calStep = "returned" /\ calErr = "none"
  /\ manifest.status = "completed" /\ manifest.complete
  /\ clean = Point

(***************************************************************************)
(* Properties                                                              *)
(***************************************************************************)

(* Once an experiment is published, the calibration built from it passes   *)
(* its own validator: every executed point is paired with its own run and  *)
(* its own resource sample, whichever points failed before it.             *)
CalibrationAccepted == calErr # "refused"

(* Exit status 0 of a sweep means a completed child run in the published   *)
(* tree for every planned point and an uninterrupted sweep; exit status 0  *)
(* of a calibration means moreover that both trees are published and each  *)
(* point was delivered cleanly by a run of its own with a resource sample. *)
CalibratedIsComplete ==
  /\ SuccessIsComplete
  /\ CalibrationSuccessful =>
       /\ tree = "final" /\ calTree = "final"
       /\ ~interrupted
       /\ \A p \in Point : /\ child[p] = "published"
                           /\ record[p].run = "completed"
                           /\ children[p] = p /\ p \in resources

(* A reader of the output directory sees an experiment appear whole and    *)
(* consistent, in one step, and a calibration only beside the experiment   *)
(* it agrees with, whatever fails and wherever the process dies.           *)
Store == INSTANCE EvidenceStore WITH
  experiments <-
    IF tree = "final"
    THEN {[status   |-> [p \in Point |-> record[p].status],
           run      |-> [p \in Point |-> record[p].run],
           children |-> Entries,
           files    |-> files,
           verdict  |-> manifest.status]}
    ELSE {},
  calibrations <-
    IF calTree = "final"
    THEN {[evaluated |-> children, files |-> calFiles, verdict |-> manifest.status]}
    ELSE {}

ImplementsStore == Store!Spec

=============================================================================
