-------------------------------- MODULE Sweep --------------------------------
(***************************************************************************)
(* One parameter sweep: experiment.Runner.Run with the benchmark runs it   *)
(* executes (benchmarkexec.Execute and artifacts.Writer for each of them)  *)
(* and the staged publication of the whole (experiment/writer.go).         *)
(*                                                                         *)
(* The state of interest is the disk: a child run is staged beside its     *)
(* final directory and renamed, inside an experiment tree that is itself   *)
(* staged and renamed.  Every operation of the file system may fail, and   *)
(* the process may be killed between any two of them.                      *)
(***************************************************************************)
EXTENDS Naturals, FiniteSets

CONSTANTS
  Points,   (* len(plan.Points)                                            *)
  Faults    (* the operations that may fail                                *)

ASSUME SweepAssumption ==
  /\ Points \in Nat \ {0}
  /\ Faults \subseteq {"begin", "prepare", "static", "write", "rename", "remove",
                  "read"}

Point == 1 .. Points

RunStatus   == {"completed", "failed", "cancelled"}
PointStatus == {"executed", "preflight_failed", "cancelled", "not_started"}

VARIABLES
  cancelled,      (* ctx.Err() # nil                                       *)
  step,           (* what Run, or Execute within it, does next             *)
  point,          (* the loop's point                                      *)
  interrupted,    (* Run's local "cancelled"                               *)
  fatal,          (* Run's local "fatal"                                   *)
  record,         (* manifest.Points: point status and child run status    *)
  manifest,       (* manifest.Status and Complete, once they are set       *)
  runErr,         (* the error Run returns, "none" while there is none     *)
  (* Execute *)
  runStatus,      (* metadata.RunStatus of the child                       *)
  execErr,        (* the stage of the error Execute returns, or "none"     *)
  (* the disk *)
  child,          (* per point: its directory under runs/                  *)
  files,          (* the files in the root of the experiment's tree        *)
  tree,           (* where that tree is: "absent", "staging" or "final"    *)
  removalFailed   (* history: some os.RemoveAll failed                     *)

diskVars  == <<child, files, tree, removalFailed>>
execVars  == <<runStatus, execErr>>
loopVars  == <<point, interrupted, fatal, record>>
vars == <<cancelled, step, loopVars, manifest, runErr, execVars, diskVars>>

Init ==
  /\ cancelled \in BOOLEAN
  /\ step = "begin"
  /\ point = 1
  /\ interrupted = FALSE
  /\ fatal = FALSE
  /\ record = [p \in Point |-> [status |-> "not_started", run |-> "none"]]
  /\ manifest = [status |-> "none", complete |-> FALSE]
  /\ runErr = "none"
  /\ runStatus = "none"
  /\ execErr = "none"
  /\ child = [p \in Point |-> "absent"]
  /\ files = {}
  /\ tree = "absent"
  /\ removalFailed = FALSE

(* Ctrl-C                                                                  *)
CancelParent ==
  /\ ~cancelled
  /\ step \notin {"returned", "killed"}
  /\ cancelled' = TRUE
  /\ UNCHANGED <<step, loopVars, manifest, runErr, execVars, diskVars>>

(* the process dies; what is on disk stays                                 *)
Kill ==
  /\ step \notin {"returned", "killed"}
  /\ step' = "killed"
  /\ UNCHANGED <<cancelled, loopVars, manifest, runErr, execVars, diskVars>>

Fails(operation) == operation \in Faults

(***************************************************************************)
(* beginPublication                                                        *)
(***************************************************************************)

BeginPublication ==
  /\ step = "begin"
  /\ tree' = "staging"
  /\ step' = "next"
  /\ UNCHANGED <<cancelled, loopVars, manifest, runErr, execVars, child, files, removalFailed>>

(* before or after the staging directory exists                            *)
BeginFails ==
  /\ step = "begin"
  /\ Fails("begin")
  /\ runErr' = "begin"
  /\ \/ step' = "returned" /\ UNCHANGED tree
     \/ step' = "abort" /\ tree' = "staging"
  /\ UNCHANGED <<cancelled, loopVars, manifest, execVars, child, files, removalFailed>>

(***************************************************************************)
(* The loop over the points                                                *)
(***************************************************************************)

MorePoints == point <= Points

StartPoint ==
  /\ step = "next"
  /\ MorePoints
  /\ ~cancelled
  /\ step' = "execute"
  /\ UNCHANGED <<cancelled, loopVars, manifest, runErr, execVars, diskVars>>

LoopInterrupted ==
  /\ step = "next"
  /\ MorePoints
  /\ cancelled
  /\ interrupted' = TRUE
  /\ step' = "finish"
  /\ UNCHANGED <<cancelled, point, fatal, record, manifest, runErr, execVars, diskVars>>

LoopEnds ==
  /\ step = "next"
  /\ ~MorePoints
  /\ step' = "finish"
  /\ UNCHANGED <<cancelled, loopVars, manifest, runErr, execVars, diskVars>>

(***************************************************************************)
(* Execute                                                                 *)
(***************************************************************************)

(* Execute returns                                                         *)
Answer(err) == execErr' = err /\ step' = "child"

(* Validation, client and run ID fail as "static", the workload as         *)
(* "preparation"; a cancelled context can end the preparation.             *)
PrepareChild ==
  /\ step = "execute"
  /\ \/ step' = "run" /\ UNCHANGED execErr
     \/ (Fails("prepare") \/ cancelled) /\ Answer("preparation")
     \/ Fails("static") /\ Answer("static")
  /\ UNCHANGED <<cancelled, loopVars, manifest, runErr, runStatus, diskVars>>

(* The whole of module Lifecycle: a run is cancelled only when its parent  *)
(* is, and its evidence is refused only when the parent was cancelled.     *)
RunChild ==
  /\ step = "run"
  /\ \/ /\ \E status \in RunStatus :
             /\ status = "cancelled" => cancelled
             /\ runStatus' = status
        /\ step' = "stage"
        /\ UNCHANGED execErr
     \/ /\ cancelled
        /\ Answer("runtime")
        /\ UNCHANGED runStatus
  /\ UNCHANGED <<cancelled, loopVars, manifest, runErr, diskVars>>

(* os.MkdirTemp under runs/                                                *)
StageChild ==
  /\ step = "stage"
  /\ \/ /\ child' = [child EXCEPT ![point] = "staged"]
        /\ step' = "write"
        /\ UNCHANGED execErr
     \/ Fails("write") /\ Answer("runtime") /\ UNCHANGED child
  /\ UNCHANGED <<cancelled, loopVars, manifest, runErr, runStatus, files, tree, removalFailed>>

(* all files of the run, any of which may fail                             *)
WriteChild ==
  /\ step = "write"
  /\ \/ step' = "rename"
     \/ Fails("write") /\ step' = "clean"
  /\ UNCHANGED <<cancelled, loopVars, manifest, runErr, execVars, diskVars>>

RenameChild ==
  /\ step = "rename"
  /\ \/ /\ child' = [child EXCEPT ![point] = "published"]
        /\ Answer("none")
     \/ Fails("rename") /\ step' = "clean" /\ UNCHANGED <<child, execErr>>
  /\ UNCHANGED <<cancelled, loopVars, manifest, runErr, runStatus, files, tree, removalFailed>>

(* Wrong: the staging directory of a failed run is left                    *)
KeepStaging == step = "clean" /\ Answer("runtime")
               /\ UNCHANGED <<cancelled, loopVars, manifest, runErr, runStatus, diskVars>>

(* the deferred os.RemoveAll, whose error is dropped                       *)
CleanChild ==
  /\ step = "clean"
  /\ Answer("runtime")
  /\ \/ child' = [child EXCEPT ![point] = "absent"] /\ UNCHANGED removalFailed
     \/ Fails("remove") /\ removalFailed' = TRUE /\ UNCHANGED child
  /\ UNCHANGED <<cancelled, loopVars, manifest, runErr, runStatus, files, tree>>

(***************************************************************************)
(* What Run makes of the answer                                            *)
(***************************************************************************)

RecordPoint(status, run) ==
  /\ record' = [record EXCEPT ![point] = [status |-> status, run |-> run]]
  /\ execErr' = "none"
  /\ runStatus' = "none"

Advance == point' = point + 1 /\ step' = "next"

(* Wrong: a cancelled context decides before the error is looked at        *)
ContextFirst == cancelled

ChildInterrupted == execErr # "none" /\ cancelled

(* errors.Is(err, context.Canceled) implies that ctx is cancelled          *)
ChildCancelled ==
  /\ step = "child"
  /\ ChildInterrupted
  /\ RecordPoint("cancelled", "none")
  /\ interrupted' = TRUE
  /\ step' = "finish"
  /\ UNCHANGED <<cancelled, point, fatal, manifest, runErr, diskVars>>

ChildUnprepared ==
  /\ step = "child"
  /\ execErr = "preparation"
  /\ ~cancelled
  /\ RecordPoint("preflight_failed", "none")
  /\ Advance
  /\ UNCHANGED <<cancelled, interrupted, fatal, manifest, runErr, diskVars>>

(* the point's record stays "not_started"                                  *)
ChildFatal ==
  /\ step = "child"
  /\ execErr \in {"static", "runtime"}
  /\ ~cancelled
  /\ fatal' = TRUE
  /\ step' = "finish"
  /\ execErr' = "none"
  /\ runStatus' = "none"
  /\ UNCHANGED <<cancelled, point, interrupted, record, manifest, runErr, diskVars>>

ChildExecuted ==
  /\ step = "child"
  /\ execErr = "none"
  /\ ~ChildInterrupted
  /\ RecordPoint("executed", runStatus)
  /\ IF runStatus = "cancelled" \/ cancelled
     THEN interrupted' = TRUE /\ step' = "finish" /\ UNCHANGED point
     ELSE Advance /\ UNCHANGED interrupted
  /\ UNCHANGED <<cancelled, fatal, manifest, runErr, diskVars>>

(***************************************************************************)
(* Publication                                                             *)
(***************************************************************************)

(* updateManifestCounts                                                    *)
WithStatus(status) == {p \in Point : record[p].status = status}
WithRun(run)       == {p \in WithStatus("executed") : record[p].run = run}

SetStatus ==
  /\ step = "finish"
  /\ manifest' = [status   |-> CASE interrupted          -> "cancelled"
                                 [] ~interrupted /\ fatal -> "failed"
                                 [] OTHER                 -> "completed",
                  complete |-> /\ ~interrupted
                               /\ ~fatal
                               /\ WithStatus("not_started") = {}]
  /\ step' = "publish"
  /\ UNCHANGED <<cancelled, loopVars, runErr, execVars, diskVars>>

StatusConsistent ==
  CASE manifest.status = "completed" ->
         manifest.complete /\ WithStatus("not_started") \cup WithStatus("cancelled") = {}
    [] manifest.status = "cancelled" ->
         /\ ~manifest.complete
         /\ WithRun("cancelled") \cup WithStatus("cancelled") \cup WithStatus("not_started") # {}
    [] manifest.status = "failed" -> ~manifest.complete

Entries == {p \in Point : child[p] # "absent"}

(* Wrong: only the referenced directories are looked at                    *)
ReferencedChildren == \A p \in WithStatus("executed") : child[p] = "published"

(* each executed point has its child's directory, and there is no other    *)
ChildrenReferenced ==
  /\ \A p \in WithStatus("executed") : child[p] = "published"
  /\ Entries = WithStatus("executed")

(* validatePublication, as far as the run of the sweep decides it          *)
ValidPublication == StatusConsistent /\ ChildrenReferenced

ValidatePublication ==
  /\ step = "publish"
  /\ \/ ValidPublication /\ step' = "manifest" /\ UNCHANGED runErr
     \/ ~ValidPublication /\ step' = "abort" /\ runErr' = "refused"
     \/ Fails("read") /\ step' = "abort" /\ runErr' = "io"
  /\ UNCHANGED <<cancelled, loopVars, manifest, execVars, diskVars>>

WriteFails == Fails("write") /\ runErr' = "io" /\ step' = "abort"

WriteManifest ==
  /\ step = "manifest"
  /\ \/ files' = files \cup {"experiment.json"} /\ step' = "summary" /\ UNCHANGED runErr
     \/ WriteFails /\ UNCHANGED files
  /\ UNCHANGED <<cancelled, loopVars, manifest, execVars, child, tree, removalFailed>>

WriteSummary ==
  /\ step = "summary"
  /\ \/ files' = files \cup {"summary.csv"} /\ step' = "commit" /\ UNCHANGED runErr
     \/ WriteFails /\ UNCHANGED files
  /\ UNCHANGED <<cancelled, loopVars, manifest, execVars, child, tree, removalFailed>>

CommitTree ==
  /\ step = "commit"
  /\ \/ tree' = "final" /\ step' = "returned" /\ UNCHANGED runErr
     \/ Fails("rename") /\ runErr' = "io" /\ step' = "abort" /\ UNCHANGED tree
  /\ UNCHANGED <<cancelled, loopVars, manifest, execVars, child, files, removalFailed>>

(* Wrong: an error of Publish leaves the staging directory                 *)
ForgetStaging ==
  /\ step = "abort"
  /\ step' = "returned"
  /\ UNCHANGED <<cancelled, loopVars, manifest, runErr, execVars, diskVars>>

(* the deferred Abort of an uncommitted publication                        *)
Abort ==
  /\ step = "abort"
  /\ step' = "returned"
  /\ \/ /\ tree' = "absent"
        /\ child' = [p \in Point |-> "absent"]
        /\ files' = {}
        /\ UNCHANGED removalFailed
     \/ /\ Fails("remove")
        /\ removalFailed' = TRUE
        /\ UNCHANGED <<tree, child, files>>
  /\ UNCHANGED <<cancelled, loopVars, manifest, runErr, execVars>>

Terminated ==
  /\ step \in {"returned", "killed"}
  /\ UNCHANGED vars

(* Result.Successful, when Run returned no error: exit status 0            *)
Successful ==
  /\ step = "returned" /\ runErr = "none"
  /\ manifest.status = "completed" /\ manifest.complete
  /\ WithRun("completed") = Point

ChildReturned == ChildCancelled \/ ChildUnprepared \/ ChildFatal \/ ChildExecuted

ExecuteStep ==
  \/ PrepareChild \/ RunChild \/ StageChild \/ WriteChild \/ RenameChild \/ CleanChild

PublicationStep ==
  \/ BeginPublication \/ BeginFails \/ LoopInterrupted \/ LoopEnds \/ SetStatus
  \/ ValidatePublication \/ WriteManifest \/ WriteSummary \/ CommitTree \/ Abort

Next ==
  \/ StartPoint \/ ExecuteStep \/ ChildReturned \/ PublicationStep
  \/ CancelParent \/ Kill \/ Terminated

Spec == Init /\ [][Next]_vars

(***************************************************************************)
(* Properties                                                              *)
(***************************************************************************)

(* The manifest and the disk tell the same story in the same order: points *)
(* before the current one have ended, later ones were not touched, a child *)
(* that was renamed into place is recorded as executed as soon as Run has  *)
(* its answer, and no other point is.                                      *)
EvidenceRecorded ==
  tree # "absent" =>
    /\ \A p \in Point : p < point => record[p].status \in {"executed", "preflight_failed"}
    /\ \A p \in Point : p > point => record[p].status = "not_started" /\ child[p] = "absent"
    /\ \A p \in Point : record[p].status = "executed" => child[p] = "published"
    /\ \A p \in Point : child[p] = "published" /\ record[p].status # "executed" =>
         p = point /\ step \in {"child", "killed"}

(* A finished sweep is refused by its own validator in two cases only: a   *)
(* failed child left a directory that could not be removed, or Ctrl-C came *)
(* after the last child had ended.                                         *)
RefusalExplained ==
  runErr = "refused" =>
    \/ removalFailed
    \/ interrupted /\ WithStatus("executed") \cup WithStatus("preflight_failed") = Point

(* When Run returns, the sweep is published and no error is, or the other  *)
(* way round, and then no staging directory is left unless it could not be *)
(* removed.                                                                *)
NothingLeftBehind ==
  step = "returned" =>
    /\ tree = "final" <=> runErr = "none"
    /\ tree = "staging" => removalFailed

(* Exit status 0 means a published tree with a completed child run for     *)
(* every planned point, and that nobody interrupted the sweep.             *)
SuccessIsComplete ==
  Successful =>
    /\ tree = "final"
    /\ ~interrupted
    /\ \A p \in Point : child[p] = "published" /\ record[p].run = "completed"

(* README.md:306-308: Ctrl-C "leaves future points not_started, and        *)
(* atomically publishes a partial cancelled experiment".  Stated where no  *)
(* operation fails.                                                        *)
InterruptedSweepPublished ==
  Faults = {} /\ step = "returned" /\ interrupted => tree = "final"

=============================================================================
