-------------------------- MODULE CalibrationProofs --------------------------
(***************************************************************************)
(* What a sweep leaves on the disk, for every number of points, whatever   *)
(* operations fail and wherever the process dies; and the evidence of its  *)
(* calibration: the resources that were sampled beside each run, the       *)
(* pairing of runs and points, and what a reader of the output directory   *)
(* sees.                                                                   *)
(***************************************************************************)
EXTENDS Calibration, TLAPS

(***************************************************************************)
(* The sweep                                                               *)
(***************************************************************************)

LoopSteps == {"next", "execute", "run", "stage", "write", "rename", "clean", "child"}

PublishSteps == {"publish", "manifest", "summary", "commit"}

Steps == {"begin", "finish", "abort", "returned", "killed"} \cup LoopSteps \cup PublishSteps

NotStarted == [status |-> "not_started", run |-> "none"]

TypeInv ==
  /\ cancelled \in BOOLEAN
  /\ step \in Steps
  /\ point \in Nat \ {0}
  /\ interrupted \in BOOLEAN
  /\ fatal \in BOOLEAN
  /\ record \in [Point -> [status : PointStatus, run : RunStatus \cup {"none"}]]
  /\ manifest \in [status : {"none", "completed", "failed", "cancelled"}, complete : BOOLEAN]
  /\ runErr \in {"none", "begin", "refused", "io"}
  /\ runStatus \in RunStatus \cup {"none"}
  /\ execErr \in {"none", "preparation", "static", "runtime"}
  /\ child \in [Point -> {"absent", "staged", "published"}]
  /\ files \subseteq {"experiment.json", "summary.csv"}
  /\ tree \in {"absent", "staging", "final"}
  /\ removalFailed \in BOOLEAN

(* While the loop runs: the current point and the ones after it have no    *)
(* record, and the current one's directory is where Execute has got to.    *)
LoopInv ==
  /\ step \in {"begin"} \cup LoopSteps =>
       /\ ~interrupted /\ ~fatal
       /\ \A p \in Point : p >= point => record[p] = NotStarted
  /\ step \in LoopSteps \ {"next"} => point \in Point
  /\ step \in {"begin", "next", "execute", "run", "stage"} =>
       \A p \in Point : p >= point => child[p] = "absent"
  /\ step \in {"write", "rename", "clean"} => child[point] = "staged"
  /\ step \in {"stage", "write", "rename"} => runStatus \in RunStatus
  /\ step = "child" => /\ child[point] = "published" <=> execErr = "none"
                       /\ execErr = "none" => runStatus \in RunStatus

(* The tree exists from its creation to the end of the sweep.              *)
TreeInv ==
  /\ tree = "absent" => step \in {"begin", "returned", "killed"}
  /\ tree = "final" => step = "returned"
  /\ step = "begin" => tree = "absent" /\ point = 1
  /\ step \in {"begin"} \cup LoopSteps => files = {}

(* A record has a run's status exactly when it says executed, and the      *)
(* sweep knows of every cancellation in it.                                *)
RecordInv ==
  \A p \in Point :
    /\ record[p].run # "none" <=> record[p].status = "executed"
    /\ ~interrupted => record[p].status # "cancelled" /\ record[p].run # "cancelled"

(* A staged directory belongs to the run in progress, or could not be      *)
(* removed.                                                                *)
StagedInv ==
  ~removalFailed =>
    \A p \in Point : child[p] = "staged" =>
      p = point /\ step \in {"write", "rename", "clean", "killed"}

(* The loop left the current point for a reason.                           *)
FinishInv ==
  /\ step \in {"finish"} \cup PublishSteps => (~interrupted /\ ~fatal => Points < point)
  /\ manifest.status # "none" =>
       /\ step \in PublishSteps \cup {"abort", "returned", "killed"}
       /\ manifest.status = "completed" <=> ~interrupted /\ ~fatal
       /\ manifest.status = "failed" <=> ~interrupted /\ fatal
       /\ manifest.complete <=> ~interrupted /\ ~fatal /\ WithStatus("not_started") = {}
  /\ step \in PublishSteps => manifest.status # "none"

(* The publication goes on only while it is valid, and its errors lead to  *)
(* Abort.                                                                  *)
PublicationInv ==
  /\ step \in {"manifest", "summary", "commit"} => ValidPublication
  /\ step \in {"summary", "commit"} => "experiment.json" \in files
  /\ step = "commit" => "summary.csv" \in files
  /\ runErr # "none" => step \in {"abort", "returned", "killed"}
  /\ step = "abort" => runErr # "none" /\ tree = "staging"

(* The four properties are not inductive: none of them says what becomes   *)
(* of a directory between its creation and the record of it.               *)
SweepInv ==
  /\ TypeInv /\ LoopInv /\ TreeInv /\ RecordInv /\ StagedInv /\ FinishInv /\ PublicationInv
  /\ EvidenceRecorded /\ RefusalExplained /\ NothingLeftBehind

LEMMA SweepStarts == Init => SweepInv
  <1> SUFFICES ASSUME Init PROVE SweepInv
    OBVIOUS
  <1> USE SweepAssumption DEF Init
  <1>1. TypeInv
    <2>1. record \in [Point -> [status : PointStatus, run : RunStatus \cup {"none"}]]
      BY DEF PointStatus
    <2>2. manifest \in [status : {"none", "completed", "failed", "cancelled"}, complete : BOOLEAN]
      OBVIOUS
    <2>3. step \in Steps /\ cancelled \in BOOLEAN /\ point \in Nat \ {0}
      BY DEF Steps
    <2>4. child \in [Point -> {"absent", "staged", "published"}]
      OBVIOUS
    <2>5. interrupted \in BOOLEAN /\ fatal \in BOOLEAN /\ removalFailed \in BOOLEAN
      OBVIOUS
    <2> QED
      BY <2>1, <2>2, <2>3, <2>4, <2>5 DEF TypeInv
  <1>2. LoopInv /\ TreeInv /\ RecordInv /\ StagedInv
    BY DEF LoopInv, TreeInv, RecordInv, StagedInv, LoopSteps, NotStarted
  <1>3. FinishInv /\ PublicationInv
    BY DEF FinishInv, PublicationInv, PublishSteps
  <1>4. EvidenceRecorded /\ RefusalExplained /\ NothingLeftBehind
    BY DEF EvidenceRecorded, RefusalExplained, NothingLeftBehind
  <1> QED
    BY <1>1, <1>2, <1>3, <1>4 DEF SweepInv

(***************************************************************************)
(* Execute and the loop                                                    *)
(***************************************************************************)

LEMMA BeginKeeps ==
  ASSUME SweepInv, BeginPublication \/ BeginFails \/ StartPoint \/ LoopInterrupted \/ LoopEnds
  PROVE  SweepInv'
  <1> USE SweepAssumption DEF SweepInv, loopVars, execVars, diskVars, MorePoints
  <1>0. /\ UNCHANGED <<cancelled, point, fatal, record, manifest, runStatus, execErr, child, files,
                      removalFailed>>
        /\ \/ /\ step = "begin" /\ step' = "next" /\ tree' = "staging"
              /\ UNCHANGED <<interrupted, runErr>>
           \/ /\ step = "begin" /\ runErr' = "begin" /\ UNCHANGED interrupted
              /\ \/ step' = "returned" /\ UNCHANGED tree
                 \/ step' = "abort" /\ tree' = "staging"
           \/ /\ step = "next" /\ point <= Points /\ step' = "execute"
              /\ UNCHANGED <<interrupted, runErr, tree>>
           \/ /\ step = "next" /\ step' = "finish" /\ UNCHANGED <<runErr, tree>>
              /\ \/ interrupted' = TRUE
                 \/ ~(point <= Points) /\ UNCHANGED interrupted
    BY DEF BeginPublication, BeginFails, StartPoint, LoopInterrupted, LoopEnds
  <1> USE <1>0
  <1>1. TypeInv'
    <2>1. step' \in Steps
      BY DEF Steps, LoopSteps
    <2>2. interrupted' \in BOOLEAN /\ runErr' \in {"none", "begin", "refused", "io"}
      BY DEF TypeInv
    <2>3. tree' \in {"absent", "staging", "final"}
      BY DEF TypeInv
    <2> QED
      BY <2>1, <2>2, <2>3 DEF TypeInv
  <1>2. LoopInv'
    <2>1. point \in Nat /\ Points \in Nat
      BY DEF TypeInv
    <2>2. step' = "execute" => point \in Point /\ step = "next"
      <3>1. step = "begin" => point = 1
        BY DEF TreeInv
      <3>2. step' = "execute" => point <= Points /\ step = "next"
        OBVIOUS
      <3>3. point # 0
        BY DEF TypeInv
      <3> QED
        BY <2>1, <3>2, <3>3 DEF Point
    <2> QED
      BY <2>2 DEF LoopInv, LoopSteps
  <1>3. TreeInv'
    BY DEF TreeInv, LoopSteps
  <1>4. RecordInv'
    BY DEF RecordInv
  <1>5. StagedInv'
    BY DEF StagedInv
  <1>6. FinishInv'
    BY DEF FinishInv, PublishSteps, WithStatus, TypeInv, LoopInv, LoopSteps
  <1>7. PublicationInv'
    BY DEF PublicationInv, TreeInv, LoopSteps
  <1>8. EvidenceRecorded'
    BY DEF EvidenceRecorded, LoopInv, TreeInv, Point, NotStarted
  <1>9. RefusalExplained' /\ NothingLeftBehind'
    BY DEF RefusalExplained, NothingLeftBehind, WithStatus, TreeInv, PublicationInv
  <1> QED
    BY <1>1, <1>2, <1>3, <1>4, <1>5, <1>6, <1>7, <1>8, <1>9

LEMMA ExecuteKeeps ==
  ASSUME SweepInv, ExecuteStep
  PROVE  SweepInv'
  <1> USE SweepAssumption DEF SweepInv, loopVars, execVars, diskVars
  <1>0. /\ UNCHANGED <<cancelled, point, interrupted, fatal, record, manifest, runErr, files, tree>>
        /\ step \in LoopSteps \ {"next", "child"}
        /\ step' \in LoopSteps \ {"next", "execute"}
    BY DEF ExecuteStep, PrepareChild, RunChild, StageChild, WriteChild, RenameChild, CleanChild,
           Answer, LoopSteps
  <1>t. point \in Point
    BY <1>0 DEF LoopInv
  <1>1. TypeInv'
    <2>1. step' \in Steps
      BY <1>0 DEF Steps
    <2>2. runStatus' \in RunStatus \cup {"none"} /\ execErr' \in {"none", "preparation", "static", "runtime"}
      BY DEF ExecuteStep, PrepareChild, RunChild, StageChild, WriteChild, RenameChild, CleanChild,
           Answer, TypeInv
    <2>3. child' \in [Point -> {"absent", "staged", "published"}] /\ removalFailed' \in BOOLEAN
      BY DEF ExecuteStep, PrepareChild, RunChild, StageChild, WriteChild, RenameChild, CleanChild,
           Answer, TypeInv
    <2> QED
      BY <2>1, <2>2, <2>3, <1>0 DEF TypeInv
  <1>2. LoopInv'
    <2>1. PrepareChild => LoopInv'
      <3>1. SUFFICES ASSUME PrepareChild PROVE LoopInv'
        OBVIOUS
      <3>2. child[point] = "absent" /\ child' = child
        BY <1>t, <3>1 DEF PrepareChild, LoopInv, Point
      <3>3. step' = "run" \/ (step' = "child" /\ execErr' # "none")
        BY <3>1 DEF PrepareChild, Answer
      <3> QED
        BY <3>1, <3>2, <3>3, <1>0, <1>t DEF PrepareChild, LoopInv, LoopSteps
    <2>3. RunChild => LoopInv'
      <3>1. SUFFICES ASSUME RunChild PROVE LoopInv'
        OBVIOUS
      <3>2. child[point] = "absent" /\ child' = child
        BY <1>t, <3>1 DEF RunChild, LoopInv, Point
      <3>3. \/ step' = "stage" /\ runStatus' \in RunStatus
            \/ step' = "child" /\ execErr' # "none"
        BY <3>1 DEF RunChild, Answer
      <3> QED
        BY <3>1, <3>2, <3>3, <1>0, <1>t DEF RunChild, LoopInv, LoopSteps
    <2>2. StageChild \/ WriteChild \/ RenameChild \/ CleanChild => LoopInv'
      BY <1>0, <1>t DEF StageChild, WriteChild, RenameChild, CleanChild, Answer, LoopInv, LoopSteps, TypeInv
    <2> QED
      BY <2>1, <2>2, <2>3 DEF ExecuteStep
  <1>3. TreeInv'
    BY <1>0 DEF TreeInv, LoopSteps
  <1>4. RecordInv'
    BY <1>0 DEF RecordInv
  <1>5. StagedInv'
    BY <1>t DEF ExecuteStep, PrepareChild, RunChild, StageChild, WriteChild, RenameChild, CleanChild,
           Answer, StagedInv, TypeInv
  <1>6. FinishInv'
    BY <1>0 DEF FinishInv, PublishSteps, WithStatus, LoopSteps
  <1>7. PublicationInv'
    BY <1>0 DEF PublicationInv, LoopSteps
  <1>8. EvidenceRecorded'
    BY <1>0, <1>t DEF ExecuteStep, PrepareChild, RunChild, StageChild, WriteChild, RenameChild, CleanChild,
           Answer, EvidenceRecorded, TypeInv, LoopInv, LoopSteps, Point, NotStarted
  <1>9. RefusalExplained' /\ NothingLeftBehind'
    BY <1>0 DEF RefusalExplained, NothingLeftBehind, LoopSteps, PublicationInv
  <1> QED
    BY <1>1, <1>2, <1>3, <1>4, <1>5, <1>6, <1>7, <1>8, <1>9

LEMMA ChildKeeps ==
  ASSUME SweepInv, ChildReturned
  PROVE  SweepInv'
  <1> USE SweepAssumption DEF SweepInv, loopVars, execVars, diskVars
  <1>0. /\ step = "child"
        /\ UNCHANGED <<cancelled, manifest, runErr, child, files, tree, removalFailed>>
        /\ execErr' = "none" /\ runStatus' = "none"
    BY DEF ChildReturned, ChildCancelled, ChildUnprepared, ChildFatal, ChildExecuted, RecordPoint
  <1>a. point \in Point /\ point \in Nat \ {0}
    BY <1>0 DEF LoopInv, LoopSteps, TypeInv
  <1>b. PICK status \in PointStatus, run \in RunStatus \cup {"none"} :
          /\ record' = [record EXCEPT ![point] = [status |-> status, run |-> run]]
          /\ status = "executed" <=> run # "none"
          /\ status = "executed" <=> child[point] = "published"
          /\ ~interrupted' => status # "cancelled" /\ run # "cancelled"
          /\ \/ /\ step' = "finish" /\ point' = point
                /\ \/ interrupted' = TRUE /\ UNCHANGED fatal
                   \/ interrupted' = interrupted /\ fatal' = TRUE
             \/ /\ step' = "next" /\ point' = point + 1 /\ UNCHANGED <<interrupted, fatal>>
                /\ status \in {"executed", "preflight_failed"}
    <2>1. CASE ChildCancelled
      BY <2>1, <1>0 DEF ChildCancelled, RecordPoint, PointStatus, LoopInv, ChildInterrupted
    <2>2. CASE ChildUnprepared
      <3>1. /\ record' = [record EXCEPT ![point] = [status |-> "preflight_failed", run |-> "none"]]
            /\ step' = "next" /\ point' = point + 1 /\ UNCHANGED <<interrupted, fatal>>
            /\ execErr # "none"
        BY <2>2 DEF ChildUnprepared, RecordPoint, Advance
      <3> QED
        BY <3>1, <1>0 DEF PointStatus, LoopInv
    <2>3. CASE ChildFatal
      <3>1. record[point] = NotStarted
        BY <1>0, <1>a DEF LoopInv, LoopSteps, Point
      <3>2. record' = [record EXCEPT ![point] = [status |-> "not_started", run |-> "none"]]
        BY <3>1, <2>3 DEF ChildFatal, TypeInv, NotStarted
      <3> QED
        BY <2>3, <3>2, <1>0 DEF ChildFatal, PointStatus, LoopInv, RunStatus
    <2>4. CASE ChildExecuted
      <3>1. /\ record' = [record EXCEPT ![point] = [status |-> "executed", run |-> runStatus]]
            /\ execErr = "none" /\ UNCHANGED fatal
            /\ \/ interrupted' = TRUE /\ step' = "finish" /\ point' = point
               \/ /\ interrupted' = interrupted /\ step' = "next" /\ point' = point + 1
                  /\ runStatus # "cancelled"
        BY <2>4 DEF ChildExecuted, RecordPoint, Advance
      <3>2. runStatus \in RunStatus /\ child[point] = "published"
        BY <3>1, <1>0 DEF LoopInv
      <3> QED
        BY <3>1, <3>2 DEF PointStatus, RunStatus
    <2> QED
      BY <2>1, <2>2, <2>3, <2>4 DEF ChildReturned
  <1>c. /\ record'[point] = [status |-> status, run |-> run]
        /\ \A p \in Point : p # point => record'[p] = record[p]
    BY <1>a, <1>b DEF TypeInv
  <1>1. TypeInv'
    <2>1. step' \in Steps /\ point' \in Nat \ {0}
      BY <1>a, <1>b DEF Steps, LoopSteps
    <2>2. record' \in [Point -> [status : PointStatus, run : RunStatus \cup {"none"}]]
      BY <1>b DEF TypeInv
    <2>3. interrupted' \in BOOLEAN /\ fatal' \in BOOLEAN
      BY <1>b DEF TypeInv
    <2> QED
      BY <1>0, <2>1, <2>2, <2>3 DEF TypeInv
  <1>2. LoopInv'
    <2>1. step' = "next" => \A p \in Point : p >= point' => record'[p] = NotStarted /\ child'[p] = "absent"
      BY <1>0, <1>a, <1>b, <1>c DEF LoopInv, LoopSteps, EvidenceRecorded, TreeInv, Point
    <2> QED
      BY <2>1, <1>0, <1>b DEF LoopInv, LoopSteps
  <1>3. TreeInv'
    BY <1>0, <1>b DEF TreeInv, LoopSteps
  <1>4. RecordInv'
    BY <1>0, <1>b, <1>c DEF RecordInv, LoopInv, LoopSteps
  <1>5. StagedInv'
    BY <1>0 DEF StagedInv
  <1>6. FinishInv'
    BY <1>0, <1>b DEF FinishInv, PublishSteps, WithStatus, LoopInv, LoopSteps
  <1>7. PublicationInv'
    BY <1>0, <1>b DEF PublicationInv
  <1>8. EvidenceRecorded'
    <2>1. tree # "absent" /\ tree' = tree
      BY <1>0 DEF TreeInv
    <2>2. \A p \in Point : p < point' => record'[p].status \in {"executed", "preflight_failed"}
      BY <1>a, <1>b, <1>c, <2>1 DEF EvidenceRecorded, Point
    <2>3. \A p \in Point : p > point' => record'[p].status = "not_started" /\ child'[p] = "absent"
      BY <1>0, <1>a, <1>b, <1>c, <2>1 DEF EvidenceRecorded, Point
    <2>4. \A p \in Point : record'[p].status = "executed" => child'[p] = "published"
      BY <1>0, <1>b, <1>c, <2>1 DEF EvidenceRecorded
    <2>5. \A p \in Point : child'[p] = "published" => record'[p].status = "executed"
      BY <1>0, <1>b, <1>c, <2>1 DEF EvidenceRecorded
    <2> QED
      BY <2>2, <2>3, <2>4, <2>5 DEF EvidenceRecorded
  <1>9. RefusalExplained' /\ NothingLeftBehind'
    BY <1>0, <1>b DEF RefusalExplained, NothingLeftBehind, PublicationInv
  <1> QED
    BY <1>1, <1>2, <1>3, <1>4, <1>5, <1>6, <1>7, <1>8, <1>9

(***************************************************************************)
(* The publication                                                         *)
(***************************************************************************)

(* After the last child nothing but Abort touches the records and the      *)
(* directories.                                                            *)
LEMMA SettledValid ==
  ASSUME UNCHANGED <<record, manifest, child>>
  PROVE  /\ WithStatus("executed")' = WithStatus("executed")
         /\ WithStatus("not_started")' = WithStatus("not_started")
         /\ WithStatus("preflight_failed")' = WithStatus("preflight_failed")
         /\ ValidPublication' <=> ValidPublication
  BY DEF WithStatus, WithRun, ValidPublication, StatusConsistent, ChildrenReferenced, Entries

LEMMA SetStatusKeeps ==
  ASSUME SweepInv, SetStatus
  PROVE  SweepInv'
  <1> USE SweepAssumption DEF SweepInv, loopVars, execVars, diskVars
  <1>0. /\ step = "finish" /\ step' = "publish"
        /\ UNCHANGED <<cancelled, point, interrupted, fatal, record, runErr, runStatus, execErr,
                      child, files, tree, removalFailed>>
    BY DEF SetStatus
  <1>a. /\ manifest' \in [status : {"none", "completed", "failed", "cancelled"}, complete : BOOLEAN]
        /\ manifest'.status # "none"
        /\ manifest'.status = "completed" <=> ~interrupted /\ ~fatal
        /\ manifest'.status = "failed" <=> ~interrupted /\ fatal
        /\ manifest'.complete <=> ~interrupted /\ ~fatal /\ WithStatus("not_started") = {}
    <2>1. interrupted \in BOOLEAN /\ fatal \in BOOLEAN
      BY DEF TypeInv
    <2>2. CASE interrupted
      BY <2>1, <2>2 DEF SetStatus
    <2>3. CASE ~interrupted /\ fatal
      BY <2>1, <2>3 DEF SetStatus
    <2>4. CASE ~interrupted /\ ~fatal
      BY <2>1, <2>4 DEF SetStatus
    <2> QED
      BY <2>1, <2>2, <2>3, <2>4
  <1>1. TypeInv'
    <2>1. step' \in Steps
      BY <1>0 DEF Steps, PublishSteps
    <2> QED
      BY <1>0, <1>a, <2>1 DEF TypeInv
  <1>2. LoopInv' /\ TreeInv' /\ RecordInv' /\ StagedInv'
    BY <1>0 DEF LoopInv, LoopSteps, TreeInv, RecordInv, StagedInv
  <1>3. FinishInv'
    <2>1. WithStatus("not_started")' = WithStatus("not_started")
      BY <1>0 DEF WithStatus
    <2> QED
      BY <1>0, <1>a, <2>1 DEF FinishInv, PublishSteps
  <1>4. PublicationInv'
    BY <1>0 DEF PublicationInv
  <1>5. EvidenceRecorded' /\ RefusalExplained' /\ NothingLeftBehind'
    BY <1>0 DEF EvidenceRecorded, RefusalExplained, NothingLeftBehind, PublicationInv
  <1> QED
    BY <1>1, <1>2, <1>3, <1>4, <1>5

(* The validator's two reasons to refuse.                                  *)
LEMMA RefusalReasons ==
  ASSUME SweepInv, step = "publish", ~ValidPublication
  PROVE  \/ removalFailed
         \/ interrupted /\ WithStatus("executed") \cup WithStatus("preflight_failed") = Point
  <1> USE DEF SweepInv
  <1>1. SUFFICES ASSUME ~removalFailed
                 PROVE  interrupted /\ WithStatus("executed") \cup WithStatus("preflight_failed") = Point
    OBVIOUS
  <1>2. tree # "absent" /\ manifest.status # "none"
    BY DEF TreeInv, FinishInv, PublishSteps
  <1>3. ChildrenReferenced
    <2>1. \A p \in Point : child[p] \in {"absent", "staged", "published"}
      BY DEF TypeInv
    <2>2. \A p \in Point : child[p] # "staged"
      BY <1>1 DEF StagedInv
    <2>3. \A p \in Point : child[p] = "published" <=> record[p].status = "executed"
      BY <1>2 DEF EvidenceRecorded
    <2> QED
      BY <2>1, <2>2, <2>3 DEF ChildrenReferenced, Entries, WithStatus
  <1>4. ~StatusConsistent
    BY <1>3 DEF ValidPublication
  <1>5. \A p \in Point : record[p].status \in PointStatus
    BY DEF TypeInv
  <1>6. manifest.status \in {"completed", "failed", "cancelled"} /\ manifest.complete \in BOOLEAN
    BY <1>2 DEF TypeInv
  <1>7. CASE interrupted
    <2>1. manifest.status = "cancelled" /\ ~manifest.complete
      BY <1>2, <1>6, <1>7 DEF FinishInv
    <2>2. WithStatus("cancelled") \cup WithStatus("not_started") = {}
      BY <1>4, <2>1 DEF StatusConsistent
    <2> QED
      BY <1>5, <1>7, <2>2 DEF WithStatus, PointStatus
  <1>8. CASE ~interrupted /\ fatal
    BY <1>2, <1>4, <1>6, <1>8 DEF FinishInv, StatusConsistent
  <1>9. CASE ~interrupted /\ ~fatal
    <2>1. \A p \in Point : record[p].status \in {"executed", "preflight_failed"}
      <3>1. Points < point
        BY <1>9 DEF FinishInv, PublishSteps
      <3>2. \A p \in Point : p < point
        BY <3>1, SweepAssumption DEF Point, TypeInv
      <3> QED
        BY <1>2, <3>2 DEF EvidenceRecorded
    <2>2. WithStatus("not_started") = {} /\ WithStatus("cancelled") = {}
      BY <2>1 DEF WithStatus
    <2>3. manifest.status = "completed" /\ manifest.complete
      BY <1>2, <1>9, <2>2 DEF FinishInv
    <2> QED
      BY <1>4, <2>2, <2>3 DEF StatusConsistent
  <1> QED
    BY <1>7, <1>8, <1>9 DEF TypeInv

LEMMA PublishKeeps ==
  ASSUME SweepInv, ValidatePublication \/ WriteManifest \/ WriteSummary \/ CommitTree
  PROVE  SweepInv'
  <1> USE SweepAssumption DEF SweepInv, loopVars, execVars, diskVars
  <1>0. UNCHANGED <<cancelled, point, interrupted, fatal, record, manifest, runStatus, execErr,
                    child, removalFailed>>
    BY DEF ValidatePublication, WriteManifest, WriteSummary, CommitTree
  <1>a. /\ step \in PublishSteps
        /\ \/ /\ step' \in PublishSteps /\ ValidPublication /\ UNCHANGED <<tree, runErr>>
              /\ step' \in {"summary", "commit"} => "experiment.json" \in files'
              /\ step' = "commit" => "summary.csv" \in files'
              /\ files' \in SUBSET {"experiment.json", "summary.csv"}
           \/ /\ step' = "abort" /\ runErr' \in {"refused", "io"} /\ UNCHANGED <<tree, files>>
              /\ runErr' = "refused" => step = "publish" /\ ~ValidPublication
           \/ /\ step' = "returned" /\ step = "commit" /\ tree' = "final" /\ UNCHANGED <<runErr, files>>
    <2>1. CASE ValidatePublication
      BY <2>1 DEF ValidatePublication, PublishSteps, TypeInv
    <2>2. CASE WriteManifest
      BY <2>2 DEF WriteManifest, WriteFails, PublishSteps, PublicationInv, TypeInv
    <2>3. CASE WriteSummary
      BY <2>3 DEF WriteSummary, WriteFails, PublishSteps, PublicationInv, TypeInv
    <2>4. CASE CommitTree
      BY <2>4 DEF CommitTree, PublishSteps
    <2> QED
      BY <2>1, <2>2, <2>3, <2>4
  <1>b. tree = "staging" /\ runErr = "none"
    BY <1>a DEF TreeInv, TypeInv, PublicationInv, PublishSteps
  <1>1. TypeInv'
    <2>1. step' \in Steps
      BY <1>a DEF Steps, PublishSteps
    <2>2. runErr' \in {"none", "begin", "refused", "io"} /\ tree' \in {"absent", "staging", "final"}
      BY <1>a DEF TypeInv
    <2>3. files' \subseteq {"experiment.json", "summary.csv"}
      BY <1>a DEF TypeInv
    <2> QED
      BY <1>0, <2>1, <2>2, <2>3 DEF TypeInv
  <1>2. LoopInv' /\ TreeInv' /\ RecordInv' /\ StagedInv'
    BY <1>0, <1>a, <1>b DEF LoopInv, LoopSteps, PublishSteps, TreeInv, RecordInv, StagedInv
  <1>3. FinishInv'
    BY <1>0, <1>a, SettledValid DEF FinishInv, PublishSteps
  <1>4. PublicationInv'
    BY <1>0, <1>a, <1>b, SettledValid DEF PublicationInv, PublishSteps
  <1>5. EvidenceRecorded'
    <2>1. EvidenceRecorded /\ tree # "absent" /\ step \notin {"child", "killed"}
      BY <1>a, <1>b DEF PublishSteps
    <2> QED
      BY <1>0, <2>1 DEF EvidenceRecorded, PublishSteps
  <1>6. RefusalExplained'
    BY <1>0, <1>a, <1>b, SettledValid, RefusalReasons DEF RefusalExplained
  <1>7. NothingLeftBehind'
    BY <1>a, <1>b DEF NothingLeftBehind, PublishSteps
  <1> QED
    BY <1>1, <1>2, <1>3, <1>4, <1>5, <1>6, <1>7

LEMMA AbortKeeps ==
  ASSUME SweepInv, Abort
  PROVE  SweepInv'
  <1> USE SweepAssumption DEF SweepInv, loopVars, execVars, diskVars
  <1>0. /\ step = "abort" /\ step' = "returned"
        /\ UNCHANGED <<cancelled, point, interrupted, fatal, record, manifest, runErr, runStatus, execErr>>
        /\ \/ /\ tree' = "absent" /\ files' = {} /\ UNCHANGED removalFailed
              /\ child' = [p \in Point |-> "absent"]
           \/ removalFailed' = TRUE /\ UNCHANGED <<tree, child, files>>
    BY DEF Abort
  <1>a. runErr # "none" /\ tree = "staging"
    BY <1>0 DEF PublicationInv
  <1>1. TypeInv'
    <2>1. step' \in Steps /\ tree' \in {"absent", "staging", "final"} /\ removalFailed' \in BOOLEAN
      BY <1>0 DEF Steps, TypeInv
    <2>2. child' \in [Point -> {"absent", "staged", "published"}]
      BY <1>0 DEF TypeInv
    <2>3. files' \subseteq {"experiment.json", "summary.csv"}
      BY <1>0 DEF TypeInv
    <2> QED
      BY <1>0, <2>1, <2>2, <2>3 DEF TypeInv
  <1>2. LoopInv' /\ TreeInv' /\ RecordInv' /\ StagedInv'
    BY <1>0, <1>a DEF LoopInv, LoopSteps, TreeInv, RecordInv, StagedInv
  <1>3. FinishInv' /\ PublicationInv'
    BY <1>0 DEF FinishInv, PublishSteps, PublicationInv, WithStatus
  <1>4. EvidenceRecorded' /\ NothingLeftBehind'
    BY <1>0, <1>a DEF EvidenceRecorded, NothingLeftBehind
  <1>5. RefusalExplained'
    BY <1>0 DEF RefusalExplained, WithStatus
  <1> QED
    BY <1>1, <1>2, <1>3, <1>4, <1>5

(* Ctrl-C, the end of the process, and a step that leaves the sweep alone  *)
(* but for a removal that failed elsewhere.                                *)
OutsideStep ==
  /\ UNCHANGED <<loopVars, manifest, runErr, execVars, child, files, tree>>
  /\ cancelled' \in BOOLEAN
  /\ removalFailed' = removalFailed \/ removalFailed' = TRUE
  /\ \/ step' = step
     \/ step \notin {"returned", "killed"} /\ step' = "killed"

LEMMA OutsideKeeps ==
  ASSUME SweepInv, OutsideStep
  PROVE  SweepInv'
  <1> USE SweepAssumption DEF SweepInv, loopVars, execVars, diskVars, OutsideStep
  <1>1. TypeInv'
    <2>1. step' \in Steps /\ removalFailed' \in BOOLEAN
      BY DEF Steps, TypeInv
    <2> QED
      BY <2>1 DEF TypeInv
  <1>2. LoopInv' /\ TreeInv' /\ RecordInv' /\ StagedInv'
    BY DEF LoopInv, LoopSteps, TreeInv, RecordInv, StagedInv
  <1>3. FinishInv' /\ PublicationInv'
    BY SettledValid DEF FinishInv, PublishSteps, PublicationInv
  <1>4. EvidenceRecorded' /\ NothingLeftBehind'
    BY DEF EvidenceRecorded, NothingLeftBehind
  <1>5. RefusalExplained'
    BY SettledValid DEF RefusalExplained
  <1> QED
    BY <1>1, <1>2, <1>3, <1>4, <1>5

LEMMA SweepSteps ==
  ASSUME SweepInv, [Next]_vars
  PROVE  SweepInv'
  <1> USE DEF SweepInv
  <1>1. CASE ExecuteStep
    BY <1>1, ExecuteKeeps
  <1>2. CASE ChildReturned
    BY <1>2, ChildKeeps
  <1>3. CASE StartPoint \/ PublicationStep
    BY <1>3, BeginKeeps, SetStatusKeeps, PublishKeeps, AbortKeeps DEF PublicationStep
  <1>4. CASE CancelParent \/ Kill \/ Terminated \/ UNCHANGED vars
    <2>1. cancelled \in BOOLEAN
      BY DEF TypeInv
    <2>2. OutsideStep
      BY <1>4, <2>1 DEF CancelParent, Kill, Terminated, vars, diskVars, OutsideStep
    <2> QED
      BY <2>2, OutsideKeeps
  <1> QED
    BY <1>1, <1>2, <1>3, <1>4 DEF Next

(* SweepInv, from which the others follow: where each directory and each   *)
(* record is at every step of Run, Execute and Publish.                    *)
THEOREM SweepInvariant == Spec => []SweepInv
  <1>1. Init => SweepInv
    BY SweepStarts
  <1>2. SweepInv /\ [Next]_vars => SweepInv'
    BY SweepSteps
  <1> QED
    BY <1>1, <1>2, PTL DEF Spec

(* The manifest and the disk tell the same story at every moment, for any  *)
(* number of points (experiment/run.go:57-121).                            *)
THEOREM EvidenceRecordedCorrect == Spec => []EvidenceRecorded
  BY SweepInvariant, PTL DEF SweepInv

(* A finished sweep is refused by its own validator only after a removal   *)
(* that failed, or a Ctrl-C after its last child (experiment/writer.go).   *)
THEOREM RefusalExplainedCorrect == Spec => []RefusalExplained
  BY SweepInvariant, PTL DEF SweepInv

(* Run returns an error exactly when it publishes nothing, and leaves no   *)
(* staging directory that could be removed (experiment/run.go:42-52).      *)
THEOREM NothingLeftCorrect == Spec => []NothingLeftBehind
  BY SweepInvariant, PTL DEF SweepInv

LEMMA SuccessFollows == SweepInv => SuccessIsComplete
  <1> SUFFICES ASSUME SweepInv, Successful
               PROVE  SuccessIsComplete
    BY DEF SuccessIsComplete
  <1> USE DEF SweepInv
  <1>1. tree = "final" /\ ~interrupted
    BY DEF Successful, NothingLeftBehind, FinishInv
  <1>2. \A p \in Point : record[p].status = "executed" /\ record[p].run = "completed"
    BY DEF Successful, WithRun, WithStatus
  <1> QED
    BY <1>1, <1>2 DEF SuccessIsComplete, EvidenceRecorded

(* Exit status 0 of a sweep means a published tree with a completed run    *)
(* for every point, and no interruption (experiment/types.go:67).          *)
THEOREM SuccessCorrect == Spec => []SuccessIsComplete
  BY SweepInvariant, SuccessFollows, PTL

(***************************************************************************)
(* The sampler                                                             *)
(***************************************************************************)

SamplerTypeInv ==
  /\ measuring \in {"idle", "operation", "stopped"}
  /\ goroutine \in {"absent", "select", "sampled"}
  /\ current \in Nat
  /\ peak \in Nat
  /\ samples \in Nat
  /\ readings \in Seq(Nat)

(* The goroutine lives within a measurement.                               *)
GoroutineInv ==
  /\ measuring = "idle" => goroutine = "absent"
  /\ measuring = "operation" => goroutine # "absent"

(* The last reading may still be the goroutine's, between the ticker's     *)
(* case and the lock.                                                      *)
Recorded == IF goroutine = "sampled" THEN Len(readings) - 1 ELSE Len(readings)

PeakInv ==
  measuring # "idle" =>
    /\ evidence = NoEvidence
    /\ Recorded >= 1
    /\ samples = Recorded
    /\ \A i \in DOMAIN readings : i <= Recorded => readings[i] <= peak
    /\ \E i \in DOMAIN readings : readings[i] = peak
    /\ goroutine = "sampled" => current = readings[Len(readings)]

SamplerInv == SamplerTypeInv /\ GoroutineInv /\ PeakInv /\ EvidenceCoversSamples

LEMMA SamplerStarts == SamplerInit => SamplerInv
  BY DEF SamplerInit, SamplerInv, SamplerTypeInv, GoroutineInv, PeakInv, EvidenceCoversSamples

LEMMA MeasureStartsKeeps ==
  ASSUME SamplerInv, MeasureStarts
  PROVE  SamplerInv'
  <1>1. PICK reading \in Readings : peak' = reading /\ readings' = <<reading>>
    BY DEF MeasureStarts
  <1>2. reading \in Nat
    BY SamplerAssumption
  <1>3. Len(readings') = 1 /\ readings'[1] = reading /\ DOMAIN readings' = {1}
    BY <1>1
  <1> QED
    BY <1>1, <1>2, <1>3 DEF MeasureStarts, SamplerInv, SamplerTypeInv, GoroutineInv, PeakInv,
       Recorded, EvidenceCoversSamples

LEMMA TakeSampleKeeps ==
  ASSUME SamplerInv, TakeSample
  PROVE  SamplerInv'
  <1> USE DEF SamplerInv
  <1>1. PICK reading \in Readings : current' = reading /\ readings' = Append(readings, reading)
    BY DEF TakeSample
  <1>2. reading \in Nat /\ readings \in Seq(Nat)
    BY SamplerAssumption DEF SamplerTypeInv
  <1>3. /\ readings' \in Seq(Nat) /\ Len(readings') = Len(readings) + 1
        /\ readings'[Len(readings')] = reading
        /\ \A i \in DOMAIN readings : i \in DOMAIN readings' /\ readings'[i] = readings[i]
        /\ DOMAIN readings = 1 .. Len(readings) /\ DOMAIN readings' = 1 .. Len(readings) + 1
    BY <1>1, <1>2
  <1>4. measuring # "idle" /\ evidence = NoEvidence /\ goroutine = "select" /\ goroutine' = "sampled"
    BY DEF TakeSample, GoroutineInv, PeakInv
  <1>5. SamplerTypeInv' /\ GoroutineInv'
    BY <1>1, <1>2, <1>3, <1>4 DEF TakeSample, SamplerTypeInv, GoroutineInv
  <1>6. PeakInv'
    <2>1. Recorded' = Recorded /\ Recorded = Len(readings) /\ Len(readings) \in Nat
      BY <1>2, <1>3, <1>4 DEF Recorded
    <2>2. peak' = peak /\ samples' = samples /\ evidence' = evidence
      BY DEF TakeSample
    <2>3. \A i \in DOMAIN readings' : i <= Recorded' => readings'[i] <= peak'
      BY <1>3, <1>4, <2>1, <2>2 DEF PeakInv
    <2>4. \E i \in DOMAIN readings' : readings'[i] = peak'
      BY <1>3, <1>4, <2>2 DEF PeakInv
    <2>5. current' = readings'[Len(readings')]
      BY <1>1, <1>3
    <2> QED
      BY <1>4, <2>1, <2>2, <2>3, <2>4, <2>5 DEF PeakInv
  <1>7. EvidenceCoversSamples'
    BY <1>4 DEF TakeSample, EvidenceCoversSamples
  <1> QED
    BY <1>5, <1>6, <1>7

LEMMA UpdatePeakKeeps ==
  ASSUME SamplerInv, UpdatePeak
  PROVE  SamplerInv'
  <1> USE DEF SamplerInv
  <1>1. /\ goroutine = "sampled" /\ goroutine' = "select" /\ current' = 0
        /\ peak' = Higher(peak, current) /\ samples' = samples + 1
        /\ UNCHANGED <<measuring, evidence, readings>>
    BY DEF UpdatePeak
  <1>2. measuring # "idle" /\ evidence = NoEvidence
    BY <1>1 DEF GoroutineInv, PeakInv
  <1>3. /\ current \in Nat /\ peak \in Nat /\ samples \in Nat /\ Len(readings) \in Nat
        /\ DOMAIN readings = 1 .. Len(readings)
        /\ \A i \in DOMAIN readings : readings[i] \in Nat
    BY DEF SamplerTypeInv
  <1>4. /\ peak' \in {peak, current} /\ peak <= peak' /\ current <= peak' /\ peak' \in Nat
    BY <1>1, <1>3 DEF Higher
  <1>5. SamplerTypeInv' /\ GoroutineInv'
    BY <1>1, <1>2, <1>3, <1>4 DEF SamplerTypeInv, GoroutineInv
  <1>6. PeakInv'
    <2>1. Recorded = Len(readings) - 1 /\ Recorded' = Len(readings) /\ Recorded >= 1
      BY <1>1, <1>2 DEF Recorded, PeakInv
    <2>2. Len(readings) \in DOMAIN readings /\ readings[Len(readings)] = current
      BY <1>1, <1>2, <1>3, <2>1 DEF PeakInv
    <2>3. \A i \in DOMAIN readings : readings[i] <= peak'
      <3>1. TAKE i \in DOMAIN readings
      <3>2. i = Len(readings) \/ i <= Recorded
        BY <1>3, <2>1
      <3>3. i <= Recorded => readings[i] <= peak
        BY <1>2 DEF PeakInv
      <3> QED
        BY <1>3, <1>4, <2>2, <3>2, <3>3
    <2>4. \E i \in DOMAIN readings : readings[i] = peak'
      BY <1>2, <1>4, <2>2 DEF PeakInv
    <2>5. samples' = Recorded' /\ Recorded' >= 1
      BY <1>1, <1>2, <1>3, <2>1 DEF PeakInv
    <2> QED
      BY <1>1, <1>2, <2>3, <2>4, <2>5 DEF PeakInv
  <1>7. EvidenceCoversSamples'
    BY <1>1, <1>2 DEF EvidenceCoversSamples
  <1> QED
    BY <1>5, <1>6, <1>7

LEMMA MeasureReturnsKeeps ==
  ASSUME SamplerInv, MeasureReturns
  PROVE  SamplerInv'
  <1> USE DEF SamplerInv
  <1>1. PICK reading \in Readings :
          readings' = Append(readings, reading) /\ peak' = Higher(peak, reading)
    BY DEF MeasureReturns
  <1>2. /\ measuring = "stopped" /\ goroutine = "absent" /\ measuring' = "idle"
        /\ samples' = samples + 1 /\ evidence' = [peak |-> peak', samples |-> samples']
        /\ UNCHANGED <<goroutine, current>>
    BY DEF MeasureReturns, SamplerDone
  <1>3. /\ reading \in Nat /\ peak \in Nat /\ samples \in Nat /\ readings \in Seq(Nat)
        /\ Len(readings) \in Nat /\ \A i \in DOMAIN readings : readings[i] \in Nat
    BY SamplerAssumption DEF SamplerTypeInv
  <1>4. /\ readings' \in Seq(Nat) /\ Len(readings') = Len(readings) + 1
        /\ readings'[Len(readings')] = reading
        /\ \A i \in DOMAIN readings : i \in DOMAIN readings' /\ readings'[i] = readings[i]
        /\ DOMAIN readings = 1 .. Len(readings) /\ DOMAIN readings' = 1 .. Len(readings) + 1
    BY <1>1, <1>3
  <1>5. peak' \in {peak, reading} /\ peak <= peak' /\ reading <= peak' /\ peak' \in Nat
    BY <1>1, <1>3 DEF Higher
  <1>6. SamplerTypeInv' /\ GoroutineInv'
    BY <1>2, <1>3, <1>4, <1>5 DEF SamplerTypeInv, GoroutineInv
  <1>7. PeakInv'
    BY <1>2 DEF PeakInv
  <1>8. EvidenceCoversSamples'
    <2>1. /\ samples = Len(readings)
          /\ \A i \in DOMAIN readings : readings[i] <= peak
          /\ \E i \in DOMAIN readings : readings[i] = peak
      BY <1>2, <1>3, <1>4 DEF PeakInv, Recorded
    <2>2. evidence'.samples = Len(readings')
      BY <1>2, <1>4, <2>1
    <2>3. \A i \in DOMAIN readings' : readings'[i] <= evidence'.peak
      <3>1. TAKE i \in DOMAIN readings'
      <3>2. i = Len(readings') \/ i \in DOMAIN readings
        BY <1>3, <1>4
      <3>3. CASE i \in DOMAIN readings
        BY <1>2, <1>3, <1>4, <1>5, <2>1, <3>3
      <3> QED
        BY <1>2, <1>4, <1>5, <3>2, <3>3
    <2>4. \E i \in DOMAIN readings' : readings'[i] = evidence'.peak
      <3>1. Len(readings') \in DOMAIN readings'
        BY <1>3, <1>4
      <3> QED
        BY <1>2, <1>4, <1>5, <2>1, <3>1
    <2> QED
      BY <1>2, <2>2, <2>3, <2>4 DEF EvidenceCoversSamples
  <1> QED
    BY <1>6, <1>7, <1>8

LEMMA SamplerSteps ==
  ASSUME SamplerInv,
         MeasureStarts \/ SamplerStep \/ OperationReturned \/ MeasureReturns \/ UNCHANGED samplerVars
  PROVE  SamplerInv'
  <1>1. CASE OperationReturned \/ SeeStop \/ UNCHANGED samplerVars
    BY <1>1 DEF OperationReturned, SeeStop, samplerVars, SamplerInv, SamplerTypeInv, GoroutineInv,
       PeakInv, Recorded, EvidenceCoversSamples
  <1> QED
    BY <1>1, MeasureStartsKeeps, TakeSampleKeeps, UpdatePeakKeeps, MeasureReturnsKeeps DEF SamplerStep

(***************************************************************************)
(* The wrapper around Execute                                              *)
(***************************************************************************)

Executing == LoopSteps \ {"next"}

(* The counter of calls is the loop's point while the loop runs, and a run *)
(* that was kept is paired with its own point and its own resources.       *)
WrapperInv ==
  /\ nextPoint \in Nat
  /\ children \in [Point -> 0 .. Points]
  /\ step \in {"begin", "next"} => nextPoint = point - 1 /\ measuring = "idle"
  /\ step \in Executing => nextPoint = point
  /\ \A p \in Point :
       /\ children[p] # 0 => children[p] = p /\ p \in resources
       /\ children[p] # 0 <=> record[p].status = "executed"

LEMMA QuietKeepsWrapper ==
  ASSUME SweepInv, WrapperInv, UNCHANGED <<nextPoint, resources, children, record, point>>,
         \/ step' = step /\ (measuring' = measuring \/ step \notin {"begin", "next"})
         \/ step \in {"begin", "next"} /\ step' \notin Executing /\ UNCHANGED measuring
         \/ step \in Executing /\ step' \in Executing
         \/ step' \notin {"begin", "next"} \cup Executing
  PROVE  WrapperInv'
  <1>1. {"begin", "next"} \cap Executing = {}
    BY DEF Executing, LoopSteps
  <1> QED
    BY <1>1 DEF WrapperInv

LEMMA CallKeepsWrapper ==
  ASSUME SweepInv, WrapperInv, CallExecute
  PROVE  WrapperInv'
  <1>1. /\ step = "next" /\ step' = "execute" /\ point' = point /\ record' = record
        /\ nextPoint' = nextPoint + 1 /\ UNCHANGED <<resources, children>>
    BY DEF CallExecute, StartPoint, NextNumber, loopVars
  <1>2. nextPoint' = point /\ nextPoint' \in Nat
    BY <1>1 DEF WrapperInv, SweepInv, TypeInv
  <1> QED
    BY <1>1, <1>2 DEF WrapperInv, Executing, LoopSteps

LEMMA ReturnKeepsWrapper ==
  ASSUME SweepInv, WrapperInv, ExecuteReturns
  PROVE  WrapperInv'
  <1> USE DEF SweepInv
  <1>1. /\ step = "child" /\ measuring' = "idle" /\ nextPoint' = nextPoint
        /\ resources' = resources \cup {nextPoint}
        /\ children' = IF execErr = "none" THEN [children EXCEPT ![nextPoint] = point] ELSE children
    BY DEF ExecuteReturns, MeasureReturns, ChildReturned, ChildCancelled, ChildUnprepared, ChildFatal,
       ChildExecuted
  <1>2. nextPoint = point /\ point \in Point /\ point \in Nat /\ point # 0 /\ Points \in Nat
    BY <1>1, SweepAssumption DEF WrapperInv, LoopInv, LoopSteps, Executing, TypeInv
  <1>3. record[point] = NotStarted
    BY <1>1, <1>2 DEF LoopInv, LoopSteps, Point
  <1>4. /\ \A p \in Point : p # point => record'[p] = record[p]
        /\ record'[point].status = "executed" <=> execErr = "none"
        /\ \/ step' = "finish"
           \/ step' = "next" /\ point' = point + 1
    <2>1. record \in [Point -> [status : PointStatus, run : RunStatus \cup {"none"}]]
      BY DEF TypeInv
    <2>2. CASE ChildCancelled
      BY <1>2, <2>1, <2>2 DEF ChildCancelled, RecordPoint, ChildInterrupted
    <2>3. CASE ChildUnprepared
      BY <1>2, <2>1, <2>3 DEF ChildUnprepared, RecordPoint, Advance
    <2>4. CASE ChildFatal
      BY <1>2, <1>3, <2>1, <2>4 DEF ChildFatal, NotStarted
    <2>5. CASE ChildExecuted
      BY <1>2, <2>1, <2>5 DEF ChildExecuted, RecordPoint, Advance
    <2> QED
      BY <2>2, <2>3, <2>4, <2>5 DEF ExecuteReturns, ChildReturned
  <1>5. children' \in [Point -> 0 .. Points]
    BY <1>1, <1>2 DEF WrapperInv, Point
  <1>6. \A p \in Point : /\ children'[p] # 0 => children'[p] = p /\ p \in resources'
                         /\ children'[p] # 0 <=> record'[p].status = "executed"
    <2>1. TAKE p \in Point
    <2>2. CASE p # point
      BY <1>1, <1>2, <1>4, <2>2 DEF WrapperInv
    <2>3. CASE p = point /\ execErr = "none"
      BY <1>1, <1>2, <1>4, <2>3 DEF WrapperInv
    <2>4. CASE p = point /\ execErr # "none"
      <3>1. children[p] = 0
        BY <1>2, <1>3, <2>4 DEF WrapperInv, NotStarted
      <3> QED
        BY <1>1, <1>4, <2>4, <3>1
    <2> QED
      BY <2>2, <2>3, <2>4
  <1>7. step' \notin Executing
    BY <1>4 DEF Executing, LoopSteps
  <1> QED
    BY <1>1, <1>2, <1>4, <1>5, <1>6, <1>7 DEF WrapperInv

LEMMA ExperimentSteps ==
  ASSUME SweepInv, SamplerInv, WrapperInv, RunExperiment
  PROVE  SweepInv' /\ SamplerInv' /\ WrapperInv'
  <1>1. CASE CallExecute
    <2>1. [Next]_vars /\ MeasureStarts
      BY <1>1 DEF CallExecute, Next
    <2> QED
      BY <1>1, <2>1, SweepSteps, SamplerSteps, CallKeepsWrapper
  <1>2. CASE ExecuteEnds \/ SamplerRuns
    <2>1. /\ UNCHANGED vars /\ (SamplerStep \/ OperationReturned)
          /\ UNCHANGED <<nextPoint, resources, children, record, point, step>>
      BY <1>2 DEF ExecuteEnds, SamplerRuns, wrapperVars, vars, loopVars
    <2>2. measuring' = measuring \/ step = "child"
      BY <1>2 DEF ExecuteEnds, SamplerRuns, SamplerStep, TakeSample, UpdatePeak, SeeStop
    <2>3. WrapperInv'
      BY <2>1, <2>2, QuietKeepsWrapper
    <2> QED
      BY <2>1, <2>3, SweepSteps, SamplerSteps
  <1>3. CASE ExecuteReturns
    <2>1. [Next]_vars /\ MeasureReturns
      BY <1>3 DEF ExecuteReturns, Next
    <2> QED
      BY <1>3, <2>1, SweepSteps, SamplerSteps, ReturnKeepsWrapper
  <1>4. CASE (ExecuteStep \/ PublicationStep \/ CancelParent \/ Kill) /\ UNCHANGED <<wrapperVars, samplerVars>>
    <2>1. [Next]_vars
      BY <1>4 DEF Next
    <2>2. UNCHANGED samplerVars /\ UNCHANGED <<nextPoint, resources, children, measuring>>
      BY <1>4 DEF wrapperVars, samplerVars
    <2>3. UNCHANGED <<record, point>>
      <3>1. CASE ExecuteStep
        BY <3>1 DEF ExecuteStep, PrepareChild, RunChild, StageChild, WriteChild, RenameChild,
           CleanChild, loopVars
      <3>2. CASE PublicationStep
        BY <3>2 DEF PublicationStep, BeginPublication, BeginFails, LoopInterrupted, LoopEnds, SetStatus,
           ValidatePublication, WriteManifest, WriteSummary, CommitTree, Abort, loopVars
      <3> QED
        BY <1>4, <3>1, <3>2 DEF CancelParent, Kill, loopVars
    <2>4. \/ step' = step
          \/ step \in {"begin", "next"} /\ step' \notin Executing
          \/ step \in Executing /\ step' \in Executing
          \/ step' \notin {"begin", "next"} \cup Executing
      <3>1. CASE ExecuteStep
        BY <3>1 DEF ExecuteStep, PrepareChild, RunChild, StageChild, WriteChild, RenameChild,
           CleanChild, Answer, Executing, LoopSteps
      <3>2. CASE PublicationStep
        BY <3>2 DEF PublicationStep, BeginPublication, BeginFails, LoopInterrupted, LoopEnds, SetStatus,
           ValidatePublication, WriteManifest, WriteSummary, CommitTree, Abort, WriteFails, Executing, LoopSteps
      <3> QED
        BY <1>4, <3>1, <3>2 DEF CancelParent, Kill, Executing, LoopSteps
    <2>5. WrapperInv'
      BY <2>2, <2>3, <2>4, QuietKeepsWrapper
    <2> QED
      BY <2>1, <2>2, <2>5, SweepSteps, SamplerSteps
  <1> QED
    BY <1>1, <1>2, <1>3, <1>4 DEF RunExperiment

(***************************************************************************)
(* The calibration's own evidence                                          *)
(***************************************************************************)

WriterSteps == {"validate", "stage", "manifest", "summary", "commit", "clean"}

(* Only a calibration whose experiment was published evaluates it, and     *)
(* what it says of a point holds of that point's own run.                  *)
ManifestInv ==
  /\ calStep \in {"experiment", "returned", "killed"} \cup WriterSteps
  /\ calStep = "experiment" => calErr = "none" /\ calTree = "absent" /\ clean = {} /\ calFiles = {}
  /\ calStep \in WriterSteps \/ calTree = "final" => step = "returned" /\ runErr = "none"
  /\ calTree = "final" <=> calStep = "returned" /\ calErr = "none"
  /\ calErr # "refused"
  /\ calErr # "none" => calStep \in {"clean", "returned", "killed"}
  /\ calStep = "clean" => calErr # "none"
  /\ calStep \in {"validate", "stage", "manifest"} => calFiles = {}
  /\ calStep = "summary" => calFiles = {"calibration.json"}
  /\ calStep = "commit" \/ calTree = "final" => calFiles = {"calibration.json", "summary.csv"}
  /\ \A p \in clean : p \in Point /\ children[p] # 0 /\ record[p].run = "completed"

(* CalibrationAccepted is not inductive: it says nothing of how runs and   *)
(* resources were paired while the sweep ran.                              *)
CalInv == SweepInv /\ SamplerInv /\ WrapperInv /\ ManifestInv

(* The evidence of a published experiment is settled and on the disk.      *)
LEMMA PublishedPoints ==
  ASSUME SweepInv, WrapperInv, step = "returned", runErr = "none"
  PROVE  /\ tree = "final"
         /\ \A p \in Point : ValidPoint(p)
  <1>1. tree = "final" /\ EvidenceRecorded /\ RecordInv
    BY DEF SweepInv, NothingLeftBehind
  <1>2. \A p \in Point : ValidPoint(p)
    <2>1. TAKE p \in Point
    <2>2. CASE children[p] # 0
      BY <1>1, <2>2 DEF WrapperInv, EvidenceRecorded, ValidPoint, Evaluated
    <2>3. CASE children[p] = 0
      BY <1>1, <2>3 DEF WrapperInv, RecordInv, ValidPoint, Evaluated
    <2> QED
      BY <2>2, <2>3
  <1> QED
    BY <1>1, <1>2

LEMMA CalibrationStarts == CalibrationInit => CalInv
  <1> SUFFICES ASSUME CalibrationInit PROVE CalInv
    OBVIOUS
  <1>1. SweepInv /\ SamplerInv
    BY SweepStarts, SamplerStarts DEF CalibrationInit
  <1>2. WrapperInv
    <2>1. Points \in Nat
      BY SweepAssumption
    <2> QED
      BY <2>1 DEF CalibrationInit, Init, SamplerInit, WrapperInv, Executing, LoopSteps
  <1>3. ManifestInv
    BY DEF CalibrationInit, ManifestInv, WriterSteps
  <1> QED
    BY <1>1, <1>2, <1>3 DEF CalInv

(* After the experiment, the calibration leaves its evidence alone.        *)
LEMMA AloneKeeps ==
  ASSUME SweepInv, SamplerInv, WrapperInv, UNCHANGED <<wrapperVars, samplerVars>>,
         \/ UNCHANGED vars
         \/ /\ UNCHANGED <<cancelled, step, loopVars, manifest, runErr, execVars, child, files, tree>>
            /\ removalFailed' = TRUE
  PROVE  /\ SweepInv' /\ SamplerInv' /\ WrapperInv'
         /\ UNCHANGED <<step, record, children, manifest, runErr, tree>>
  <1>1. OutsideStep
    BY DEF OutsideStep, SweepInv, TypeInv, vars, diskVars
  <1>2. UNCHANGED <<nextPoint, resources, children, record, point, step, measuring>>
    BY DEF wrapperVars, samplerVars, vars, loopVars
  <1>3. WrapperInv'
    BY <1>2, QuietKeepsWrapper
  <1>4. UNCHANGED <<manifest, runErr, tree>>
    BY DEF vars, diskVars
  <1> QED
    BY <1>1, <1>2, <1>3, <1>4, OutsideKeeps, SamplerSteps DEF samplerVars

LEMMA RunKeeps ==
  ASSUME CalInv, RunExperiment
  PROVE  CalInv'
  <1>1. SweepInv' /\ SamplerInv' /\ WrapperInv'
    BY ExperimentSteps DEF CalInv
  <1>2. ManifestInv'
    BY DEF RunExperiment, CalInv, ManifestInv, WriterSteps
  <1> QED
    BY <1>1, <1>2 DEF CalInv

LEMMA EvaluateKeeps ==
  ASSUME CalInv, RefuseRun \/ ExperimentFailed \/ EvaluatePoints \/ KillCalibration \/ UNCHANGED allVars
  PROVE  CalInv'
  <1> USE DEF CalInv
  <1>1. UNCHANGED vars /\ UNCHANGED <<wrapperVars, samplerVars>>
    BY DEF RefuseRun, ExperimentFailed, EvaluatePoints, KillCalibration, allVars, calVars
  <1>2. /\ SweepInv' /\ SamplerInv' /\ WrapperInv'
        /\ UNCHANGED <<step, record, children, manifest, runErr, tree>>
    BY <1>1, AloneKeeps
  <1>3. CASE RefuseRun \/ ExperimentFailed
    BY <1>2, <1>3 DEF RefuseRun, ExperimentFailed, ManifestInv, WriterSteps
  <1>4. CASE EvaluatePoints
    <2>1. PICK delivered \in SUBSET {p \in Evaluated : record[children[p]].run = "completed"} :
            clean' = delivered
      BY <1>4 DEF EvaluatePoints
    <2>2. \A p \in clean' : p \in Point /\ children[p] # 0 /\ record[p].run = "completed"
      BY <2>1 DEF Evaluated, WrapperInv
    <2> QED
      BY <1>2, <1>4, <2>2 DEF EvaluatePoints, ManifestInv, WriterSteps
  <1>5. CASE KillCalibration
    BY <1>2, <1>5 DEF KillCalibration, ManifestInv, WriterSteps
  <1>6. CASE UNCHANGED allVars
    BY <1>2, <1>6 DEF allVars, calVars, ManifestInv
  <1> QED
    BY <1>3, <1>4, <1>5, <1>6

LEMMA WriterKeeps ==
  ASSUME CalInv, WriteCalibration
  PROVE  CalInv'
  <1> USE DEF CalInv
  <1>1. /\ UNCHANGED <<wrapperVars, samplerVars, clean>>
        /\ \/ UNCHANGED vars
           \/ /\ UNCHANGED <<cancelled, step, loopVars, manifest, runErr, execVars, child, files, tree>>
              /\ removalFailed' = TRUE
    BY DEF WriteCalibration, ValidateCalibration, StageCalibration, WriteCalibrationManifest,
       WriteCalibrationSummary, WriteCalibrationFile, CommitCalibration, CleanCalibration, vars, diskVars
  <1>2. /\ SweepInv' /\ SamplerInv' /\ WrapperInv'
        /\ UNCHANGED <<step, record, children, manifest, runErr, tree>>
    BY <1>1, AloneKeeps
  <1>3. CASE ValidateCalibration
    <2>1. \A p \in Point : ValidPoint(p)
      BY <1>3, PublishedPoints DEF ValidateCalibration, ManifestInv, WriterSteps
    <2> QED
      BY <1>1, <1>2, <1>3, <2>1 DEF ValidateCalibration, ManifestInv, WriterSteps
  <1>4. CASE StageCalibration
    BY <1>1, <1>2, <1>4 DEF StageCalibration, ManifestInv, WriterSteps
  <1>5. CASE WriteCalibrationManifest
    BY <1>1, <1>2, <1>5 DEF WriteCalibrationManifest, WriteCalibrationFile, ManifestInv, WriterSteps
  <1>6. CASE WriteCalibrationSummary
    BY <1>1, <1>2, <1>6 DEF WriteCalibrationSummary, WriteCalibrationFile, ManifestInv, WriterSteps
  <1>7. CASE CommitCalibration
    BY <1>1, <1>2, <1>7 DEF CommitCalibration, ManifestInv, WriterSteps
  <1>8. CASE CleanCalibration
    BY <1>1, <1>2, <1>8 DEF CleanCalibration, ManifestInv, WriterSteps
  <1> QED
    BY <1>3, <1>4, <1>5, <1>6, <1>7, <1>8 DEF WriteCalibration

(* CalInv, from which the others follow: the sweep's invariant, the        *)
(* sampler's, the pairing of calls and points, and the writer's.           *)
THEOREM CalibrationInvariant == CalibrationSpec => []CalInv
  <1>1. CalInv /\ [CalibrationNext]_allVars => CalInv'
    BY RunKeeps, EvaluateKeeps, WriterKeeps DEF CalibrationNext, CalibrationEnded
  <1> QED
    BY CalibrationStarts, <1>1, PTL DEF CalibrationSpec

(* The evidence of the resources accounts for every sample, whatever the   *)
(* readings and however the sampler and the operation interleave           *)
(* (calibration/sampler.go:46-62).                                         *)
THEOREM SamplesCorrect == CalibrationSpec => []EvidenceCoversSamples
  BY CalibrationInvariant, PTL DEF CalInv, SamplerInv

(* A calibration of a published experiment passes its own validator,       *)
(* whichever points failed (calibration/run.go:90, writer.go).             *)
THEOREM AcceptedCorrect == CalibrationSpec => []CalibrationAccepted
  <1>1. CalInv => CalibrationAccepted
    BY DEF CalInv, ManifestInv, CalibrationAccepted
  <1> QED
    BY CalibrationInvariant, <1>1, PTL

(* Exit status 0 of a sweep or a calibration means that each planned point *)
(* has a completed run of its own in a published tree                      *)
(* (experiment/types.go:67, calibration/types.go).                         *)
THEOREM CompleteCorrect == CalibrationSpec => []CalibratedIsComplete
  <1>1. CalInv => CalibratedIsComplete
    <2> SUFFICES ASSUME CalInv, CalibrationSuccessful
                 PROVE  /\ tree = "final" /\ calTree = "final"
                        /\ ~interrupted
                        /\ \A p \in Point : /\ child[p] = "published"
                                            /\ record[p].run = "completed"
                                            /\ children[p] = p /\ p \in resources
      BY SuccessFollows DEF CalInv, CalibratedIsComplete
    <2> USE DEF CalInv
    <2>1. calTree = "final" /\ tree = "final"
      BY PublishedPoints DEF CalibrationSuccessful, ManifestInv
    <2>2. ~interrupted
      BY DEF CalibrationSuccessful, SweepInv, FinishInv
    <2>3. \A p \in Point : children[p] # 0 /\ record[p].run = "completed"
      BY DEF CalibrationSuccessful, ManifestInv
    <2>4. \A p \in Point : children[p] = p /\ p \in resources /\ record[p].status = "executed"
      BY <2>3 DEF WrapperInv
    <2> QED
      BY <2>1, <2>2, <2>3, <2>4 DEF SweepInv, EvidenceRecorded
  <1> QED
    BY CalibrationInvariant, <1>1, PTL

(***************************************************************************)
(* What a reader of the output directory sees                              *)
(***************************************************************************)

Experiment ==
  [status   |-> [p \in Point |-> record[p].status],
   run      |-> [p \in Point |-> record[p].run],
   children |-> Entries,
   files    |-> files,
   verdict  |-> manifest.status]

SeenExperiments == IF tree = "final" THEN {Experiment} ELSE {}

Evaluation == [evaluated |-> children, files |-> calFiles, verdict |-> manifest.status]

SeenCalibrations == IF calTree = "final" THEN {Evaluation} ELSE {}

LEMMA SamePoints == Store!Point = Point
  BY DEF Store!Point, Point

(* A tree about to be renamed into place is whole.                         *)
LEMMA CommittedWhole ==
  ASSUME SweepInv, step = "commit"
  PROVE  Store!Whole(Experiment)
  <1> USE DEF SweepInv
  <1>1. ValidPublication /\ files = {"experiment.json", "summary.csv"}
    BY DEF PublicationInv, TypeInv
  <1>2. EvidenceRecorded /\ tree # "absent" /\ manifest.status # "none" /\ point \in Nat
    BY DEF TreeInv, FinishInv, PublishSteps, TypeInv
  <1>3. \A p \in Point : record[p].status \in PointStatus
    BY DEF TypeInv
  <1>4. Store!Executed(Experiment) = WithStatus("executed") /\ Entries = WithStatus("executed")
    BY <1>1, SamePoints DEF Store!Executed, Experiment, WithStatus, ValidPublication, ChildrenReferenced
  <1>5. \A p \in Point : record[p].run # "none" <=> p \in WithStatus("executed")
    BY DEF RecordInv, WithStatus
  <1>6. \A p, q \in Point : p < q /\ record[p].status \in {"cancelled", "not_started"} =>
          record[q].status = "not_started"
    <2>1. TAKE p, q \in Point
    <2>2. HAVE p < q /\ record[p].status \in {"cancelled", "not_started"}
    <2>3. ~(p < point)
      BY <1>2, <2>2 DEF EvidenceRecorded
    <2>4. q > point
      BY <1>2, <2>2, <2>3, SweepAssumption DEF Point
    <2> QED
      BY <1>2, <2>4 DEF EvidenceRecorded
  <1>7. manifest.status = "completed" =>
          \A p \in Point : /\ record[p].status \in {"executed", "preflight_failed"}
                           /\ record[p].run # "cancelled"
    <2>1. HAVE manifest.status = "completed"
    <2>2. ~interrupted /\ ~fatal
      BY <2>1 DEF FinishInv
    <2>3. WithStatus("not_started") \cup WithStatus("cancelled") = {}
      BY <1>1, <2>1 DEF ValidPublication, StatusConsistent
    <2> QED
      BY <1>3, <2>2, <2>3 DEF WithStatus, PointStatus, RecordInv
  <1>8. manifest.status = "failed" =>
          \A p \in Point : record[p].status # "cancelled" /\ record[p].run # "cancelled"
    BY DEF FinishInv, RecordInv
  <1>9. manifest.status = "cancelled" =>
          \E p \in Point : record[p].status \in {"cancelled", "not_started"} \/ record[p].run = "cancelled"
    BY <1>1 DEF ValidPublication, StatusConsistent, WithRun, WithStatus
  <1> DEFINE e == Experiment
  <1>10. /\ e.files = files /\ e.children = Entries /\ e.verdict = manifest.status
         /\ \A p \in Point : e.status[p] = record[p].status /\ e.run[p] = record[p].run
    BY DEF Experiment
  <1> HIDE DEF e
  <1>11. Store!Executed(e) = WithStatus("executed")
    BY <1>4 DEF e
  <1>12. Store!Whole(e)
    BY <1>1, <1>4, <1>5, <1>6, <1>7, <1>8, <1>9, <1>10, <1>11, SamePoints DEF Store!Whole
  <1> QED
    BY <1>12 DEF e

(* A calibration about to be renamed into place agrees with its experiment.*)
LEMMA CommittedAgrees ==
  ASSUME CalInv, calStep = "commit"
  PROVE  tree = "final" /\ Store!Agrees(Evaluation, Experiment)
  <1> USE DEF CalInv
  <1>1. tree = "final" /\ calFiles = {"calibration.json", "summary.csv"}
    BY PublishedPoints DEF ManifestInv, WriterSteps
  <1>2. \A p \in Point : children[p] = IF record[p].status = "executed" THEN p ELSE 0
    BY DEF WrapperInv
  <1>3. Store!Executed(Experiment) = WithStatus("executed")
    BY SamePoints DEF Store!Executed, Experiment, WithStatus
  <1>4. /\ Evaluation.files = calFiles /\ Evaluation.verdict = manifest.status
        /\ Evaluation.evaluated = children /\ Experiment.verdict = manifest.status
    BY DEF Evaluation, Experiment
  <1> QED
    BY <1>1, <1>2, <1>3, <1>4, SamePoints DEF Store!Agrees, WithStatus

LEMMA StoreStarts == CalibrationInit => Store!Init
  BY DEF CalibrationInit, Init, Store!Init

(* Nothing takes a published experiment away.                              *)
LEMMA FinalStays ==
  ASSUME SweepInv, [CalibrationNext]_allVars, tree = "final"
  PROVE  tree' = "final"
  <1>1. step = "returned"
    BY DEF SweepInv, TreeInv
  <1>2. CASE RunExperiment
    BY <1>1, <1>2 DEF RunExperiment, CallExecute, StartPoint, ExecuteEnds, SamplerRuns, ExecuteReturns,
       ChildReturned, ChildCancelled, ChildUnprepared, ChildFatal, ChildExecuted, ExecuteStep,
       PrepareChild, RunChild, StageChild, WriteChild, RenameChild, CleanChild, PublicationStep,
       BeginPublication, BeginFails, LoopInterrupted, LoopEnds, SetStatus, ValidatePublication,
       WriteManifest, WriteSummary, CommitTree, Abort, CancelParent, Kill, vars, diskVars
  <1>3. CASE WriteCalibration
    BY <1>3 DEF WriteCalibration, ValidateCalibration, StageCalibration, WriteCalibrationManifest,
       WriteCalibrationSummary, WriteCalibrationFile, CommitCalibration, CleanCalibration, vars, diskVars
  <1>4. CASE RefuseRun \/ ExperimentFailed \/ EvaluatePoints \/ KillCalibration \/ UNCHANGED allVars
    BY <1>4 DEF RefuseRun, ExperimentFailed, EvaluatePoints, KillCalibration, allVars, vars, diskVars
  <1> QED
    BY <1>2, <1>3, <1>4 DEF CalibrationNext, CalibrationEnded

(* Each step publishes an experiment or a calibration, or nothing a reader *)
(* sees.                                                                   *)
LEMMA StoreSteps ==
  ASSUME CalInv, CalInv', [CalibrationNext]_allVars
  PROVE  [Store!Next]_(Store!vars)
  <1> USE DEF CalInv
  <1>1. CASE RunExperiment /\ CommitTree /\ tree' = "final"
    <2>1. /\ UNCHANGED <<record, manifest, child, files, calTree, calFiles, children>>
          /\ tree # "final" /\ calTree # "final" /\ step = "commit"
      <3>1. step = "commit" /\ UNCHANGED <<record, manifest, child, files>>
        BY <1>1 DEF CommitTree, loopVars
      <3>2. calStep = "experiment" /\ UNCHANGED <<calTree, calFiles>>
        BY <1>1 DEF RunExperiment
      <3>3. UNCHANGED children
        BY <1>1, <3>1 DEF RunExperiment, CallExecute, StartPoint, ExecuteEnds, SamplerRuns,
           ExecuteReturns, ChildReturned, ChildCancelled, ChildUnprepared, ChildFatal, ChildExecuted,
           wrapperVars
      <3> QED
        BY <3>1, <3>2, <3>3 DEF SweepInv, TreeInv, ManifestInv
    <2>2. Experiment' = Experiment /\ Store!Whole(Experiment)
      BY <2>1, CommittedWhole DEF Experiment, Entries
    <2>3. SeenExperiments = {} /\ SeenExperiments' = {Experiment}
      BY <1>1, <2>1, <2>2 DEF SeenExperiments
    <2>4. SeenCalibrations = {} /\ SeenCalibrations' = {}
      BY <2>1 DEF SeenCalibrations
    <2> QED
      BY <2>2, <2>3, <2>4 DEF Store!Next, Store!PublishExperiment, SeenExperiments, SeenCalibrations,
         Experiment, Evaluation
  <1>2. CASE CommitCalibration /\ calTree' = "final"
    <2>1. /\ UNCHANGED <<record, manifest, child, files, tree, calFiles, children>>
          /\ calTree # "final" /\ calStep = "commit"
      BY <1>2 DEF CommitCalibration, vars, loopVars, diskVars, wrapperVars, ManifestInv
    <2>2. /\ Experiment' = Experiment /\ Evaluation' = Evaluation /\ tree = "final"
          /\ Store!Agrees(Evaluation, Experiment)
      BY <2>1, CommittedAgrees DEF Experiment, Entries, Evaluation
    <2>3. SeenExperiments = {Experiment} /\ SeenExperiments' = {Experiment}
      BY <2>1, <2>2 DEF SeenExperiments
    <2>4. SeenCalibrations = {} /\ SeenCalibrations' = {Evaluation}
      BY <1>2, <2>1, <2>2 DEF SeenCalibrations
    <2> QED
      BY <2>2, <2>3, <2>4 DEF Store!Next, Store!PublishCalibration, SeenExperiments, SeenCalibrations,
         Experiment, Evaluation
  <1>3. ASSUME ~(RunExperiment /\ CommitTree /\ tree' = "final"),
               ~(CommitCalibration /\ calTree' = "final")
        PROVE  SeenExperiments' = SeenExperiments /\ SeenCalibrations' = SeenCalibrations
    <2>1. CASE tree' = "final"
      <3>1. /\ UNCHANGED <<record, manifest, child, files, tree>>
            /\ calTree' = "final" => UNCHANGED <<calTree, calFiles, children>>
            /\ calTree = "final" => calTree' = "final"
        <4>1. CASE RunExperiment
          <5>1. step' = "returned" /\ calTree' = calTree /\ calTree # "final"
            BY <2>1, <4>1 DEF RunExperiment, SweepInv, TreeInv, ManifestInv
          <5>2. UNCHANGED <<record, manifest, child, files, tree>>
            <6>1. CASE CallExecute \/ ExecuteReturns
              BY <5>1, <6>1 DEF CallExecute, StartPoint, ExecuteReturns, ChildReturned, ChildCancelled,
                 ChildUnprepared, ChildFatal, ChildExecuted, Advance
            <6>2. CASE ExecuteEnds \/ SamplerRuns
              BY <6>2 DEF ExecuteEnds, SamplerRuns, vars, loopVars, diskVars
            <6>3. CASE ExecuteStep
              BY <5>1, <6>3 DEF ExecuteStep, PrepareChild, RunChild, StageChild, WriteChild, RenameChild,
                 CleanChild, Answer
            <6>4. CASE CancelParent \/ Kill
              BY <6>4 DEF CancelParent, Kill, loopVars, diskVars
            <6>5. CASE PublicationStep
              <7>1. CASE BeginFails \/ Abort
                BY <2>1, <7>1 DEF BeginFails, Abort, SweepInv, TreeInv, PublicationInv
              <7>2. CASE CommitTree
                BY <1>3, <2>1, <4>1, <7>2
              <7> QED
                BY <5>1, <6>5, <7>1, <7>2 DEF PublicationStep, BeginPublication, LoopInterrupted, LoopEnds,
                   SetStatus, ValidatePublication, WriteManifest, WriteSummary, WriteFails
            <6> QED
              BY <4>1, <6>1, <6>2, <6>3, <6>4, <6>5 DEF RunExperiment
          <5> QED
            BY <5>1, <5>2
        <4>2. CASE WriteCalibration
          <5>1. UNCHANGED <<record, manifest, child, files, tree, children>>
            BY <4>2 DEF WriteCalibration, ValidateCalibration, StageCalibration, WriteCalibrationManifest,
               WriteCalibrationSummary, WriteCalibrationFile, CommitCalibration, CleanCalibration, vars,
               loopVars, diskVars, wrapperVars
          <5>2. calTree # "final" /\ calTree' # "final"
            BY <1>3, <4>2 DEF WriteCalibration, ValidateCalibration, StageCalibration,
               WriteCalibrationManifest, WriteCalibrationSummary, WriteCalibrationFile, CommitCalibration,
               CleanCalibration, ManifestInv, WriterSteps
          <5> QED
            BY <5>1, <5>2
        <4>3. CASE RefuseRun \/ ExperimentFailed \/ EvaluatePoints \/ KillCalibration \/ UNCHANGED allVars
          BY <4>3 DEF RefuseRun, ExperimentFailed, EvaluatePoints, KillCalibration, allVars, calVars, vars,
             loopVars, diskVars, wrapperVars
        <4> QED
          BY <4>1, <4>2, <4>3 DEF CalibrationNext, CalibrationEnded
      <3>2. Experiment' = Experiment
        BY <3>1 DEF Experiment, Entries
      <3>3. calTree' = "final" => Evaluation' = Evaluation
        BY <3>1 DEF Evaluation
      <3> QED
        BY <3>1, <3>2, <3>3 DEF SeenExperiments, SeenCalibrations
    <2>2. CASE tree' # "final"
      <3>1. calTree' # "final"
        BY <2>2 DEF ManifestInv, SweepInv, NothingLeftBehind
      <3>2. tree # "final" /\ calTree # "final"
        BY <2>2, FinalStays, PublishedPoints DEF ManifestInv
      <3> QED
        BY <2>2, <3>1, <3>2 DEF SeenExperiments, SeenCalibrations
    <2> QED
      BY <2>1, <2>2
  <1> QED
    BY <1>1, <1>2, <1>3 DEF Store!vars, SeenExperiments, SeenCalibrations, Experiment, Evaluation

(* A calibration implements EvidenceStore, whatever fails and wherever the *)
(* process dies (experiment/writer.go, calibration/writer.go).             *)
THEOREM StoreCorrect == CalibrationSpec => ImplementsStore
  <1>1. CalInv /\ CalInv' /\ [CalibrationNext]_allVars => [Store!Next]_(Store!vars)
    BY StoreSteps
  <1> QED
    BY StoreStarts, CalibrationInvariant, <1>1, PTL DEF CalibrationSpec, ImplementsStore, Store!Spec
=============================================================================
