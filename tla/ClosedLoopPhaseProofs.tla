------------------------ MODULE ClosedLoopPhaseProofs ------------------------
(***************************************************************************)
(* The closed-loop phase for every concurrency, every request limit and    *)
(* every plan: types, safety, and that it implements PhaseContract.        *)
(***************************************************************************)
EXTENDS ClosedLoopPhase, FiniteSetTheorems, SequenceTheorems, TLAPS

(***************************************************************************)
(* Types                                                                   *)
(*                                                                         *)
(* Type correctness of the closed-loop phase, and the exactness of its     *)
(* count of active requests, for every concurrency and request limit.      *)
(*                                                                         *)
(* TypeOK is not inductive alone.  "active" stays below the worker count   *)
(* because it counts workers (ActiveIsExact); the claim counter stays      *)
(* below the limit and the results keep their types because of where each  *)
(* worker stands (WorkerState).                                            *)
(***************************************************************************)

Busy == {w \in Worker : Counted(w)}

(* What a worker's locals hold at the statement it executes next           *)
WorkerState ==
  \A w \in Worker :
    /\ pc[w] = "swap" => local[w] < Requests
    /\ pc[w] = "maximum" => local[w] \in 1 .. WorkerCount
    /\ Holding(w) => sequence[w] # 0
    /\ pc[w] \in {"finish", "classify"} => result[w] \in ResponseErr
    /\ pc[w] = "send" => result[w] \in Outcome

TypeInv == TypeOK /\ WorkerState /\ ActiveIsExact

(***************************************************************************)
(* Counting workers                                                        *)
(***************************************************************************)

(* There are finitely many workers, at least one, and no more than         *)
(* requests.                                                               *)
LEMMA WorkerFinite ==
  /\ WorkerCount \in 1 .. Requests
  /\ IsFiniteSet(Worker)
  /\ Cardinality(Worker) = WorkerCount
<1>1. WorkerCount \in 1 .. Requests
  BY PlanAssumption DEF WorkerCount
<1> QED
  BY <1>1, FS_Interval, PlanAssumption DEF Worker

(* A set of workers has at most WorkerCount members.                       *)
LEMMA WorkersBounded ==
  ASSUME NEW S \in SUBSET Worker
  PROVE  IsFiniteSet(S) /\ Cardinality(S) \in 0 .. WorkerCount
BY WorkerFinite, FS_Subset, FS_CardinalityType, PlanAssumption

(* A worker that enters the counted section makes the count grow by one.   *)
LEMMA StartIsCounted ==
  ASSUME TypeInv, NEW w \in Worker, StartRequest(w)
  PROVE  /\ active + 1 = Cardinality(Busy')
         /\ active + 1 \in 1 .. WorkerCount
<1>1. Busy' = Busy \cup {w} /\ w \notin Busy
  BY DEF TypeInv, TypeOK, StartRequest, GoTo, Busy, Counted
<1>2. active = Cardinality(Busy)
  BY DEF TypeInv, ActiveIsExact, Busy
<1>3. /\ IsFiniteSet(Busy) /\ Cardinality(Busy) \in 0 .. WorkerCount
      /\ Cardinality(Busy \cup {w}) \in 0 .. WorkerCount
  BY WorkersBounded DEF Busy
<1>4. Cardinality(Busy \cup {w}) = Cardinality(Busy) + 1
  BY <1>1, <1>3, FS_AddElement
<1> QED
  BY <1>1, <1>2, <1>3, <1>4, WorkerFinite, PlanAssumption

(* A worker that leaves the counted section makes it shrink by one.        *)
LEMMA FinishIsCounted ==
  ASSUME TypeInv, NEW w \in Worker, FinishRequest(w)
  PROVE  /\ active - 1 = Cardinality(Busy')
         /\ active - 1 \in 0 .. WorkerCount
<1>1. Busy' = Busy \ {w} /\ w \in Busy
  BY DEF TypeInv, TypeOK, FinishRequest, GoTo, Busy, Counted
<1>2. active = Cardinality(Busy)
  BY DEF TypeInv, ActiveIsExact, Busy
<1>3. /\ IsFiniteSet(Busy) /\ Cardinality(Busy) \in 0 .. WorkerCount
      /\ Cardinality(Busy \ {w}) \in 0 .. WorkerCount
  BY WorkersBounded DEF Busy
<1>4. Cardinality(Busy \ {w}) = Cardinality(Busy) - 1
  BY <1>1, <1>3, FS_RemoveElement
<1> QED
  BY <1>1, <1>2, <1>3, <1>4, WorkerFinite, PlanAssumption

(***************************************************************************)
(* Type correctness                                                        *)
(***************************************************************************)

(* Cancelling the phase context keeps the types of the causes.             *)
LEMMA CancelPhaseTypes ==
  ASSUME phaseCause \in PhaseCause, requestCause \in [Worker -> RequestCause],
         NEW cause \in PhaseCause, CancelPhase(cause)
  PROVE  phaseCause' \in PhaseCause /\ requestCause' \in [Worker -> RequestCause]
<1>1. phaseCause' \in PhaseCause
  BY DEF CancelPhase, FirstCause
<1>2. \A w \in Worker : FirstCause(requestCause[w], phaseCause') \in RequestCause
  BY <1>1 DEF FirstCause, RequestCause
<1> QED
  BY <1>1, <1>2 DEF CancelPhase

(* The phase starts in a well-typed state.                                 *)
LEMMA InitTypeInv == Init => TypeInv
<1> SUFFICES ASSUME Init PROVE TypeInv
  OBVIOUS
<1>1. TypeOK
  <2>1. plan \in {"warmup", "measured", "timed"} /\ finalClaimSeen \in BOOLEAN
    BY PlanAssumption DEF Init, FinalClaimWaived
  <2>2. phaseCause \in PhaseCause /\ requestCause \in [Worker -> RequestCause]
    BY DEF Init, PhaseCause, RequestCause
  <2>3. resultsCh \in Seq(Result) /\ completed \in Seq(Result) /\ Len(resultsCh) <= WorkerCount
    BY PlanAssumption, WorkerFinite DEF Init
  <2>4. /\ drainExpired \in BOOLEAN /\ admissionStopped \in BOOLEAN
        /\ resultsClosed \in BOOLEAN /\ parentReported \in BOOLEAN
    BY DEF Init
  <2>5. parentDone \in BOOLEAN /\ resultsOpen \in BOOLEAN
    BY DEF Init
  <2> QED
    BY <2>1, <2>2, <2>3, <2>4, <2>5, PlanAssumption, WorkerFinite
       DEF Init, TypeOK, PhaseCause, WorkerPC, ResponseErr
<1>2. WorkerState
  BY DEF Init, WorkerState, Holding
<1>3. ActiveIsExact
  <2>1. Busy = {}
    BY DEF Init, Busy, Counted
  <2> QED
    BY <2>1, FS_EmptySet DEF Init, ActiveIsExact, Busy
<1> QED
  BY <1>1, <1>2, <1>3 DEF TypeInv

(* Every step keeps every variable in its range.                           *)
LEMMA TypeOKStep ==
  ASSUME TypeInv, [Next]_vars
  PROVE  TypeOK'
<1> USE PlanAssumption, WorkerFinite
        DEF TypeInv, contextVars, claimVars, workerVars, coordVars, GoTo
<1>1. ASSUME NEW w \in Worker, CheckPhase(w) PROVE TypeOK'
  BY <1>1 DEF TypeOK, CheckPhase,
     WorkerPC, PhaseCause, RequestCause, ResponseErr, Outcome
<1>2. ASSUME NEW w \in Worker, LoadSequence(w) PROVE TypeOK'
  BY <1>2 DEF TypeOK, LoadSequence, Exhausted,
     WorkerPC, PhaseCause, RequestCause, ResponseErr, Outcome
<1>3. ASSUME NEW w \in Worker, ClaimSequence(w) PROVE TypeOK'
  BY <1>3 DEF TypeOK, ClaimSequence, SwapSucceeds, WorkerState,
     WorkerPC, PhaseCause, RequestCause, ResponseErr, Outcome
<1>4. ASSUME NEW w \in Worker, LoseSwap(w) PROVE TypeOK'
  BY <1>4 DEF TypeOK, LoseSwap, SwapSucceeds,
     WorkerPC, PhaseCause, RequestCause, ResponseErr, Outcome
<1>5. ASSUME NEW w \in Worker, AnnounceFinalClaim(w) PROVE TypeOK'
  BY <1>5 DEF TypeOK, AnnounceFinalClaim,
     WorkerPC, PhaseCause, RequestCause, ResponseErr, Outcome
<1>6. ASSUME NEW w \in Worker, AwaitAdmissionStopped(w) PROVE TypeOK'
  BY <1>6 DEF TypeOK, AwaitAdmissionStopped,
     WorkerPC, PhaseCause, RequestCause, ResponseErr, Outcome
<1>7. ASSUME NEW w \in Worker, StartRequest(w) PROVE TypeOK'
  <2>1. active' \in 1 .. WorkerCount
    BY <1>7, StartIsCounted DEF StartRequest
  <2>2. active' \in 0 .. WorkerCount
    BY <2>1
  <2> QED
    BY <1>7, <2>1, <2>2 DEF TypeOK, StartRequest, InheritedCause,
       WorkerPC, PhaseCause, RequestCause, ResponseErr, Outcome
<1>8. ASSUME NEW w \in Worker, UpdateMaximum(w) PROVE TypeOK'
  BY <1>8 DEF TypeOK, UpdateMaximum, WorkerState,
     WorkerPC, PhaseCause, RequestCause, ResponseErr, Outcome
<1>9. ASSUME NEW w \in Worker, RunRequest(w) PROVE TypeOK'
  BY <1>9 DEF TypeOK, RunRequest,
     WorkerPC, PhaseCause, RequestCause, ResponseErr, Outcome
<1>10. ASSUME NEW w \in Worker, FinishRequest(w) PROVE TypeOK'
  <2>1. active' \in 0 .. WorkerCount
    BY <1>10, FinishIsCounted DEF FinishRequest
  <2> QED
    BY <1>10, <2>1 DEF TypeOK, FinishRequest,
       WorkerPC, PhaseCause, RequestCause, ResponseErr, Outcome
<1>11. ASSUME NEW w \in Worker, ClassifyRequest(w) PROVE TypeOK'
  BY <1>11 DEF TypeOK, ClassifyRequest, OutcomeOf,
     WorkerPC, PhaseCause, RequestCause, ResponseErr, Outcome
<1>12. ASSUME NEW w \in Worker, SendResult(w) PROVE TypeOK'
  <2>1. [sequence |-> sequence[w], outcome |-> result[w]] \in Result
    BY <1>12 DEF TypeOK, WorkerState, Holding, SendResult, Result
  <2>2. resultsCh' \in Seq(Result) /\ Len(resultsCh') <= WorkerCount
    BY <1>12, <2>1 DEF TypeOK, SendResult
  <2> QED
    BY <1>12, <2>1, <2>2 DEF TypeOK, SendResult,
       WorkerPC, PhaseCause, RequestCause, ResponseErr, Outcome
<1>13. ASSUME NEW w \in Worker, RequestDeadline(w) PROVE TypeOK'
  BY <1>13 DEF TypeOK, RequestDeadline,
     WorkerPC, PhaseCause, RequestCause, ResponseErr, Outcome
<1>14. ASSUME CloseResults PROVE TypeOK'
  <2>1. resultsClosed' \in BOOLEAN
    BY <1>14 DEF CloseResults
  <2> QED
    BY <1>14, <2>1 DEF TypeOK, CloseResults,
       WorkerPC, PhaseCause, RequestCause, ResponseErr, Outcome
<1>15. ASSUME ReleaseLateClaim PROVE TypeOK'
  <2>1. admissionStopped' \in BOOLEAN
    BY <1>15 DEF ReleaseLateClaim
  <2> QED
    BY <1>15, <2>1 DEF TypeOK, ReleaseLateClaim,
       WorkerPC, PhaseCause, RequestCause, ResponseErr, Outcome
<1>16. ASSUME ReceiveFinalClaim PROVE TypeOK'
  <2>1. boundary' \in {"open", "limit", "parent"}
    BY <1>16 DEF TypeOK, ReceiveFinalClaim, StopAdmission
  <2>2. finalClaimSeen' \in BOOLEAN
    BY <1>16 DEF ReceiveFinalClaim
  <2> QED
    BY <1>16, <2>1, <2>2 DEF TypeOK, ReceiveFinalClaim,
       WorkerPC, PhaseCause, RequestCause, ResponseErr, Outcome
<1>17. ASSUME AnchorDrain PROVE TypeOK'
  <2>1. admissionStopped' \in BOOLEAN
    BY <1>17 DEF TypeOK, AnchorDrain
  <2>2. timer' \in {"none", "armed", "taken"}
    BY <1>17 DEF TypeOK, AnchorDrain
  <2>3. coord' \in {"select", "anchor", "expire", "returned"}
    BY <1>17 DEF TypeOK, AnchorDrain
  <2> QED
    BY <1>17, <2>1, <2>2, <2>3 DEF TypeOK, AnchorDrain,
       WorkerPC, PhaseCause, RequestCause, ResponseErr, Outcome
<1>18. ASSUME ReceiveDrainTimer PROVE TypeOK'
  BY <1>18 DEF TypeOK, ReceiveDrainTimer,
     WorkerPC, PhaseCause, RequestCause, ResponseErr, Outcome
<1>19. ASSUME ExpireDrain PROVE TypeOK'
  <2>1. phaseCause' \in PhaseCause /\ requestCause' \in [Worker -> RequestCause]
    BY <1>19, CancelPhaseTypes DEF ExpireDrain, PhaseCause, TypeOK
  <2>2. admissionStopped' \in BOOLEAN
    BY <1>19 DEF ExpireDrain
  <2> QED
    BY <1>19, <2>1, <2>2 DEF TypeOK, ExpireDrain,
       WorkerPC, PhaseCause, RequestCause, ResponseErr, Outcome
<1>20. ASSUME ReceiveParentDone PROVE TypeOK'
  <2>1. phaseErr' \in PhaseCause
    BY <1>20 DEF TypeOK, ReceiveParentDone, ReportParent, FirstCause, PhaseCause
  <2>2. boundary' \in {"open", "limit", "parent"}
    BY <1>20 DEF TypeOK, ReceiveParentDone, ReportParent, StopAdmission
  <2>3. parentDone' \in BOOLEAN
    BY <1>20 DEF ReceiveParentDone
  <2>4. finalClaimSeen' \in BOOLEAN
    BY <1>20 DEF ReceiveParentDone
  <2>5. parentReported' \in BOOLEAN
    BY <1>20 DEF ReceiveParentDone, ReportParent
  <2> QED
    BY <1>20, <2>1, <2>2, <2>3, <2>4, <2>5 DEF TypeOK, ReceiveParentDone, ReportParent,
       WorkerPC, PhaseCause, RequestCause, ResponseErr, Outcome
<1>21. ASSUME ReceiveResult PROVE TypeOK'
  <2>1. completed' \in Seq(Result) /\ resultsCh' \in Seq(Result) /\ Len(resultsCh') <= WorkerCount
    BY <1>21 DEF TypeOK, ReceiveResult
  <2> QED
    BY <1>21, <2>1 DEF TypeOK, ReceiveResult,
       WorkerPC, PhaseCause, RequestCause, ResponseErr, Outcome
<1>22. ASSUME ReceiveClose PROVE TypeOK'
  <2>1. resultsOpen' \in BOOLEAN
    BY <1>22 DEF ReceiveClose
  <2> QED
    BY <1>22, <2>1 DEF TypeOK, ReceiveClose,
       WorkerPC, PhaseCause, RequestCause, ResponseErr, Outcome
<1>23. ASSUME Return PROVE TypeOK'
  <2>1. phaseErr' \in PhaseCause
    BY <1>23 DEF TypeOK, Return, ReportParent, FirstCause, PhaseCause
  <2>2. boundary' \in {"open", "limit", "parent"}
    BY <1>23 DEF TypeOK, Return, ReportParent, StopAdmission
  <2>3. parentReported' \in BOOLEAN
    BY <1>23 DEF TypeOK, Return, ReportParent
  <2> QED
    BY <1>23, <2>1, <2>2, <2>3 DEF TypeOK, Return,
       WorkerPC, PhaseCause, RequestCause, ResponseErr, Outcome
<1>24. ASSUME CancelParent PROVE TypeOK'
  <2>1. parentCancelled' \in BOOLEAN
    BY <1>24 DEF CancelParent
  <2> QED
    BY <1>24, <2>1 DEF TypeOK, CancelParent,
       WorkerPC, PhaseCause, RequestCause, ResponseErr, Outcome
<1>25. ASSUME PropagateParent PROVE TypeOK'
  <2>1. phaseCause' \in PhaseCause /\ requestCause' \in [Worker -> RequestCause]
    BY <1>25, CancelPhaseTypes DEF PropagateParent, PhaseCause, TypeOK
  <2> QED
    BY <1>25, <2>1 DEF TypeOK, PropagateParent,
       WorkerPC, PhaseCause, RequestCause, ResponseErr, Outcome
<1>26. ASSUME DrainDeadline PROVE TypeOK'
  <2>1. drainExpired' \in BOOLEAN
    BY <1>26 DEF DrainDeadline
  <2> QED
    BY <1>26, <2>1 DEF TypeOK, DrainDeadline,
       WorkerPC, PhaseCause, RequestCause, ResponseErr, Outcome
<1>27. ASSUME Terminated PROVE TypeOK'
  BY <1>27 DEF TypeOK, Terminated, vars,
     WorkerPC, PhaseCause, RequestCause, ResponseErr, Outcome
<1>28. CASE UNCHANGED vars
  BY <1>28 DEF TypeOK, vars
<1> QED
  BY <1>1, <1>2, <1>3, <1>4, <1>5, <1>6, <1>7, <1>8, <1>9, <1>10, <1>11,
     <1>12, <1>13, <1>14, <1>15, <1>16, <1>17, <1>18, <1>19, <1>20, <1>21,
     <1>22, <1>23, <1>24, <1>25, <1>26, <1>27, <1>28
     DEF Next, WorkerStep, CoordinatorStep

(* Every step keeps each worker's locals in line with where it stands.     *)
LEMMA WorkerStateStep ==
  ASSUME TypeInv, [Next]_vars
  PROVE  WorkerState'
<1> USE PlanAssumption, WorkerFinite
        DEF TypeInv, TypeOK, WorkerState, Holding, contextVars, claimVars, workerVars,
            coordVars, GoTo
<1>1. CASE UNCHANGED <<pc, local, sequence, result>>
  BY <1>1 DEF ResponseErr, Outcome
<1>2. ASSUME NEW w \in Worker, CheckPhase(w) PROVE WorkerState'
  BY <1>2 DEF CheckPhase
<1>3. ASSUME NEW w \in Worker, LoadSequence(w) PROVE WorkerState'
  BY <1>3 DEF LoadSequence, Exhausted
<1>4. ASSUME NEW w \in Worker, ClaimSequence(w) PROVE WorkerState'
  BY <1>4 DEF ClaimSequence, SwapSucceeds
<1>5. ASSUME NEW w \in Worker, LoseSwap(w) PROVE WorkerState'
  BY <1>5 DEF LoseSwap
<1>6. ASSUME NEW w \in Worker, AnnounceFinalClaim(w) \/ AwaitAdmissionStopped(w)
      PROVE WorkerState'
  BY <1>6 DEF AnnounceFinalClaim, AwaitAdmissionStopped
<1>7. ASSUME NEW w \in Worker, StartRequest(w) PROVE WorkerState'
  <2>1. active' \in 1 .. WorkerCount
    BY <1>7, StartIsCounted DEF StartRequest
  <2> QED
    BY <1>7, <2>1 DEF StartRequest
<1>8. ASSUME NEW w \in Worker, UpdateMaximum(w) PROVE WorkerState'
  BY <1>8 DEF UpdateMaximum
<1>9. ASSUME NEW w \in Worker, RunRequest(w) PROVE WorkerState'
  BY <1>9 DEF RunRequest
<1>10. ASSUME NEW w \in Worker, FinishRequest(w) PROVE WorkerState'
  BY <1>10 DEF FinishRequest
<1>11. ASSUME NEW w \in Worker, ClassifyRequest(w) PROVE WorkerState'
  BY <1>11 DEF ClassifyRequest, OutcomeOf, Outcome
<1>12. ASSUME NEW w \in Worker, SendResult(w) PROVE WorkerState'
  BY <1>12 DEF SendResult
<1>13. ASSUME NEW w \in Worker, RequestDeadline(w) PROVE WorkerState'
  BY <1>1, <1>13 DEF RequestDeadline
<1>14. CASE CloseResults \/ CoordinatorStep
  BY <1>1, <1>14
     DEF CloseResults, CoordinatorStep, ReleaseLateClaim, ReceiveFinalClaim, AnchorDrain,
         ReceiveDrainTimer, ExpireDrain, ReceiveParentDone, ReceiveResult, ReceiveClose, Return
<1>15. CASE CancelParent \/ PropagateParent \/ DrainDeadline \/ Terminated \/ UNCHANGED vars
  BY <1>1, <1>15 DEF CancelParent, PropagateParent, DrainDeadline, Terminated, vars
<1> QED
  BY <1>2, <1>3, <1>4, <1>5, <1>6, <1>7, <1>8, <1>9, <1>10, <1>11, <1>12, <1>13, <1>14, <1>15
     DEF Next, WorkerStep

(* Every step keeps the count of active requests exact.                    *)
LEMMA ActiveStep ==
  ASSUME TypeInv, [Next]_vars
  PROVE  ActiveIsExact'
<1> USE DEF TypeInv, TypeOK, contextVars, claimVars, workerVars, coordVars, GoTo
<1>1. ASSUME Busy' = Busy, active' = active PROVE ActiveIsExact'
  BY <1>1 DEF ActiveIsExact, Busy
<1>2. CASE UNCHANGED <<pc, active>>
  <2>1. Busy' = Busy
    BY <1>2 DEF Busy, Counted
  <2> QED
    BY <1>1, <1>2, <2>1
<1>3. ASSUME NEW w \in Worker,
             \/ CheckPhase(w) \/ LoadSequence(w) \/ ClaimSequence(w) \/ LoseSwap(w)
             \/ AnnounceFinalClaim(w) \/ AwaitAdmissionStopped(w) \/ SendResult(w)
      PROVE  ActiveIsExact'
  <2>1. Busy' = Busy /\ active' = active
    BY <1>3 DEF Busy, Counted, CheckPhase, LoadSequence, ClaimSequence, LoseSwap,
                AnnounceFinalClaim, AwaitAdmissionStopped, SendResult
  <2> QED
    BY <1>1, <2>1
<1>4. ASSUME NEW w \in Worker, UpdateMaximum(w) \/ RunRequest(w) \/ ClassifyRequest(w)
      PROVE  ActiveIsExact'
  <2>1. Busy' = Busy /\ active' = active
    BY <1>4 DEF Busy, Counted, UpdateMaximum, RunRequest, ClassifyRequest
  <2> QED
    BY <1>1, <2>1
<1>5. ASSUME NEW w \in Worker, StartRequest(w) PROVE ActiveIsExact'
  BY <1>5, StartIsCounted DEF ActiveIsExact, Busy, StartRequest
<1>6. ASSUME NEW w \in Worker, FinishRequest(w) PROVE ActiveIsExact'
  BY <1>6, FinishIsCounted DEF ActiveIsExact, Busy, FinishRequest
<1>7. ASSUME NEW w \in Worker, RequestDeadline(w) PROVE ActiveIsExact'
  BY <1>2, <1>7 DEF RequestDeadline
<1>8. CASE CloseResults \/ CoordinatorStep
  BY <1>2, <1>8
     DEF CloseResults, CoordinatorStep, ReleaseLateClaim, ReceiveFinalClaim, AnchorDrain,
         ReceiveDrainTimer, ExpireDrain, ReceiveParentDone, ReceiveResult, ReceiveClose, Return
<1>9. CASE CancelParent \/ PropagateParent \/ DrainDeadline \/ Terminated \/ UNCHANGED vars
  BY <1>2, <1>9 DEF CancelParent, PropagateParent, DrainDeadline, Terminated, vars
<1> QED
  BY <1>3, <1>4, <1>5, <1>6, <1>7, <1>8, <1>9 DEF Next, WorkerStep

(* The strengthened type invariant holds of every behaviour.               *)
THEOREM TypeInvariant == Spec => []TypeInv
<1>1. TypeInv /\ [Next]_vars => TypeInv'
  BY TypeOKStep, WorkerStateStep, ActiveStep DEF TypeInv
<1> QED
  BY InitTypeInv, <1>1, PTL DEF Spec

(* Every variable of the phase keeps to its range: the claim counter never *)
(* passes the request limit, however the claims of the workers interleave, *)
(* the results channel never holds more than its capacity, and the         *)
(* recorded maximum never exceeds the worker count.                        *)
THEOREM TypeCorrect == Spec => []TypeOK
<1>1. TypeInv => TypeOK
  BY DEF TypeInv
<1> QED
  BY TypeInvariant, <1>1, PTL

(* The atomic "active" always equals the number of requests between their  *)
(* two updates of it, which the drain decisions of the coordinator rely on.*)
THEOREM ActiveCorrect == Spec => []ActiveIsExact
<1>1. TypeInv => ActiveIsExact
  BY DEF TypeInv
<1> QED
  BY TypeInvariant, <1>1, PTL


(***************************************************************************)
(* Safety                                                                  *)
(*                                                                         *)
(* The safety of the closed-loop phase for every concurrency, every        *)
(* request limit and every plan: no claim is lost or run twice, a phase    *)
(* that returns is quiet, a phase that returns no error is complete, a     *)
(* cancellation never goes unreported, and the last measured request       *)
(* starts after the stop-admission boundary.                               *)
(*                                                                         *)
(* None of these is inductive alone.  PhaseInv is: its parts say what each *)
(* cancellation cause leaves behind, what each outcome proves, what the    *)
(* coordinator knows at each of its statements, and where every claimed    *)
(* sequence is.                                                            *)
(***************************************************************************)

(* A cause names something that happened, and the phase's error tells of   *)
(* it                                                                      *)
CauseInv ==
  /\ phaseCause = "parent" => parentCancelled
  /\ phaseCause = "drain" => phaseErr = "drain"
  /\ \A w \in Worker : requestCause[w] = "drain" => phaseErr = "drain"

(* What an outcome proves of the parent context and of the phase's error   *)
Justified(outcome, parent, err) ==
  /\ outcome = "parent_cancelled" => parent
  /\ outcome = "drain_timeout" => err = "drain"

OutcomeInv ==
  /\ \A w \in Worker : pc[w] = "send" => Justified(result[w], parentCancelled, phaseErr)
  /\ \A i \in 1 .. Len(Delivered) : Justified(Delivered[i].outcome, parentCancelled, phaseErr)

(* The parent's cancellation is reported when it is served, and at the     *)
(* latest when the phase returns                                           *)
ReportInv ==
  /\ ~parentDone => phaseErr # "none" /\ parentReported
  /\ Returned /\ parentCancelled => phaseErr # "none" /\ parentReported

(* The workers quit for a reason, and the phase ends after them            *)
QuietInv ==
  /\ \A w \in Worker : pc[w] = "done" => nextSequence = Requests \/ phaseCause # "none"
  /\ resultsClosed => \A w \in Worker : pc[w] = "done"
  /\ ~resultsOpen => resultsClosed /\ resultsCh = <<>>
  /\ Returned => ~resultsOpen /\ finalClaimSeen

(* The final claimer passes its gate only after the boundary               *)
BoundaryInv ==
  /\ coord \in {"anchor", "expire"} \/ timer # "none" \/ admissionStopped => finalClaimSeen
  /\ Measured /\ finalClaimSeen => boundary # "open"
  /\ Measured => \A w \in Worker :
       Holding(w) /\ pc[w] \notin {"announce", "await"} /\ sequence[w] = Requests
         => admissionStopped

(* ClaimsConserved, and no delivered sequence is ahead of the counter      *)
ClaimInv ==
  /\ ClaimsConserved
  /\ \A i \in 1 .. Len(Delivered) : Delivered[i].sequence \in 1 .. nextSequence

PhaseInv ==
  /\ TypeInv
  /\ CauseInv
  /\ OutcomeInv
  /\ ReportInv
  /\ QuietInv
  /\ BoundaryInv
  /\ ClaimInv

(***************************************************************************)
(* Sequences of results                                                    *)
(***************************************************************************)

(* Sending a result appends it to what is delivered.                       *)
LEMMA SendDelivers ==
  ASSUME TypeOK, TypeOK', NEW w \in Worker, SendResult(w)
  PROVE  /\ Len(Delivered') = Len(Delivered) + 1
         /\ \A i \in 1 .. Len(Delivered) : Delivered'[i] = Delivered[i]
         /\ Delivered'[Len(Delivered) + 1].sequence = sequence[w]
         /\ Delivered'[Len(Delivered) + 1].outcome = result[w]
<1> DEFINE r == [sequence |-> sequence[w], outcome |-> result[w]]
<1>1. resultsCh' = Append(resultsCh, r) /\ completed' = completed
  BY DEF SendResult, coordVars
<1>2. completed \in Seq(Result) /\ resultsCh \in Seq(Result) /\ resultsCh' \in Seq(Result)
  BY DEF TypeOK
<1> HIDE DEF r
<1>3. /\ Len(resultsCh') = Len(resultsCh) + 1
      /\ \A i \in 1 .. Len(resultsCh) : resultsCh'[i] = resultsCh[i]
      /\ resultsCh'[Len(resultsCh) + 1] = r
  BY <1>1, <1>2
<1>4. /\ Len(Delivered') = Len(Delivered) + 1
      /\ \A i \in 1 .. Len(Delivered) : Delivered'[i] = Delivered[i]
      /\ Delivered'[Len(Delivered) + 1] = r
  BY <1>1, <1>2, <1>3, ConcatProperties DEF Delivered
<1> QED
  BY <1>4 DEF r

(* Receiving one moves it and leaves what is delivered as it is.           *)
LEMMA ReceiveKeepsDelivered ==
  ASSUME TypeOK, TypeOK', ReceiveResult
  PROVE  Delivered' = Delivered
<1>1. completed' = Append(completed, Head(resultsCh)) /\ resultsCh' = Tail(resultsCh)
  BY DEF ReceiveResult
<1>2. completed \in Seq(Result) /\ resultsCh \in Seq(Result) /\ resultsCh # <<>>
  BY DEF TypeOK, ReceiveResult
<1>3. completed' \in Seq(Result) /\ resultsCh' \in Seq(Result)
  BY DEF TypeOK
<1>4. /\ Len(Delivered') = Len(Delivered)
      /\ \A i \in 1 .. Len(Delivered) : Delivered'[i] = Delivered[i]
  BY <1>1, <1>2, <1>3, ConcatProperties, HeadTailProperties DEF Delivered
<1>5. Delivered \in Seq(Result) /\ Delivered' \in Seq(Result)
  BY <1>2, <1>3, ConcatProperties DEF Delivered
<1> QED
  BY <1>4, <1>5, SeqEqual

(* What is delivered is a sequence of results.                             *)
LEMMA DeliveredType ==
  ASSUME TypeOK
  PROVE  Delivered \in Seq(Result)
BY ConcatProperties DEF TypeOK, Delivered

(***************************************************************************)
(* The initial state                                                       *)
(***************************************************************************)

(* The phase starts in a state of the invariant.                           *)
LEMMA InitPhaseInv == Init => PhaseInv
<1> SUFFICES ASSUME Init PROVE PhaseInv
  OBVIOUS
<1>1. TypeInv
  BY InitTypeInv
<1>2. Delivered = <<>> /\ Len(Delivered) = 0
  BY DEF Init, Delivered
<1>3. CauseInv
  BY DEF Init, CauseInv
<1>4. OutcomeInv
  BY <1>2 DEF Init, OutcomeInv
<1>5. ReportInv
  BY DEF Init, ReportInv, Returned
<1>6. QuietInv
  BY DEF Init, QuietInv, Returned
<1>7. BoundaryInv
  BY DEF Init, BoundaryInv, Holding, FinalClaimWaived
<1>8. ClaimInv
  BY <1>2 DEF Init, ClaimInv, ClaimsConserved, Holding
<1> QED
  BY <1>1, <1>3, <1>4, <1>5, <1>6, <1>7, <1>8 DEF PhaseInv

(***************************************************************************)
(* Steps                                                                   *)
(***************************************************************************)

(* A cause keeps naming something that happened.                           *)
LEMMA CauseStep ==
  ASSUME TypeInv, CauseInv, [Next]_vars
  PROVE  CauseInv'
<1> USE DEF TypeInv, TypeOK, CauseInv, contextVars, claimVars, workerVars, coordVars, GoTo
<1>1. CASE UNCHANGED <<parentCancelled, phaseCause, requestCause, phaseErr>>
  BY <1>1
<1>2. ASSUME NEW w \in Worker, StartRequest(w) PROVE CauseInv'
  BY <1>2 DEF StartRequest, InheritedCause
<1>3. ASSUME NEW w \in Worker, ClassifyRequest(w) \/ RequestDeadline(w) PROVE CauseInv'
  BY <1>3 DEF ClassifyRequest, RequestDeadline
<1>4. ASSUME NEW w \in Worker,
             WorkerStep(w) \/ RunRequest(w), ~StartRequest(w), ~ClassifyRequest(w)
      PROVE  CauseInv'
  BY <1>1, <1>4
     DEF WorkerStep, CheckPhase, LoadSequence, ClaimSequence, LoseSwap, AnnounceFinalClaim,
         AwaitAdmissionStopped, UpdateMaximum, RunRequest, FinishRequest, SendResult
<1>5. CASE ExpireDrain
  BY <1>5 DEF ExpireDrain, CancelPhase, FirstCause
<1>6. CASE ReceiveParentDone \/ Return
  BY <1>6 DEF ReceiveParentDone, Return, ReportParent, FirstCause
<1>7. CASE \/ CloseResults \/ ReleaseLateClaim \/ ReceiveFinalClaim \/ AnchorDrain
           \/ ReceiveDrainTimer \/ ReceiveResult \/ ReceiveClose \/ DrainDeadline
  BY <1>1, <1>7
     DEF CloseResults, ReleaseLateClaim, ReceiveFinalClaim, AnchorDrain, ReceiveDrainTimer,
         ReceiveResult, ReceiveClose, DrainDeadline
<1>8. CASE CancelParent
  BY <1>8 DEF CancelParent
<1>9. CASE PropagateParent
  BY <1>9 DEF PropagateParent, CancelPhase, FirstCause
<1>10. CASE Terminated \/ UNCHANGED vars
  BY <1>1, <1>10 DEF Terminated, vars
<1> QED
  BY <1>2, <1>3, <1>4, <1>5, <1>6, <1>7, <1>8, <1>9, <1>10 DEF Next, CoordinatorStep

(* An outcome keeps its justification, and a new one has it.               *)
LEMMA OutcomeStep ==
  ASSUME TypeInv, TypeInv', CauseInv, OutcomeInv, [Next]_vars
  PROVE  OutcomeInv'
<1> USE DEF TypeInv, contextVars, claimVars, workerVars, coordVars, GoTo
<1>1. ASSUME NEW outcome, Justified(outcome, parentCancelled, phaseErr)
      PROVE  Justified(outcome, parentCancelled', phaseErr')
  <2>1. parentCancelled => parentCancelled'
    BY DEF TypeOK, Next, vars, WorkerStep, CoordinatorStep, CheckPhase, LoadSequence, ClaimSequence,
           LoseSwap, AnnounceFinalClaim, AwaitAdmissionStopped, StartRequest, UpdateMaximum,
           RunRequest, FinishRequest, ClassifyRequest, SendResult, RequestDeadline, CloseResults,
           ReleaseLateClaim, ReceiveFinalClaim, AnchorDrain, ReceiveDrainTimer, ExpireDrain,
           ReceiveParentDone, ReceiveResult, ReceiveClose, Return, CancelParent,
           PropagateParent, DrainDeadline, Terminated
  <2>2. phaseErr = "drain" => phaseErr' = "drain"
    BY DEF TypeOK, Next, vars, WorkerStep, CoordinatorStep, CheckPhase, LoadSequence, ClaimSequence,
           LoseSwap, AnnounceFinalClaim, AwaitAdmissionStopped, StartRequest, UpdateMaximum,
           RunRequest, FinishRequest, ClassifyRequest, SendResult, RequestDeadline, CloseResults,
           ReleaseLateClaim, ReceiveFinalClaim, AnchorDrain, ReceiveDrainTimer, ExpireDrain,
           ReceiveParentDone, ReceiveResult, ReceiveClose, Return, CancelParent,
           PropagateParent, DrainDeadline, Terminated, ReportParent, FirstCause
  <2> QED
    BY <1>1, <2>1, <2>2 DEF Justified
<1>2. CASE UNCHANGED <<pc, result, Delivered>>
  BY <1>1, <1>2 DEF OutcomeInv
<1>3. ASSUME NEW w \in Worker, ClassifyRequest(w) PROVE OutcomeInv'
  <2>1. UNCHANGED Delivered
    BY <1>3 DEF ClassifyRequest, Delivered
  <2>2. Justified(result'[w], parentCancelled', phaseErr')
    BY <1>3 DEF TypeOK, WorkerState, ClassifyRequest, OutcomeOf, Justified, CauseInv, ResponseErr
  <2>3. \A v \in Worker \ {w} : pc'[v] = pc[v] /\ result'[v] = result[v]
    BY <1>3 DEF TypeOK, ClassifyRequest
  <2> QED
    BY <1>1, <2>1, <2>2, <2>3 DEF OutcomeInv
<1>4. ASSUME NEW w \in Worker, SendResult(w) PROVE OutcomeInv'
  <2>1. \A v \in Worker : pc'[v] = "send" => pc[v] = "send" /\ result'[v] = result[v]
    BY <1>4 DEF TypeOK, SendResult
  <2>2. Justified(result[w], parentCancelled, phaseErr)
    BY <1>4 DEF OutcomeInv, SendResult
  <2>3. /\ Len(Delivered') = Len(Delivered) + 1
        /\ \A i \in 1 .. Len(Delivered) : Delivered'[i] = Delivered[i]
        /\ Delivered'[Len(Delivered) + 1].outcome = result[w]
    BY <1>4, SendDelivers
  <2>4. Len(Delivered) \in Nat
    BY DeliveredType
  <2>5. ASSUME NEW i \in 1 .. Len(Delivered')
        PROVE  Justified(Delivered'[i].outcome, parentCancelled', phaseErr')
    <3>1. CASE i \in 1 .. Len(Delivered)
      BY <1>1, <2>3, <3>1 DEF OutcomeInv
    <3>2. CASE i = Len(Delivered) + 1
      BY <1>1, <2>2, <2>3, <3>2
    <3> QED
      BY <2>3, <2>4, <3>1, <3>2
  <2> QED
    BY <1>1, <2>1, <2>5 DEF OutcomeInv
<1>5. ASSUME NEW w \in Worker, WorkerStep(w) \/ RunRequest(w) \/ RequestDeadline(w),
             ~ClassifyRequest(w), ~SendResult(w)
      PROVE  OutcomeInv'
  <2>1. UNCHANGED Delivered
    BY <1>5 DEF Delivered, WorkerStep, CheckPhase, LoadSequence, ClaimSequence, LoseSwap,
                AnnounceFinalClaim, AwaitAdmissionStopped, StartRequest, UpdateMaximum,
                RunRequest, FinishRequest, RequestDeadline
  <2>2. \A v \in Worker : pc'[v] = "send" => pc[v] = "send" /\ result'[v] = result[v]
    BY <1>5 DEF TypeOK, WorkerStep, CheckPhase, LoadSequence, ClaimSequence, LoseSwap,
                AnnounceFinalClaim, AwaitAdmissionStopped, StartRequest, UpdateMaximum,
                RunRequest, FinishRequest, RequestDeadline
  <2> QED
    BY <1>1, <2>1, <2>2 DEF OutcomeInv
<1>6. CASE ReceiveResult
  BY <1>2, <1>6, ReceiveKeepsDelivered DEF ReceiveResult
<1>7. CASE CloseResults \/ (CoordinatorStep /\ ~ReceiveResult)
  BY <1>2, <1>7
     DEF Delivered, CloseResults, CoordinatorStep, ReleaseLateClaim, ReceiveFinalClaim,
         AnchorDrain, ReceiveDrainTimer, ExpireDrain, ReceiveParentDone, ReceiveClose, Return
<1>8. CASE CancelParent \/ PropagateParent \/ DrainDeadline \/ Terminated \/ UNCHANGED vars
  BY <1>2, <1>8 DEF Delivered, CancelParent, PropagateParent, DrainDeadline, Terminated, vars
<1> QED
  BY <1>3, <1>4, <1>5, <1>6, <1>7, <1>8 DEF Next

(* The cancellation stays reported, and Return reports one that is late.   *)
LEMMA ReportStep ==
  ASSUME TypeInv, ReportInv, [Next]_vars
  PROVE  ReportInv'
<1> USE DEF TypeInv, TypeOK, ReportInv, Returned, contextVars, claimVars, workerVars,
            coordVars, GoTo
<1>1. CASE UNCHANGED <<parentCancelled, parentDone, coord, phaseErr, parentReported>>
  BY <1>1
<1>2. ASSUME NEW w \in Worker, WorkerStep(w) \/ RunRequest(w) \/ RequestDeadline(w)
      PROVE  ReportInv'
  BY <1>1, <1>2
     DEF WorkerStep, CheckPhase, LoadSequence, ClaimSequence, LoseSwap, AnnounceFinalClaim,
         AwaitAdmissionStopped, StartRequest, UpdateMaximum, RunRequest, FinishRequest,
         ClassifyRequest, SendResult, RequestDeadline
<1>3. CASE CloseResults \/ ReleaseLateClaim \/ ReceiveResult \/ ReceiveClose
  BY <1>1, <1>3 DEF CloseResults, ReleaseLateClaim, ReceiveResult, ReceiveClose
<1>4. CASE ReceiveFinalClaim \/ AnchorDrain \/ ReceiveDrainTimer
  BY <1>4 DEF ReceiveFinalClaim, AnchorDrain, ReceiveDrainTimer
<1>5. CASE ExpireDrain
  BY <1>5 DEF ExpireDrain
<1>6. CASE ReceiveParentDone
  BY <1>6 DEF ReceiveParentDone, ReportParent, FirstCause, Selecting
<1>7. CASE Return
  BY <1>7 DEF Return, CancellationUnreported, ReportParent, FirstCause
<1>8. CASE CancelParent
  BY <1>8 DEF CancelParent
<1>9. CASE PropagateParent \/ DrainDeadline \/ Terminated \/ UNCHANGED vars
  BY <1>1, <1>9 DEF PropagateParent, DrainDeadline, Terminated, vars
<1> QED
  BY <1>2, <1>3, <1>4, <1>5, <1>6, <1>7, <1>8, <1>9 DEF Next, CoordinatorStep

(* The workers that quit had a reason, and nothing follows the last one.   *)
LEMMA QuietStep ==
  ASSUME TypeInv, QuietInv, [Next]_vars
  PROVE  QuietInv'
<1> USE DEF TypeInv, TypeOK, QuietInv, Returned, contextVars, claimVars, workerVars,
            coordVars, GoTo
<1>1. CASE UNCHANGED <<pc, nextSequence, phaseCause, resultsClosed, resultsOpen, resultsCh,
                       coord, finalClaimSeen>>
  BY <1>1
<1>2. ASSUME NEW w \in Worker, CheckPhase(w) \/ LoseSwap(w) PROVE QuietInv'
  BY <1>2 DEF CheckPhase, LoseSwap
<1>3. ASSUME NEW w \in Worker, LoadSequence(w) PROVE QuietInv'
  BY <1>3, PlanAssumption DEF LoadSequence, Exhausted
<1>4. ASSUME NEW w \in Worker, ClaimSequence(w) PROVE QuietInv'
  <2>1. local[w] = nextSequence /\ nextSequence < Requests
    BY <1>4, PlanAssumption DEF ClaimSequence, SwapSucceeds, WorkerState
  <2> QED
    BY <1>4, <2>1, PlanAssumption DEF ClaimSequence
<1>5. ASSUME NEW w \in Worker,
             AnnounceFinalClaim(w) \/ AwaitAdmissionStopped(w) \/ StartRequest(w)
      PROVE  QuietInv'
  BY <1>5 DEF AnnounceFinalClaim, AwaitAdmissionStopped, StartRequest
<1>6. ASSUME NEW w \in Worker,
             UpdateMaximum(w) \/ RunRequest(w) \/ FinishRequest(w) \/ ClassifyRequest(w)
      PROVE  QuietInv'
  BY <1>6 DEF UpdateMaximum, RunRequest, FinishRequest, ClassifyRequest
<1>7. ASSUME NEW w \in Worker, SendResult(w) PROVE QuietInv'
  BY <1>7 DEF SendResult
<1>8. ASSUME NEW w \in Worker, RequestDeadline(w) PROVE QuietInv'
  BY <1>1, <1>8 DEF RequestDeadline
<1>9. CASE CloseResults
  BY <1>9 DEF CloseResults
<1>10. CASE ReleaseLateClaim \/ CancelParent \/ DrainDeadline \/ Terminated \/ UNCHANGED vars
  BY <1>1, <1>10 DEF ReleaseLateClaim, CancelParent, DrainDeadline, Terminated, vars
<1>11. CASE ReceiveFinalClaim \/ AnchorDrain \/ ReceiveDrainTimer \/ ReceiveParentDone
  BY <1>11 DEF ReceiveFinalClaim, AnchorDrain, ReceiveDrainTimer, ReceiveParentDone, Selecting
<1>12. CASE ExpireDrain \/ PropagateParent
  BY <1>12 DEF ExpireDrain, PropagateParent, CancelPhase, FirstCause
<1>13. CASE ReceiveResult \/ ReceiveClose
  BY <1>13 DEF ReceiveResult, ReceiveClose
<1>14. CASE Return
  BY <1>14 DEF Return, Selecting
<1> QED
  BY <1>2, <1>3, <1>4, <1>5, <1>6, <1>7, <1>8, <1>9, <1>10, <1>11, <1>12, <1>13, <1>14
     DEF Next, WorkerStep, CoordinatorStep

(* The gate of the final claimer stays behind the boundary.                *)
LEMMA BoundaryStep ==
  ASSUME TypeInv, BoundaryInv, [Next]_vars
  PROVE  BoundaryInv'
<1> USE DEF TypeInv, TypeOK, BoundaryInv, Measured, Holding, contextVars, claimVars,
            workerVars, coordVars, GoTo
<1>1. CASE UNCHANGED <<plan, pc, sequence, coord, timer, admissionStopped, finalClaimSeen,
                       boundary>>
  BY <1>1
<1>2. ASSUME NEW w \in Worker,
             \/ CheckPhase(w) \/ LoadSequence(w) \/ LoseSwap(w) \/ AnnounceFinalClaim(w)
             \/ AwaitAdmissionStopped(w)
      PROVE  BoundaryInv'
  <2>1. UNCHANGED <<plan, sequence, coord, timer, admissionStopped, finalClaimSeen, boundary>>
    BY <1>2 DEF CheckPhase, LoadSequence, LoseSwap, AnnounceFinalClaim, AwaitAdmissionStopped
  <2>2. /\ \A v \in Worker \ {w} : pc'[v] = pc[v]
        /\ admissionStopped \/ pc'[w] \in {"load", "swap", "done", "await"}
    BY <1>2 DEF CheckPhase, LoadSequence, Exhausted, LoseSwap, AnnounceFinalClaim,
                AwaitAdmissionStopped
  <2> QED
    BY <2>1, <2>2
<1>3. ASSUME NEW w \in Worker, ClaimSequence(w) PROVE BoundaryInv'
  BY <1>3 DEF ClaimSequence
<1>4. ASSUME NEW w \in Worker,
             \/ StartRequest(w) \/ UpdateMaximum(w) \/ RunRequest(w) \/ FinishRequest(w)
             \/ ClassifyRequest(w)
      PROVE  BoundaryInv'
  <2>1. UNCHANGED <<plan, sequence, coord, timer, admissionStopped, finalClaimSeen, boundary>>
    BY <1>4 DEF StartRequest, UpdateMaximum, RunRequest, FinishRequest, ClassifyRequest
  <2>2. /\ \A v \in Worker \ {w} : pc'[v] = pc[v]
        /\ Holding(w) /\ pc[w] \notin {"announce", "await"}
    BY <1>4 DEF StartRequest, UpdateMaximum, RunRequest, FinishRequest, ClassifyRequest
  <2> QED
    BY <2>1, <2>2
<1>5. ASSUME NEW w \in Worker, SendResult(w) PROVE BoundaryInv'
  BY <1>5 DEF SendResult
<1>6. ASSUME NEW w \in Worker, RequestDeadline(w) PROVE BoundaryInv'
  BY <1>1, <1>6 DEF RequestDeadline
<1>7. CASE ReleaseLateClaim
  BY <1>7 DEF ReleaseLateClaim
<1>8. CASE ReceiveFinalClaim \/ ReceiveParentDone
  <2>1. UNCHANGED <<plan, pc, sequence, admissionStopped>>
    BY <1>8 DEF ReceiveFinalClaim, ReceiveParentDone
  <2>2. finalClaimSeen' = TRUE /\ boundary' # "open"
    BY <1>8 DEF ReceiveFinalClaim, ReceiveParentDone, ReportParent, StopAdmission
  <2> QED
    BY <2>1, <2>2
<1>9. CASE AnchorDrain \/ ReceiveDrainTimer \/ ExpireDrain
  BY <1>9 DEF AnchorDrain, ReceiveDrainTimer, ExpireDrain
<1>10. CASE Return
  <2>1. UNCHANGED <<plan, pc, sequence, admissionStopped, finalClaimSeen, timer>>
    BY <1>10 DEF Return
  <2>2. coord' = "returned" /\ (boundary # "open" => boundary' # "open")
    BY <1>10 DEF Return, ReportParent, StopAdmission
  <2> QED
    BY <2>1, <2>2
<1>11. CASE \/ CloseResults \/ ReceiveResult \/ ReceiveClose
            \/ CancelParent \/ PropagateParent \/ DrainDeadline \/ Terminated \/ UNCHANGED vars
  BY <1>1, <1>11 DEF CloseResults, ReceiveResult, ReceiveClose, CancelParent, PropagateParent,
                     DrainDeadline, Terminated, vars
<1> QED
  BY <1>2, <1>3, <1>4, <1>5, <1>6, <1>7, <1>8, <1>9, <1>10, <1>11
     DEF Next, WorkerStep, CoordinatorStep

(* A claimed sequence has one place, and moves to one place.               *)
LEMMA ClaimStep ==
  ASSUME TypeInv, TypeInv', ClaimInv, [Next]_vars
  PROVE  ClaimInv'
<1> USE PlanAssumption DEF TypeInv, ClaimInv, ClaimsConserved
<1> DEFINE Held == {w \in Worker : Holding(w)}
<1>1. Delivered \in Seq(Result) /\ Len(Delivered) \in Nat
  BY DeliveredType
<1>2. ASSUME UNCHANGED <<sequence, nextSequence, Delivered>>,
             \A w \in Worker : Holding(w)' <=> Holding(w)
      PROVE  ClaimInv'
  BY <1>2
<1>3. ASSUME NEW w \in Worker, CheckPhase(w) \/ LoadSequence(w) \/ LoseSwap(w)
      PROVE  ClaimInv'
  <2>1. sequence' = sequence /\ nextSequence' = nextSequence /\ Delivered' = Delivered
    BY <1>3 DEF Delivered, CheckPhase, LoadSequence, LoseSwap, claimVars, coordVars
  <2>2. /\ \A v \in Worker \ {w} : pc'[v] = pc[v]
        /\ ~Holding(w) /\ ~Holding(w)'
    <3>1. CASE CheckPhase(w)
      BY <3>1 DEF TypeOK, Holding, CheckPhase, GoTo
    <3>2. CASE LoadSequence(w)
      BY <3>2 DEF TypeOK, Holding, LoadSequence, Exhausted, GoTo
    <3>3. CASE LoseSwap(w)
      BY <3>3 DEF TypeOK, Holding, LoseSwap, GoTo
    <3> QED
      BY <1>3, <3>1, <3>2, <3>3
  <2>3. \A v \in Worker : Holding(v)' <=> Holding(v)
    BY <2>2 DEF Holding
  <2> QED
    BY <1>2, <2>1, <2>3
<1>4. ASSUME NEW w \in Worker, AnnounceFinalClaim(w) \/ AwaitAdmissionStopped(w) \/ StartRequest(w)
      PROVE  ClaimInv'
  <2>1. sequence' = sequence /\ nextSequence' = nextSequence /\ Delivered' = Delivered
    BY <1>4 DEF Delivered, AnnounceFinalClaim, AwaitAdmissionStopped, StartRequest, claimVars, coordVars
  <2>2. /\ \A v \in Worker \ {w} : pc'[v] = pc[v]
        /\ Holding(w) /\ Holding(w)'
    <3>1. CASE AnnounceFinalClaim(w)
      BY <3>1 DEF TypeOK, Holding, AnnounceFinalClaim, GoTo
    <3>2. CASE AwaitAdmissionStopped(w)
      BY <3>2 DEF TypeOK, Holding, AwaitAdmissionStopped, GoTo
    <3>3. CASE StartRequest(w)
      BY <3>3 DEF TypeOK, Holding, StartRequest, GoTo
    <3> QED
      BY <1>4, <3>1, <3>2, <3>3
  <2>3. \A v \in Worker : Holding(v)' <=> Holding(v)
    BY <2>2 DEF Holding
  <2> QED
    BY <1>2, <2>1, <2>3
<1>5. ASSUME NEW w \in Worker,
             UpdateMaximum(w) \/ RunRequest(w) \/ FinishRequest(w) \/ ClassifyRequest(w)
      PROVE  ClaimInv'
  <2>1. sequence' = sequence /\ nextSequence' = nextSequence /\ Delivered' = Delivered
    BY <1>5 DEF Delivered, UpdateMaximum, RunRequest, FinishRequest, ClassifyRequest, claimVars, coordVars
  <2>2. /\ \A v \in Worker \ {w} : pc'[v] = pc[v]
        /\ Holding(w) /\ Holding(w)'
    <3>1. CASE UpdateMaximum(w)
      BY <3>1 DEF TypeOK, Holding, UpdateMaximum, GoTo
    <3>2. CASE RunRequest(w)
      BY <3>2 DEF TypeOK, Holding, RunRequest, GoTo
    <3>3. CASE FinishRequest(w)
      BY <3>3 DEF TypeOK, Holding, FinishRequest, GoTo
    <3>4. CASE ClassifyRequest(w)
      BY <3>4 DEF TypeOK, Holding, ClassifyRequest, GoTo
    <3> QED
      BY <1>5, <3>1, <3>2, <3>3, <3>4
  <2>3. \A v \in Worker : Holding(v)' <=> Holding(v)
    BY <2>2 DEF Holding
  <2> QED
    BY <1>2, <2>1, <2>3
<1>6. ASSUME NEW w \in Worker, ClaimSequence(w) PROVE ClaimInv'
  <2>1. /\ nextSequence' = nextSequence + 1 /\ nextSequence \in Nat
        /\ sequence' = [sequence EXCEPT ![w] = nextSequence + 1]
        /\ ~Holding(w) /\ Holding(w)'
        /\ \A v \in Worker \ {w} : Holding(v)' <=> Holding(v)
        /\ Delivered' = Delivered
        /\ sequence'[w] = nextSequence + 1
        /\ \A v \in Worker \ {w} : sequence'[v] = sequence[v]
    BY <1>6 DEF TypeOK, Holding, Delivered, ClaimSequence, SwapSucceeds, GoTo, coordVars
  <2>2. \A v \in Worker : Holding(v)' => /\ sequence'[v] \in 1 .. nextSequence'
                                         /\ \A i \in 1 .. Len(Delivered') :
                                              Delivered'[i].sequence # sequence'[v]
    BY <1>1, <2>1
  <2>3. \A v, u \in Worker : Holding(v)' /\ Holding(u)' /\ sequence'[v] = sequence'[u] => v = u
    BY <2>1
  <2>4. \A s \in 1 .. nextSequence' :
          \/ \E v \in Worker : Holding(v)' /\ sequence'[v] = s
          \/ \E i \in 1 .. Len(Delivered') : Delivered'[i].sequence = s
    <3>1. ASSUME NEW s \in 1 .. nextSequence
          PROVE  \/ \E v \in Worker : Holding(v)' /\ sequence'[v] = s
                 \/ \E i \in 1 .. Len(Delivered') : Delivered'[i].sequence = s
      <4>1. CASE \E v \in Worker \ {w} : Holding(v) /\ sequence[v] = s
        BY <2>1, <4>1
      <4>2. CASE \E i \in 1 .. Len(Delivered) : Delivered[i].sequence = s
        BY <2>1, <4>2
      <4> QED
        BY <2>1, <4>1, <4>2
    <3>2. \E v \in Worker : Holding(v)' /\ sequence'[v] = nextSequence + 1
      BY <2>1
    <3>3. \A s \in 1 .. nextSequence' : s \in 1 .. nextSequence \/ s = nextSequence + 1
      BY <2>1
    <3> QED
      BY <3>1, <3>2, <3>3
  <2>5. \A i \in 1 .. Len(Delivered') : Delivered'[i].sequence \in 1 .. nextSequence'
    BY <1>1, <2>1
  <2>6. \A i, j \in 1 .. Len(Delivered') : Delivered'[i].sequence = Delivered'[j].sequence => i = j
    BY <2>1
  <2> QED
    BY <2>2, <2>3, <2>4, <2>5, <2>6
<1>7. ASSUME NEW w \in Worker, SendResult(w) PROVE ClaimInv'
  <2>1. /\ nextSequence' = nextSequence
        /\ Holding(w) /\ ~Holding(w)'
        /\ \A v \in Worker \ {w} : Holding(v)' <=> Holding(v)
        /\ \A v \in Worker \ {w} : sequence'[v] = sequence[v]
    BY <1>7 DEF TypeOK, Holding, SendResult, GoTo
  <2>2. /\ Len(Delivered') = Len(Delivered) + 1
        /\ \A i \in 1 .. Len(Delivered) : Delivered'[i] = Delivered[i]
        /\ Delivered'[Len(Delivered) + 1].sequence = sequence[w]
    BY <1>7, SendDelivers
  <2>3. \A v \in Worker : Holding(v)' => /\ sequence'[v] \in 1 .. nextSequence'
                                         /\ \A i \in 1 .. Len(Delivered') :
                                              Delivered'[i].sequence # sequence'[v]
    BY <1>1, <2>1, <2>2
  <2>4. \A v, u \in Worker : Holding(v)' /\ Holding(u)' /\ sequence'[v] = sequence'[u] => v = u
    BY <2>1
  <2>5. \A i, j \in 1 .. Len(Delivered') : Delivered'[i].sequence = Delivered'[j].sequence => i = j
    BY <1>1, <2>1, <2>2
  <2>6. ASSUME NEW s \in 1 .. nextSequence'
        PROVE  \/ \E v \in Worker : Holding(v)' /\ sequence'[v] = s
               \/ \E i \in 1 .. Len(Delivered') : Delivered'[i].sequence = s
    <3>1. CASE sequence[w] = s
      BY <1>1, <2>2, <3>1
    <3>2. CASE \E v \in Worker \ {w} : Holding(v) /\ sequence[v] = s
      BY <2>1, <3>2
    <3>3. CASE \E i \in 1 .. Len(Delivered) : Delivered[i].sequence = s
      BY <1>1, <2>2, <3>3
    <3> QED
      BY <2>1, <3>1, <3>2, <3>3
  <2>7. \A i \in 1 .. Len(Delivered') : Delivered'[i].sequence \in 1 .. nextSequence'
    BY <1>1, <2>1, <2>2
  <2> QED
    BY <2>3, <2>4, <2>5, <2>6, <2>7
<1>8. ASSUME UNCHANGED <<pc, sequence, nextSequence, Delivered>> PROVE ClaimInv'
  BY <1>2, <1>8 DEF Holding
<1>9. ASSUME NEW w \in Worker, RequestDeadline(w) PROVE ClaimInv'
  BY <1>8, <1>9 DEF RequestDeadline, Delivered, workerVars, claimVars, coordVars
<1>10. CASE ReceiveResult
  BY <1>8, <1>10, ReceiveKeepsDelivered DEF ReceiveResult, workerVars, claimVars
<1>11. CASE CloseResults \/ (CoordinatorStep /\ ~ReceiveResult)
  BY <1>8, <1>11
     DEF Delivered, workerVars, claimVars, coordVars, CloseResults, CoordinatorStep,
         ReleaseLateClaim, ReceiveFinalClaim, AnchorDrain, ReceiveDrainTimer, ExpireDrain,
         ReceiveParentDone, ReceiveClose, Return
<1>12. CASE CancelParent \/ PropagateParent \/ DrainDeadline \/ Terminated \/ UNCHANGED vars
  BY <1>8, <1>12 DEF Delivered, workerVars, claimVars, coordVars, CancelParent, PropagateParent,
                     DrainDeadline, Terminated, vars
<1> QED
  BY <1>3, <1>4, <1>5, <1>6, <1>7, <1>9, <1>10, <1>11, <1>12 DEF Next, WorkerStep

(***************************************************************************)
(* The theorems                                                            *)
(***************************************************************************)

(* The inductive invariant holds of every behaviour of the phase.          *)
THEOREM PhaseInvariant == Spec => []PhaseInv
<1>1. PhaseInv /\ [Next]_vars => PhaseInv'
  <2> SUFFICES ASSUME PhaseInv, [Next]_vars PROVE PhaseInv'
    OBVIOUS
  <2>1. TypeInv'
    BY TypeOKStep, WorkerStateStep, ActiveStep DEF TypeInv, PhaseInv
  <2>2. CauseInv' /\ ReportInv' /\ QuietInv' /\ BoundaryInv'
    BY CauseStep, ReportStep, QuietStep, BoundaryStep DEF PhaseInv
  <2>3. OutcomeInv' /\ ClaimInv'
    BY <2>1, OutcomeStep, ClaimStep DEF PhaseInv
  <2> QED
    BY <2>1, <2>2, <2>3 DEF PhaseInv
<1> QED
  BY InitPhaseInv, <1>1, PTL DEF Spec

(* No claimed request is lost, on no cancelled or timed-out path, and none *)
(* is run or delivered twice, however the workers interleave their loads   *)
(* and swaps of the claim counter.                                         *)
THEOREM ClaimsConservedCorrect == Spec => []ClaimsConserved
<1>1. PhaseInv => ClaimsConserved
  BY DEF PhaseInv, ClaimInv
<1> QED
  BY PhaseInvariant, <1>1, PTL

(* Measured request N never starts before the stop-admission boundary is   *)
(* recorded: the handshake over finalClaimCh works.                        *)
THEOREM FinalRequestCorrect == Spec => []FinalRequestAfterBoundary
<1>1. PhaseInv => FinalRequestAfterBoundary
  <2> SUFFICES ASSUME PhaseInv, Measured, NEW w \in Worker, Live(w), sequence[w] = Requests
               PROVE  boundary # "open" /\ finalClaimSeen
    BY DEF FinalRequestAfterBoundary
  <2>1. Holding(w) /\ pc[w] \notin {"announce", "await"}
    BY DEF Live, Holding
  <2> QED
    BY <2>1 DEF PhaseInv, BoundaryInv
<1> QED
  BY PhaseInvariant, <1>1, PTL

(* When the phase returns, its workers are gone.                           *)
LEMMA ReturnedIsQuiet ==
  ASSUME PhaseInv, Returned
  PROVE  (\A w \in Worker : pc[w] = "done") /\ resultsCh = <<>>
BY DEF PhaseInv, QuietInv

(* A phase that returned left no worker, no request in flight and no       *)
(* result behind, and it delivers one result for each claim.               *)
THEOREM DrainedCorrect == Spec => []DrainedOnReturn
<1>1. PhaseInv => DrainedOnReturn
  <2> SUFFICES ASSUME PhaseInv, Returned
               PROVE  /\ \A w \in Worker : pc[w] = "done"
                      /\ active = 0
                      /\ resultsCh = <<>>
                      /\ {completed[i].sequence : i \in 1 .. Len(completed)} = 1 .. nextSequence
    BY DEF DrainedOnReturn
  <2>1. (\A w \in Worker : pc[w] = "done") /\ resultsCh = <<>>
    BY ReturnedIsQuiet
  <2>2. active = 0
    <3>1. {w \in Worker : Counted(w)} = {}
      BY <2>1 DEF Counted
    <3> QED
      BY <3>1, FS_EmptySet DEF PhaseInv, TypeInv, ActiveIsExact
  <2>3. Delivered = completed
    BY <2>1, ConcatEmptySeq DEF Delivered, PhaseInv, TypeInv, TypeOK
  <2>4. \A s \in 1 .. nextSequence : \E i \in 1 .. Len(completed) : completed[i].sequence = s
    BY <2>1, <2>3 DEF PhaseInv, ClaimInv, ClaimsConserved, Holding
  <2>5. \A i \in 1 .. Len(completed) : completed[i].sequence \in 1 .. nextSequence
    BY <2>3 DEF PhaseInv, ClaimInv
  <2> QED
    BY <2>1, <2>2, <2>4, <2>5
<1> QED
  BY PhaseInvariant, <1>1, PTL

(* A phase that returns no error attempted every request: a worker that    *)
(* quits for a cancellation always leaves an error behind.                 *)
THEOREM CleanReturnCorrect == Spec => []CleanReturnIsComplete
<1>1. PhaseInv => CleanReturnIsComplete
  <2> SUFFICES ASSUME PhaseInv, Returned, phaseErr = "none"
               PROVE  nextSequence = Requests /\ PhaseStatus # "cancelled"
    BY DEF CleanReturnIsComplete
  <2>1. phaseCause = "none"
    BY DEF PhaseInv, TypeInv, TypeOK, PhaseCause, CauseInv, ReportInv
  <2>2. 1 \in Worker
    BY WorkerFinite, PlanAssumption DEF Worker
  <2>3. nextSequence = Requests
    BY <2>1, <2>2, ReturnedIsQuiet DEF PhaseInv, QuietInv
  <2> QED
    BY <2>3 DEF PhaseStatus
<1> QED
  BY PhaseInvariant, <1>1, PTL

(* A request that was cancelled with its parent implies that the phase     *)
(* reports the parent's cancellation, and one that was drained that the    *)
(* phase fails with the drain timeout.                                     *)
THEOREM CancellationReportedCorrect == Spec => []CancellationReported
<1>1. PhaseInv => CancellationReported
  <2> SUFFICES ASSUME PhaseInv, Returned
               PROVE  /\ "parent_cancelled" \in Outcomes => parentReported /\ phaseErr # "none"
                      /\ "drain_timeout" \in Outcomes => phaseErr = "drain"
    BY DEF CancellationReported
  <2>1. Delivered = completed
    BY ReturnedIsQuiet, ConcatEmptySeq DEF Delivered, PhaseInv, TypeInv, TypeOK
  <2>2. \A i \in 1 .. Len(completed) : Justified(completed[i].outcome, parentCancelled, phaseErr)
    BY <2>1 DEF PhaseInv, OutcomeInv
  <2>3. DOMAIN completed = 1 .. Len(completed)
    BY DEF PhaseInv, TypeInv, TypeOK
  <2> QED
    BY <2>2, <2>3 DEF Outcomes, Justified, PhaseInv, ReportInv
<1> QED
  BY PhaseInvariant, <1>1, PTL

(* A request in flight under a cancelled phase has a cancelled context.    *)
THEOREM CancellationReachesCorrect == Spec => []CancellationReachesRequests
<1>1. Init => CancellationReachesRequests
  BY DEF Init, CancellationReachesRequests, Live
<1>2. TypeInv /\ CancellationReachesRequests /\ [Next]_vars => CancellationReachesRequests'
  <2> SUFFICES ASSUME TypeInv, CancellationReachesRequests, [Next]_vars
               PROVE  CancellationReachesRequests'
    OBVIOUS
  <2> USE DEF TypeInv, TypeOK, CancellationReachesRequests, Live, contextVars, claimVars,
              workerVars, coordVars, GoTo
  <2>1. CASE UNCHANGED <<pc, phaseCause, requestCause>>
    BY <2>1
  <2>2. ASSUME NEW w \in Worker,
               \/ CheckPhase(w) \/ LoadSequence(w) \/ ClaimSequence(w) \/ LoseSwap(w)
               \/ AnnounceFinalClaim(w) \/ AwaitAdmissionStopped(w) \/ SendResult(w)
        PROVE  CancellationReachesRequests'
    BY <2>2 DEF CheckPhase, LoadSequence, Exhausted, ClaimSequence, LoseSwap,
                AnnounceFinalClaim, AwaitAdmissionStopped, SendResult
  <2>3. ASSUME NEW w \in Worker, StartRequest(w) PROVE CancellationReachesRequests'
    BY <2>3 DEF StartRequest, InheritedCause
  <2>4. ASSUME NEW w \in Worker,
               \/ UpdateMaximum(w) \/ RunRequest(w) \/ FinishRequest(w) \/ ClassifyRequest(w)
        PROVE  CancellationReachesRequests'
    BY <2>4 DEF UpdateMaximum, RunRequest, FinishRequest, ClassifyRequest
  <2>5. ASSUME NEW w \in Worker, RequestDeadline(w) PROVE CancellationReachesRequests'
    BY <2>5 DEF RequestDeadline
  <2>6. CASE ExpireDrain \/ PropagateParent
    BY <2>6 DEF ExpireDrain, PropagateParent, CancelPhase, FirstCause
  <2>7. CASE CloseResults \/ (CoordinatorStep /\ ~ExpireDrain)
    BY <2>1, <2>7
       DEF CloseResults, CoordinatorStep, ReleaseLateClaim, ReceiveFinalClaim, AnchorDrain,
           ReceiveDrainTimer, ReceiveParentDone, ReceiveResult, ReceiveClose, Return
  <2>8. CASE CancelParent \/ DrainDeadline \/ Terminated \/ UNCHANGED vars
    BY <2>1, <2>8 DEF CancelParent, DrainDeadline, Terminated, vars
  <2> QED
    BY <2>2, <2>3, <2>4, <2>5, <2>6, <2>7, <2>8 DEF Next, WorkerStep
<1> QED
  BY <1>1, <1>2, TypeInvariant, PTL DEF Spec

(* The phase and every live request keep the first cause they were         *)
(* cancelled with.                                                         *)
THEOREM CauseKeptCorrect == Spec => CauseKept
<1> DEFINE Kept == /\ phaseCause # "none" => phaseCause' = phaseCause
                   /\ \A w \in Worker : Live(w) /\ Live(w)' /\ requestCause[w] # "none"
                                          => requestCause'[w] = requestCause[w]
<1>1. TypeInv /\ [Next]_vars => Kept
  <2> SUFFICES ASSUME TypeInv, [Next]_vars PROVE Kept
    OBVIOUS
  <2> USE DEF TypeInv, TypeOK, contextVars, claimVars, workerVars, coordVars, GoTo
  <2>1. CASE UNCHANGED <<phaseCause, requestCause>>
    BY <2>1
  <2>2. ASSUME NEW w \in Worker, StartRequest(w) PROVE Kept
    BY <2>2 DEF StartRequest, Live
  <2>3. ASSUME NEW w \in Worker, ClassifyRequest(w) PROVE Kept
    BY <2>3 DEF ClassifyRequest, Live
  <2>4. ASSUME NEW w \in Worker, RequestDeadline(w) PROVE Kept
    BY <2>4 DEF RequestDeadline
  <2>5. ASSUME NEW w \in Worker, WorkerStep(w) \/ RunRequest(w),
               ~StartRequest(w), ~ClassifyRequest(w)
        PROVE  Kept
    BY <2>1, <2>5
       DEF WorkerStep, CheckPhase, LoadSequence, ClaimSequence, LoseSwap, AnnounceFinalClaim,
           AwaitAdmissionStopped, UpdateMaximum, RunRequest, FinishRequest, SendResult
  <2>6. CASE ExpireDrain \/ PropagateParent
    BY <2>6 DEF ExpireDrain, PropagateParent, CancelPhase, FirstCause
  <2>7. CASE CloseResults \/ (CoordinatorStep /\ ~ExpireDrain)
    BY <2>1, <2>7
       DEF CloseResults, CoordinatorStep, ReleaseLateClaim, ReceiveFinalClaim, AnchorDrain,
           ReceiveDrainTimer, ReceiveParentDone, ReceiveResult, ReceiveClose, Return
  <2>8. CASE CancelParent \/ DrainDeadline \/ Terminated \/ UNCHANGED vars
    BY <2>1, <2>8 DEF CancelParent, DrainDeadline, Terminated, vars
  <2> QED
    BY <2>2, <2>3, <2>4, <2>5, <2>6, <2>7, <2>8 DEF Next
<1>2. TypeInv /\ [Next]_vars => [Kept]_vars
  BY <1>1
<1> QED
  BY <1>2, TypeInvariant, PTL DEF Spec, CauseKept


(***************************************************************************)
(* The contract                                                            *)
(*                                                                         *)
(* A closed-loop phase implements PhaseContract, what a phase promises the *)
(* lifecycle, for every concurrency, every request limit and every plan:   *)
(* its initial states are initial states of the contract, and each of its  *)
(* steps is a step of the contract or invisible to it.                     *)
(***************************************************************************)

(* Where the phase's error comes from and what it leaves behind            *)
VerdictInv ==
  /\ ~Measured => finalClaimSeen
  /\ coord = "expire" \/ timer = "armed" => DrainTimed
  /\ phaseErr = "drain" => Measured /\ boundary # "open"
  /\ phaseErr = "parent" => parentCancelled /\ parentReported
  /\ parentReported => phaseErr # "none" /\ boundary # "open"
  /\ boundary = "parent" => parentReported

ContractInv == PhaseInv /\ VerdictInv

(* The phase starts in a state of the invariant.                           *)
LEMMA InitContractInv == Init => ContractInv
<1>1. Init => VerdictInv
  BY DEF Init, VerdictInv, FinalClaimWaived
<1> QED
  BY <1>1, InitPhaseInv DEF ContractInv

(* What a report of the parent leaves behind                               *)
LEMMA ReportLeaves ==
  ASSUME TypeOK, ReportParent
  PROVE  /\ parentReported' = TRUE
         /\ boundary' = IF boundary = "open" THEN "parent" ELSE boundary
         /\ boundary' # "open"
         /\ phaseErr' = IF phaseErr = "none" THEN "parent" ELSE phaseErr
         /\ phaseErr' # "none"
BY DEF TypeOK, ReportParent, StopAdmission, FirstCause

(* Every step keeps the source of the error.                               *)
LEMMA VerdictStep ==
  ASSUME TypeInv, BoundaryInv, VerdictInv, [Next]_vars
  PROVE  VerdictInv'
<1> USE DEF TypeInv, VerdictInv, Measured, DrainTimed, contextVars, claimVars, workerVars, coordVars
<1>1. CASE /\ UNCHANGED <<plan, finalClaimSeen, coord, timer, phaseErr, boundary, parentReported>>
           /\ parentCancelled => parentCancelled'
  BY <1>1
<1>2. ASSUME NEW w \in Worker, WorkerStep(w) \/ RunRequest(w) \/ RequestDeadline(w)
      PROVE  VerdictInv'
  BY <1>1, <1>2 DEF WorkerStep, CheckPhase, LoadSequence, ClaimSequence, LoseSwap,
                    AnnounceFinalClaim, AwaitAdmissionStopped, StartRequest, UpdateMaximum,
                    FinishRequest, ClassifyRequest, SendResult, RunRequest, RequestDeadline
<1>3. CASE ReceiveFinalClaim
  <2>1. /\ UNCHANGED <<plan, timer, phaseErr, parentReported, parentCancelled>>
        /\ finalClaimSeen' = TRUE /\ coord' = "anchor"
        /\ boundary' = IF boundary = "open" THEN "limit" ELSE boundary
    BY <1>3 DEF ReceiveFinalClaim, StopAdmission
  <2> QED
    BY <2>1
<1>4. CASE AnchorDrain \/ ReceiveDrainTimer
  <2>1. /\ UNCHANGED <<plan, finalClaimSeen, phaseErr, boundary, parentReported, parentCancelled>>
        /\ coord' = "expire" \/ timer' = "armed" => DrainTimed
    BY <1>4 DEF AnchorDrain, ReceiveDrainTimer
  <2> QED
    BY <2>1
<1>5. CASE ExpireDrain
  <2>1. /\ UNCHANGED <<plan, finalClaimSeen, timer, boundary, parentReported, parentCancelled>>
        /\ coord = "expire" /\ coord' = "select" /\ phaseErr' = "drain"
    BY <1>5 DEF ExpireDrain
  <2>2. Measured /\ boundary # "open"
    BY <2>1 DEF BoundaryInv
  <2> QED
    BY <2>1, <2>2
<1>6. CASE ReceiveParentDone
  <2>1. /\ UNCHANGED <<plan, timer, coord, parentCancelled>> /\ finalClaimSeen' = TRUE
        /\ parentCancelled /\ ReportParent
    BY <1>6 DEF ReceiveParentDone
  <2>2. /\ parentReported' = TRUE /\ boundary' # "open" /\ phaseErr' # "none"
        /\ phaseErr' = IF phaseErr = "none" THEN "parent" ELSE phaseErr
    BY <2>1, ReportLeaves
  <2> QED
    BY <2>1, <2>2
<1>7. CASE Return
  <2>1. /\ UNCHANGED <<plan, timer, finalClaimSeen, parentCancelled>> /\ coord' = "returned"
        /\ \/ parentCancelled /\ ReportParent
           \/ UNCHANGED <<parentReported, boundary, phaseErr>>
    BY <1>7 DEF Return, CancellationUnreported
  <2>2. CASE parentCancelled /\ ReportParent
    <3>1. /\ parentReported' = TRUE /\ boundary' # "open" /\ phaseErr' # "none"
          /\ phaseErr' = IF phaseErr = "none" THEN "parent" ELSE phaseErr
      BY <2>2, ReportLeaves
    <3> QED
      BY <2>1, <2>2, <3>1
  <2> QED
    BY <2>1, <2>2
<1>8. CASE ReleaseLateClaim \/ ReceiveResult \/ ReceiveClose \/ CloseResults
  BY <1>1, <1>8 DEF ReleaseLateClaim, ReceiveResult, ReceiveClose, CloseResults
<1>9. CASE CancelParent \/ PropagateParent \/ DrainDeadline
  BY <1>1, <1>9 DEF CancelParent, PropagateParent, DrainDeadline
<1>10. CASE Terminated \/ UNCHANGED vars
  BY <1>1, <1>10 DEF Terminated, vars
<1> QED
  BY <1>2, <1>3, <1>4, <1>5, <1>6, <1>7, <1>8, <1>9, <1>10 DEF Next, CoordinatorStep

(* The strengthened invariant holds of every behaviour.                    *)
THEOREM ContractInvariant == Spec => []ContractInv
<1>1. VerdictInv /\ PhaseInv /\ [Next]_vars => VerdictInv'
  BY VerdictStep DEF PhaseInv
<1>2. Init => VerdictInv
  BY InitContractInv DEF ContractInv
<1> QED
  BY PhaseInvariant, <1>1, <1>2, PTL DEF Spec, ContractInv

(***************************************************************************)
(* What the contract sees                                                  *)
(***************************************************************************)

SeenStatus  == [s \in 1 .. Requests |-> StatusOf(s)]
SeenVerdict == IF Returned THEN phaseErr ELSE "running"

IsCompleted(s) == \E i \in 1 .. Len(completed) : completed[i].sequence = s

(* The status of a request, by where its claim is                          *)
LEMMA StatusCases ==
  ASSUME ContractInv, NEW s \in 1 .. Requests
  PROVE  /\ s > nextSequence => StatusOf(s) = "pending"
         /\ ~(s > nextSequence) /\ ~IsCompleted(s) => StatusOf(s) = "admitted"
         /\ ~(s > nextSequence) => \A i \in 1 .. Len(completed) :
              completed[i].sequence = s => StatusOf(s) = completed[i].outcome
<1>1. completed \in Seq(Result) /\ resultsCh \in Seq(Result)
  BY DEF ContractInv, PhaseInv, TypeInv, TypeOK
<1>2. DOMAIN completed = 1 .. Len(completed)
  BY <1>1
<1>3. /\ Len(completed) \in Nat /\ Len(completed) <= Len(Delivered)
      /\ \A i \in 1 .. Len(completed) : i \in 1 .. Len(Delivered) /\ Delivered[i] = completed[i]
  BY <1>1, ConcatProperties DEF Delivered
<1>4. \A i, j \in 1 .. Len(completed) : completed[i].sequence = completed[j].sequence => i = j
  BY <1>3 DEF ContractInv, PhaseInv, ClaimInv, ClaimsConserved
<1>5. ASSUME ~(s > nextSequence), NEW i \in 1 .. Len(completed), completed[i].sequence = s
      PROVE  StatusOf(s) = completed[i].outcome
  <2>1. (CHOOSE j \in DOMAIN completed : completed[j].sequence = s) = i
    BY <1>2, <1>4, <1>5
  <2> QED
    BY <1>2, <1>5, <2>1 DEF StatusOf
<1> QED
  BY <1>2, <1>5 DEF StatusOf, IsCompleted

(* A step that touches nothing the contract sees                           *)
LEMMA Unseen ==
  ASSUME UNCHANGED <<plan, parentCancelled, boundary, parentReported, nextSequence, completed,
                     SeenVerdict>>
  PROVE  UNCHANGED Contract!vars
<1>1. SeenStatus' = SeenStatus
  BY DEF SeenStatus, StatusOf
<1> QED
  BY <1>1 DEF Contract!vars, Measured, SeenStatus, SeenVerdict

(* The phase starts where the contract starts.                             *)
LEMMA InitRefines == Init => Contract!Init
<1> SUFFICES ASSUME Init PROVE Contract!Init
  OBVIOUS
<1>1. SeenStatus = [s \in 1 .. Requests |-> "pending"]
  BY PlanAssumption DEF Init, SeenStatus, StatusOf
<1>2. [measured |-> Measured, openLoop |-> FALSE] \in [measured : BOOLEAN, openLoop : BOOLEAN]
  BY DEF Measured
<1>3. parentCancelled \in BOOLEAN /\ boundary = "open" /\ parentReported = FALSE /\ ~Returned
  BY DEF Init, Returned
<1> QED
  BY <1>1, <1>2, <1>3 DEF Contract!Init, SeenStatus

(***************************************************************************)
(* Every step is one of the contract's, or unseen                          *)
(***************************************************************************)

(* A worker that claims a sequence admits the request.                     *)
LEMMA ClaimRefines ==
  ASSUME ContractInv, ContractInv', NEW w \in Worker, ClaimSequence(w)
  PROVE  Contract!Next
<1> USE DEF contextVars, coordVars
<1>1. PICK s \in 1 .. Requests : s = nextSequence + 1
  BY DEF ClaimSequence, SwapSucceeds, ContractInv, PhaseInv, TypeInv, TypeOK
<1>2. /\ nextSequence' = s /\ nextSequence \in Nat
      /\ UNCHANGED <<plan, parentCancelled, boundary, parentReported, phaseErr, coord, completed,
                     resultsCh>>
  BY <1>1 DEF ClaimSequence, SwapSucceeds, ContractInv, PhaseInv, TypeInv, TypeOK
<1>3. ~IsCompleted(s)
  <2>1. completed \in Seq(Result) /\ resultsCh \in Seq(Result)
    BY DEF ContractInv, PhaseInv, TypeInv, TypeOK
  <2>2. \A i \in 1 .. Len(completed) : i \in 1 .. Len(Delivered) /\ Delivered[i] = completed[i]
    BY <2>1, ConcatProperties DEF Delivered
  <2>3. \A i \in 1 .. Len(completed) : completed[i].sequence \in 1 .. nextSequence
    BY <2>2 DEF ContractInv, PhaseInv, ClaimInv
  <2> QED
    BY <1>1, <1>2, <2>3 DEF IsCompleted
<1>4. StatusOf(s) = "pending" /\ StatusOf(s)' = "admitted"
  <2>1. DOMAIN completed = 1 .. Len(completed)
    BY DEF ContractInv, PhaseInv, TypeInv, TypeOK
  <2>2. s > nextSequence /\ ~(s > nextSequence')
    BY <1>1, <1>2
  <2> QED
    BY <1>2, <1>3, <2>1, <2>2 DEF StatusOf, IsCompleted
<1>5. ASSUME NEW a \in 1 .. Requests, a # s PROVE StatusOf(a)' = StatusOf(a)
  <2>1. a > nextSequence' <=> a > nextSequence
    BY <1>1, <1>2, <1>5
  <2> QED
    BY <1>2, <2>1 DEF StatusOf
<1>6. SeenStatus' = [SeenStatus EXCEPT ![s] = "admitted"] /\ SeenStatus[s] = "pending"
  BY <1>1, <1>4, <1>5 DEF SeenStatus
<1>7. coord # "returned"
  BY DEF ClaimSequence, ContractInv, PhaseInv, QuietInv, Returned
<1>8. SeenVerdict = "running" /\ SeenVerdict' = "running" /\ Measured' = Measured
  BY <1>2, <1>7 DEF SeenVerdict, Returned, Measured
<1>9. Contract!Admit(s)
  BY <1>2, <1>6, <1>8 DEF Contract!Admit, SeenStatus, SeenVerdict
<1> QED
  BY <1>9 DEF Contract!Next

(* The workers' other steps are unseen.                                    *)
LEMMA WorkerRefines ==
  ASSUME ContractInv, ContractInv', NEW w \in Worker,
         WorkerStep(w) \/ RunRequest(w) \/ RequestDeadline(w)
  PROVE  [Contract!Next]_Contract!vars
<1> USE DEF contextVars, claimVars, workerVars, coordVars
<1>1. CASE ClaimSequence(w)
  BY <1>1, ClaimRefines
<1>2. CASE ~ClaimSequence(w)
  <2>1. UNCHANGED <<plan, parentCancelled, boundary, parentReported, nextSequence, completed,
                    coord, phaseErr>>
    BY <1>2 DEF WorkerStep, CheckPhase, LoadSequence, LoseSwap, AnnounceFinalClaim,
                AwaitAdmissionStopped, StartRequest, UpdateMaximum, FinishRequest,
                ClassifyRequest, SendResult, RunRequest, RequestDeadline
  <2> QED
    BY <2>1, Unseen DEF SeenVerdict, Returned
<1> QED
  BY <1>1, <1>2

(* A result is taken from the channel: the contract's request finishes.    *)
LEMMA ReceiveRefines ==
  ASSUME ContractInv, ContractInv', ReceiveResult
  PROVE  Contract!Next
<1> USE DEF contextVars, claimVars, workerVars, coordVars
<1>1. /\ completed \in Seq(Result) /\ resultsCh \in Seq(Result) /\ resultsCh # <<>>
      /\ completed' \in Seq(Result)
  <2>1. TypeOK /\ TypeOK'
    BY DEF ContractInv, PhaseInv, TypeInv
  <2> QED
    BY <2>1 DEF ReceiveResult, TypeOK
<1>2. PICK r \in Result : r = Head(resultsCh)
  BY <1>1, HeadTailProperties
<1>3. /\ completed' = Append(completed, r)
      /\ UNCHANGED <<plan, parentCancelled, boundary, parentReported, phaseErr, coord, nextSequence>>
      /\ coord = "select"
  BY <1>2 DEF ReceiveResult, Selecting
<1>4. /\ Len(completed) \in Nat /\ Len(completed') = Len(completed) + 1
      /\ completed'[Len(completed) + 1] = r
      /\ \A i \in 1 .. Len(completed) : completed'[i] = completed[i]
  BY <1>1, <1>3
<1>5. /\ Len(completed) + 1 \in 1 .. Len(Delivered)
      /\ Delivered[Len(completed) + 1] = r
      /\ \A i \in 1 .. Len(completed) : i \in 1 .. Len(Delivered) /\ Delivered[i] = completed[i]
  <2>1. Len(resultsCh) \in Nat /\ Len(resultsCh) >= 1 /\ resultsCh[1] = r
    BY <1>1, <1>2, HeadTailProperties
  <2> QED
    BY <1>1, <2>1, ConcatProperties DEF Delivered
<1>6. PICK s \in 1 .. Requests : s = r.sequence
  BY DEF Result
<1>7. nextSequence \in Nat /\ ~(s > nextSequence) /\ r.outcome \in Outcome
  <2>1. nextSequence \in 0 .. Requests /\ Requests \in Nat
    BY PlanAssumption DEF ContractInv, PhaseInv, TypeInv, TypeOK
  <2>2. r.sequence \in 1 .. nextSequence
    BY <1>5 DEF ContractInv, PhaseInv, ClaimInv
  <2>3. r.outcome \in Outcome
    BY DEF Result
  <2> QED
    BY <1>6, <2>1, <2>2, <2>3
<1>8. ~IsCompleted(s)
  <2> SUFFICES ASSUME NEW i \in 1 .. Len(completed), completed[i].sequence = s
               PROVE  FALSE
    BY DEF IsCompleted
  <2>1. \A j, k \in 1 .. Len(Delivered) : Delivered[j].sequence = Delivered[k].sequence => j = k
    BY DEF ContractInv, PhaseInv, ClaimInv, ClaimsConserved
  <2>2. i \in 1 .. Len(Delivered) /\ Delivered[i].sequence = Delivered[Len(completed) + 1].sequence
    BY <1>5, <1>6
  <2>3. i = Len(completed) + 1
    BY <1>5, <2>1, <2>2
  <2> QED
    BY <1>4, <2>3
<1>9. /\ r.outcome = "parent_cancelled" => parentCancelled
      /\ r.outcome = "drain_timeout" => Measured /\ boundary # "open"
  BY <1>5 DEF ContractInv, PhaseInv, OutcomeInv, Justified, VerdictInv
<1>10. StatusOf(s) = "admitted" /\ StatusOf(s)' = r.outcome
  <2>1. StatusOf(s) = "admitted"
    BY <1>7, <1>8, StatusCases
  <2>2. DOMAIN completed' = 1 .. Len(completed) + 1
    BY <1>1, <1>4
  <2>3. \A i \in DOMAIN completed' : completed'[i].sequence = s <=> i = Len(completed) + 1
    BY <1>4, <1>6, <1>8, <2>2 DEF IsCompleted
  <2>4. (CHOOSE i \in DOMAIN completed' : completed'[i].sequence = s) = Len(completed) + 1
    BY <1>4, <2>2, <2>3
  <2>5. StatusOf(s)' = r.outcome
    BY <1>3, <1>4, <1>7, <2>2, <2>3, <2>4 DEF StatusOf
  <2> QED
    BY <2>1, <2>5
<1>11. ASSUME NEW a \in 1 .. Requests, a # s PROVE StatusOf(a)' = StatusOf(a)
  <2>1. DOMAIN completed = 1 .. Len(completed) /\ DOMAIN completed' = 1 .. Len(completed) + 1
    BY <1>1, <1>4
  <2>2. \A i \in DOMAIN completed' : completed'[i].sequence = a
                                   <=> i \in DOMAIN completed /\ completed[i].sequence = a
    BY <1>4, <1>6, <1>11, <2>1
  <2>3. \A i \in DOMAIN completed : i \in DOMAIN completed' /\ completed'[i] = completed[i]
    BY <1>4, <2>1
  <2>4. CASE a > nextSequence
    BY <1>3, <2>4 DEF StatusOf
  <2>5. CASE ~(a > nextSequence) /\ ~\E i \in DOMAIN completed : completed[i].sequence = a
    BY <1>3, <2>2, <2>5 DEF StatusOf
  <2>6. ASSUME ~(a > nextSequence), NEW i \in DOMAIN completed, completed[i].sequence = a
        PROVE  StatusOf(a)' = StatusOf(a)
    <3>1. \A j \in DOMAIN completed : completed[j].sequence = a => j = i
      BY <1>5, <2>1, <2>6 DEF ContractInv, PhaseInv, ClaimInv, ClaimsConserved
    <3>2. /\ (CHOOSE j \in DOMAIN completed : completed[j].sequence = a) = i
          /\ (CHOOSE j \in DOMAIN completed' : completed'[j].sequence = a) = i
      BY <2>2, <2>3, <2>6, <3>1
    <3> QED
      BY <1>3, <2>2, <2>3, <2>6, <3>2 DEF StatusOf
  <2> QED
    BY <2>4, <2>5, <2>6
<1>12. SeenStatus' = [SeenStatus EXCEPT ![s] = r.outcome] /\ SeenStatus[s] = "admitted"
  BY <1>10, <1>11 DEF SeenStatus
<1>13. SeenVerdict = "running" /\ SeenVerdict' = "running" /\ Measured' = Measured
  BY <1>3 DEF SeenVerdict, Returned, Measured
<1>14. Contract!Finish(s, r.outcome)
  BY <1>3, <1>9, <1>12, <1>13 DEF Contract!Finish, SeenStatus, SeenVerdict, Measured
<1> QED
  BY <1>7, <1>14 DEF Contract!Next, Outcome, Contract!Outcome

(* The parent is reported, or admission stopped at the final claim.        *)
LEMMA BoundaryRefines ==
  ASSUME ContractInv, ReceiveFinalClaim \/ ReceiveParentDone
  PROVE  Contract!Next
<1> USE DEF contextVars, claimVars, workerVars, coordVars
<1>1. /\ UNCHANGED <<plan, parentCancelled, nextSequence, completed>>
      /\ coord # "returned" /\ coord' # "returned"
  BY DEF ReceiveFinalClaim, ReceiveParentDone, Selecting
<1>2. /\ SeenVerdict = "running" /\ SeenVerdict' = "running" /\ Measured' = Measured
      /\ SeenStatus' = SeenStatus
  BY <1>1 DEF SeenVerdict, Returned, Measured, SeenStatus, StatusOf
<1>3. CASE ReceiveFinalClaim
  <2>1. /\ Measured
        /\ boundary' = IF boundary = "open" THEN "limit" ELSE boundary
        /\ UNCHANGED parentReported
    BY <1>3 DEF ReceiveFinalClaim, StopAdmission, ContractInv, VerdictInv
  <2>2. Contract!StopAdmission
    BY <1>1, <1>2, <2>1 DEF Contract!StopAdmission, Contract!Close, SeenStatus, SeenVerdict
  <2> QED
    BY <2>2 DEF Contract!Next
<1>4. CASE ReceiveParentDone
  <2>1. /\ parentCancelled /\ parentReported' = TRUE
        /\ boundary' = IF boundary = "open" THEN "parent" ELSE boundary
    BY <1>4 DEF ReceiveParentDone, ReportParent, StopAdmission
  <2>2. Contract!ReportCancellation
    BY <1>1, <1>2, <2>1 DEF Contract!ReportCancellation, Contract!Close, SeenStatus, SeenVerdict
  <2> QED
    BY <2>2 DEF Contract!Next
<1> QED
  BY <1>3, <1>4

(* The rest of the coordinator's loop, and the environment, are unseen.    *)
LEMMA OthersRefine ==
  ASSUME ContractInv,
         \/ ReleaseLateClaim \/ AnchorDrain \/ ReceiveDrainTimer \/ ExpireDrain \/ ReceiveClose
         \/ CloseResults \/ PropagateParent \/ DrainDeadline \/ Terminated \/ UNCHANGED vars
  PROVE  UNCHANGED Contract!vars
<1> USE DEF contextVars, claimVars, workerVars, coordVars
<1>1. UNCHANGED <<plan, parentCancelled, boundary, parentReported, nextSequence, completed>>
  BY DEF ReleaseLateClaim, AnchorDrain, ReceiveDrainTimer, ExpireDrain, ReceiveClose, CloseResults,
         PropagateParent, DrainDeadline, Terminated, vars
<1>2. SeenVerdict' = SeenVerdict
  <2>1. CASE ReleaseLateClaim \/ AnchorDrain \/ ReceiveDrainTimer \/ ExpireDrain \/ ReceiveClose
    <3>1. coord # "returned" /\ coord' # "returned"
      BY <2>1 DEF ReleaseLateClaim, AnchorDrain, ReceiveDrainTimer, ExpireDrain, ReceiveClose, Selecting
    <3> QED
      BY <3>1 DEF SeenVerdict, Returned
  <2>2. CASE CloseResults \/ PropagateParent \/ DrainDeadline \/ Terminated \/ UNCHANGED vars
    <3>1. UNCHANGED <<coord, phaseErr>>
      BY <2>2 DEF CloseResults, PropagateParent, DrainDeadline, Terminated, vars
    <3> QED
      BY <3>1 DEF SeenVerdict, Returned
  <2> QED
    BY <2>1, <2>2
<1> QED
  BY <1>1, <1>2, Unseen

(* The parent is cancelled: the contract's is.                             *)
LEMMA CancelRefines ==
  ASSUME ContractInv, CancelParent
  PROVE  Contract!Next
<1>1. /\ UNCHANGED <<plan, boundary, parentReported, nextSequence, completed, coord, phaseErr>>
      /\ parentCancelled' = TRUE
  BY DEF CancelParent, workerVars, claimVars, coordVars
<1>2. SeenStatus' = SeenStatus /\ SeenVerdict' = SeenVerdict /\ Measured' = Measured
  BY <1>1 DEF SeenStatus, StatusOf, SeenVerdict, Returned, Measured
<1>3. Contract!CancelParent
  BY <1>1, <1>2 DEF Contract!CancelParent, SeenStatus, SeenVerdict
<1> QED
  BY <1>3 DEF Contract!Next

(* When the loop is over, every claimed request has its outcome.           *)
LEMMA NothingAdmitted ==
  ASSUME ContractInv, coord = "select", ~Selecting, NEW s \in 1 .. Requests
  PROVE  /\ StatusOf(s) # "admitted"
         /\ StatusOf(s) = "pending" => nextSequence # Requests
         /\ StatusOf(s) = "drain_timeout" => phaseErr = "drain"
<1>1. resultsCh = <<>> /\ \A w \in Worker : pc[w] = "done"
  BY DEF Selecting, ContractInv, PhaseInv, QuietInv
<1>2. completed \in Seq(Result) /\ Delivered = completed
  BY <1>1, ConcatEmptySeq DEF Delivered, ContractInv, PhaseInv, TypeInv, TypeOK
<1>3. nextSequence \in 0 .. Requests /\ Requests \in Nat
  BY PlanAssumption DEF ContractInv, PhaseInv, TypeInv, TypeOK
<1>4. CASE s > nextSequence
  BY <1>3, <1>4, StatusCases
<1>5. CASE ~(s > nextSequence)
  <2>1. s \in 1 .. nextSequence
    BY <1>3, <1>5
  <2>2. PICK i \in 1 .. Len(completed) : completed[i].sequence = s
    BY <1>1, <1>2, <2>1 DEF ContractInv, PhaseInv, ClaimInv, ClaimsConserved, Holding
  <2>3. /\ completed[i].outcome \in Outcome
        /\ completed[i].outcome = "drain_timeout" => phaseErr = "drain"
    <3>1. completed[i] \in Result
      BY <1>2, <2>2
    <3>2. Justified(completed[i].outcome, parentCancelled, phaseErr)
      BY <1>2, <2>2 DEF ContractInv, PhaseInv, OutcomeInv
    <3> QED
      BY <3>1, <3>2 DEF Result, Justified
  <2>4. StatusOf(s) = completed[i].outcome
    BY <1>5, <2>2, StatusCases
  <2> QED
    BY <2>3, <2>4 DEF Outcome
<1> QED
  BY <1>4, <1>5

(* The phase returns: so does the contract's, with the same error.         *)
LEMMA ReturnRefines ==
  ASSUME ContractInv, Return
  PROVE  Contract!Next
<1> USE DEF contextVars, claimVars, workerVars, coordVars
<1>1. /\ UNCHANGED <<plan, parentCancelled, nextSequence, completed>>
      /\ coord = "select" /\ ~Selecting /\ coord' = "returned"
  BY DEF Return
<1>2. /\ SeenVerdict = "running" /\ SeenVerdict' = phaseErr' /\ Measured' = Measured
      /\ SeenStatus' = SeenStatus
  BY <1>1 DEF SeenVerdict, Returned, Measured, SeenStatus, StatusOf
<1>3. /\ phaseErr \in {"none", "parent", "drain"} /\ boundary \in {"open", "limit", "parent"}
      /\ parentReported \in BOOLEAN /\ TypeOK
  BY DEF ContractInv, PhaseInv, TypeInv, TypeOK, PhaseCause
<1>4. \/ /\ parentCancelled /\ parentReported' = TRUE
         /\ boundary' = IF boundary = "open" THEN "parent" ELSE boundary
         /\ phaseErr' = IF phaseErr = "none" THEN "parent" ELSE phaseErr
      \/ /\ UNCHANGED <<parentReported, boundary, phaseErr>>
         /\ parentCancelled => parentReported /\ boundary # "open" /\ phaseErr # "none"
  <2>1. CASE CancellationUnreported
    BY <1>3, <2>1, ReportLeaves DEF Return, CancellationUnreported
  <2>2. CASE ~CancellationUnreported
    <3>1. UNCHANGED <<parentReported, boundary, phaseErr>>
      BY <2>2 DEF Return
    <3>2. parentCancelled => ~parentDone
      BY <2>2 DEF CancellationUnreported
    <3>3. ~parentDone => parentReported /\ boundary # "open" /\ phaseErr # "none"
      BY DEF ContractInv, PhaseInv, ReportInv, VerdictInv
    <3> QED
      BY <3>1, <3>2, <3>3
  <2> QED
    BY <2>1, <2>2
<1>5. Contract!Statuses = {StatusOf(s) : s \in 1 .. Requests}
  BY DEF Contract!Statuses
<1>6. /\ "admitted" \notin Contract!Statuses
      /\ "drain_timeout" \in Contract!Statuses => phaseErr' = "drain"
  BY <1>1, <1>4, <1>5, NothingAdmitted
<1>7. /\ phaseErr' \in {"none", "parent", "drain"}
      /\ phaseErr' = "drain" => Measured /\ boundary # "open"
      /\ phaseErr' = "parent" => parentCancelled
      /\ phaseErr' = "parent" \/ parentCancelled =>
           /\ parentReported' = TRUE
           /\ boundary' = IF boundary = "open" THEN "parent" ELSE boundary
      /\ ~(phaseErr' = "parent" \/ parentCancelled) => UNCHANGED <<parentReported, boundary>>
  BY <1>3, <1>4 DEF ContractInv, VerdictInv
<1>8. ASSUME phaseErr' = "none"
      PROVE  /\ "pending" \notin Contract!Statuses
             /\ ~parentReported /\ ~parentCancelled
             /\ Measured => boundary = "limit"
  <2>1. phaseErr = "none" /\ ~parentCancelled
    BY <1>3, <1>4, <1>8
  <2>2. phaseCause = "none"
    BY <2>1 DEF ContractInv, PhaseInv, CauseInv, TypeInv, TypeOK, PhaseCause
  <2>3. 1 \in Worker /\ \A w \in Worker : pc[w] = "done"
    BY <1>1, WorkerFinite, PlanAssumption DEF Worker, Selecting, ContractInv, PhaseInv, QuietInv
  <2>4. nextSequence = Requests
    BY <2>2, <2>3 DEF ContractInv, PhaseInv, QuietInv
  <2>5. ~parentReported /\ boundary # "parent"
    BY <2>1 DEF ContractInv, VerdictInv
  <2>6. Measured => boundary # "open"
    BY <1>1 DEF Selecting, ContractInv, PhaseInv, BoundaryInv
  <2> QED
    BY <1>1, <1>3, <1>5, <2>1, <2>4, <2>5, <2>6, NothingAdmitted
<1>9. Contract!Return(phaseErr')
  BY <1>1, <1>2, <1>6, <1>7, <1>8
     DEF Contract!Return, Contract!Close, SeenStatus, SeenVerdict
<1> QED
  BY <1>7, <1>9 DEF Contract!Next

(* A closed-loop phase keeps its contract with the lifecycle.              *)
THEOREM ContractCorrect == Spec => ImplementsContract
<1>1. ContractInv /\ ContractInv' /\ [Next]_vars => [Contract!Next]_Contract!vars
  BY WorkerRefines, ReceiveRefines, BoundaryRefines, OthersRefine, CancelRefines, ReturnRefines
     DEF Next, CoordinatorStep
<1> QED
  BY InitRefines, ContractInvariant, <1>1, PTL DEF Spec, ImplementsContract, Contract!Spec


=============================================================================
