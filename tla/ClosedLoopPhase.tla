--------------------------- MODULE ClosedLoopPhase ---------------------------
(***************************************************************************)
(* One closed-loop request phase of the benchmark harness:                 *)
(* LifecycleCoordinator.runClosedLoopPhase and the helpers it calls, in    *)
(* src/internal/benchmark/lifecycle.go.                                    *)
(*                                                                         *)
(* min(C, N) worker goroutines claim request sequences from an atomic      *)
(* counter, run one request at a time and send its result on a bounded     *)
(* channel.  A coordinator goroutine selects over the announcement of the  *)
(* final claim, the parent context, the drain timer and the results.  The  *)
(* parent context (Ctrl-C), its child the phase context and the request    *)
(* contexts are the environment's way in.                                  *)
(*                                                                         *)
(* Time is one fact: whether "final claim + drain timeout" has passed.     *)
(***************************************************************************)
EXTENDS Naturals, Sequences, FiniteSets

CONSTANTS
  Concurrency,   (* plan.lifecyclePlan.Concurrency                         *)
  Requests,      (* plan.requests                                          *)
  Plans          (* the kinds of phase the lifecycle asks for              *)

ASSUME PlanAssumption ==
  /\ Concurrency \in Nat \ {0}
  /\ Requests \in Nat \ {0}
  /\ Plans \subseteq {"warmup", "measured", "timed"}

WorkerCount == IF Requests < Concurrency THEN Requests ELSE Concurrency
Worker      == 1 .. WorkerCount

(* context.Cause of the phase context and of a request context             *)
PhaseCause   == {"none", "parent", "drain"}
RequestCause == PhaseCause \cup {"deadline"}

(* what errors.Is can tell about the error RunRequest returns              *)
ResponseErr == {"nil", "error", "deadline"}
Outcome     == {"succeeded", "request_error", "request_timeout",
                "parent_cancelled", "drain_timeout"}

WorkerPC == {"check", "load", "swap", "announce", "await", "start",
             "maximum", "run", "finish", "classify", "send", "done"}

VARIABLES
  plan,             (* the phase's plan: warmup, or measured without or    *)
                    (* with a drain timeout; fixed                         *)
  (* contexts *)
  parentCancelled,  (* ctx.Err() # nil                                     *)
  phaseCause,       (* context.Cause(phaseCtx)                             *)
  requestCause,     (* per worker: context.Cause(requestCtx)               *)
  drainExpired,     (* final claim + drain timeout has passed              *)
  (* workers *)
  pc,               (* per worker: the statement it executes next          *)
  local,            (* per worker: "current" of claimNext, then of Add     *)
  sequence,         (* per worker: the claimed sequence, 0 when none       *)
  result,           (* per worker: response error, then outcome            *)
  nextSequence,     (* the atomic claim counter                            *)
  active,           (* the atomic count of running requests                *)
  maxActive,        (* its recorded maximum                                *)
  (* channels *)
  finalClaim,       (* finalClaimCh: "empty", "pending" or "taken"         *)
  admissionStopped, (* boundary.admissionStopped is closed                 *)
  resultsCh,        (* buffered results                                    *)
  resultsClosed,    (* resultsCh is closed                                 *)
  (* coordinator *)
  coord,            (* the statement the coordinator executes next         *)
  parentDone,       (* parentDone # nil                                    *)
  finalClaimSeen,
  resultsOpen,
  timer,            (* drain timer: "none", "armed" or "taken"             *)
  phaseErr,
  completed,        (* result.Completed                                    *)
  boundary,         (* which callback stopped admission first              *)
  parentReported    (* onParentCancellation has been called                *)

contextVars == <<parentCancelled, phaseCause, requestCause, drainExpired>>
claimVars   == <<sequence, nextSequence>>
workerVars  == <<pc, local, claimVars, result, active, maxActive>>
coordVars   == <<coord, parentDone, finalClaimSeen, resultsOpen, timer,
                 phaseErr, completed, boundary, parentReported>>
vars == <<plan, contextVars, workerVars, finalClaim, admissionStopped, resultsCh,
          resultsClosed, coordVars>>

Measured   == plan # "warmup"
DrainTimed == plan = "timed"

(***************************************************************************)
(* Where a worker stands                                                   *)
(***************************************************************************)

(* the worker owns a claimed sequence whose result it has not sent         *)
Holding(w) == pc[w] \in {"announce", "await", "start", "maximum", "run",
                         "finish", "classify", "send"}

(* the request context exists and has not been released                    *)
Live(w) == pc[w] \in {"maximum", "run", "finish", "classify"}

(* between active.Add(1) and active.Add(-1)                                *)
Counted(w) == pc[w] \in {"maximum", "run", "finish"}

(* warmup has no stop-admission boundary to wait for                       *)
FinalClaimWaived == ~Measured

Init ==
  /\ plan \in Plans
  /\ parentCancelled \in BOOLEAN
  /\ phaseCause = IF parentCancelled THEN "parent" ELSE "none"
  /\ requestCause = [w \in Worker |-> "none"]
  /\ drainExpired = FALSE
  /\ pc = [w \in Worker |-> "check"]
  /\ local = [w \in Worker |-> 0]
  /\ sequence = [w \in Worker |-> 0]
  /\ result = [w \in Worker |-> "nil"]
  /\ nextSequence = 0
  /\ active = 0
  /\ maxActive = 0
  /\ finalClaim = "empty"
  /\ admissionStopped = FALSE
  /\ resultsCh = <<>>
  /\ resultsClosed = FALSE
  /\ coord = "select"
  /\ parentDone = TRUE
  /\ finalClaimSeen = FinalClaimWaived
  /\ resultsOpen = TRUE
  /\ timer = "none"
  /\ phaseErr = "none"
  /\ completed = <<>>
  /\ boundary = "open"
  /\ parentReported = FALSE

(***************************************************************************)
(* Contexts.  The first cause a context is cancelled with is kept.         *)
(***************************************************************************)

FirstCause(old, new) == IF old = "none" THEN new ELSE old

(* cancelPhase(cause), or the parent's cancellation reaching phaseCtx: the *)
(* phase context and every live request context under it                   *)
CancelPhase(cause) ==
  /\ phaseCause' = FirstCause(phaseCause, cause)
  /\ requestCause' = [w \in Worker |-> IF Live(w)
                                       THEN FirstCause(requestCause[w], phaseCause')
                                       ELSE requestCause[w]]

(* Ctrl-C: Done and Err of the parent change before its children learn     *)
CancelParent ==
  /\ ~parentCancelled
  /\ coord # "returned"
  /\ parentCancelled' = TRUE
  /\ UNCHANGED <<plan, phaseCause, requestCause, drainExpired, workerVars,
                 finalClaim, admissionStopped, resultsCh, resultsClosed, coordVars>>

PropagateParent ==
  /\ parentCancelled
  /\ phaseCause = "none"
  /\ CancelPhase("parent")
  /\ UNCHANGED <<plan, parentCancelled, drainExpired, workerVars, finalClaim,
                 admissionStopped, resultsCh, resultsClosed, coordVars>>

(* runtime.timeout of one request elapses                                  *)
RequestDeadline(w) ==
  /\ Live(w)
  /\ requestCause[w] = "none"
  /\ requestCause' = [requestCause EXCEPT ![w] = "deadline"]
  /\ UNCHANGED <<plan, parentCancelled, phaseCause, drainExpired, workerVars, finalClaim,
                 admissionStopped, resultsCh, resultsClosed, coordVars>>

(* the drain timeout, anchored to the time of the final claim, elapses     *)
DrainDeadline ==
  /\ DrainTimed
  /\ finalClaim # "empty"
  /\ ~drainExpired
  /\ drainExpired' = TRUE
  /\ UNCHANGED <<plan, parentCancelled, phaseCause, requestCause, workerVars, finalClaim,
                 admissionStopped, resultsCh, resultsClosed, coordVars>>

(***************************************************************************)
(* Workers.  The steps of one iteration of the worker closure, in order.   *)
(* A local that goes out of scope returns to its initial value.            *)
(***************************************************************************)

GoTo(w, label) == pc' = [pc EXCEPT ![w] = label]

(* claimNext: a cancelled phase hands out no sequence                      *)
CheckPhase(w) ==
  /\ pc[w] = "check"
  /\ GoTo(w, IF phaseCause = "none" THEN "load" ELSE "done")
  /\ UNCHANGED <<plan, contextVars, local, claimVars, result, active, maxActive, finalClaim,
                 admissionStopped, resultsCh, resultsClosed, coordVars>>

(* Wrong: one claim too many                                              *)
ExhaustedLater(current) == current > Requests

Exhausted(current) == current >= Requests

LoadSequence(w) ==
  /\ pc[w] = "load"
  /\ local' = [local EXCEPT ![w] = nextSequence]
  /\ GoTo(w, IF Exhausted(nextSequence) THEN "done" ELSE "swap")
  /\ UNCHANGED <<plan, contextVars, claimVars, result, active, maxActive, finalClaim,
                 admissionStopped, resultsCh, resultsClosed, coordVars>>

(* Wrong: a plain store in place of the compare-and-swap                   *)
SwapAlways(w) == TRUE

SwapSucceeds(w) == nextSequence = local[w]

(* compare-and-swap of the counter; the claim of sequence N is announced   *)
ClaimSequence(w) ==
  /\ pc[w] = "swap"
  /\ SwapSucceeds(w)
  /\ nextSequence' = local[w] + 1
  /\ sequence' = [sequence EXCEPT ![w] = nextSequence']
  /\ GoTo(w, IF Measured /\ nextSequence' = Requests THEN "announce" ELSE "start")
  /\ UNCHANGED <<plan, contextVars, local, result, active, maxActive, finalClaim,
                 admissionStopped, resultsCh, resultsClosed, coordVars>>

(* the counter only grows, so a lost swap stays lost until the phase is    *)
(* checked again: one step                                                 *)
LoseSwap(w) ==
  /\ pc[w] = "swap"
  /\ ~SwapSucceeds(w)
  /\ GoTo(w, IF phaseCause = "none" THEN "load" ELSE "done")
  /\ UNCHANGED <<plan, contextVars, local, claimVars, result, active, maxActive, finalClaim,
                 admissionStopped, resultsCh, resultsClosed, coordVars>>

AnnounceFinalClaim(w) ==
  /\ pc[w] = "announce"
  /\ finalClaim' = "pending"
  /\ GoTo(w, "await")
  /\ UNCHANGED <<plan, contextVars, local, claimVars, result, active, maxActive,
                 admissionStopped, resultsCh, resultsClosed, coordVars>>

(* Wrong: the final claimer does not wait for the coordinator              *)
StartWithoutWaiting(w) ==
  /\ pc[w] = "await"
  /\ GoTo(w, "start")
  /\ UNCHANGED <<plan, contextVars, local, claimVars, result, active, maxActive, finalClaim,
                 admissionStopped, resultsCh, resultsClosed, coordVars>>

AwaitAdmissionStopped(w) ==
  /\ pc[w] = "await"
  /\ admissionStopped
  /\ GoTo(w, "start")
  /\ UNCHANGED <<plan, contextVars, local, claimVars, result, active, maxActive, finalClaim,
                 admissionStopped, resultsCh, resultsClosed, coordVars>>

(* Wrong: the request context is not a child of the phase context          *)
DetachedCause == "none"

InheritedCause == phaseCause

(* WithTimeout inherits the cause of a phase that is already cancelled     *)
StartRequest(w) ==
  /\ pc[w] = "start"
  /\ requestCause' = [requestCause EXCEPT ![w] = InheritedCause]
  /\ active' = active + 1
  /\ local' = [local EXCEPT ![w] = active']
  /\ GoTo(w, "maximum")
  /\ UNCHANGED <<plan, parentCancelled, phaseCause, drainExpired, claimVars, result, maxActive,
                 finalClaim, admissionStopped, resultsCh, resultsClosed, coordVars>>

UpdateMaximum(w) ==
  /\ pc[w] = "maximum"
  /\ maxActive' = IF local[w] > maxActive THEN local[w] ELSE maxActive
  /\ local' = [local EXCEPT ![w] = 0]
  /\ GoTo(w, "run")
  /\ UNCHANGED <<plan, contextVars, claimVars, result, active, finalClaim,
                 admissionStopped, resultsCh, resultsClosed, coordVars>>

(* Runner.RunRequest returns.  The server decides how, and a response that *)
(* was complete is a success even when the context is already cancelled.   *)
RunRequest(w) ==
  /\ pc[w] = "run"
  /\ \E err \in ResponseErr : result' = [result EXCEPT ![w] = err]
  /\ GoTo(w, "finish")
  /\ UNCHANGED <<plan, contextVars, local, claimVars, active, maxActive, finalClaim,
                 admissionStopped, resultsCh, resultsClosed, coordVars>>

FinishRequest(w) ==
  /\ pc[w] = "finish"
  /\ active' = active - 1
  /\ GoTo(w, "classify")
  /\ UNCHANGED <<plan, contextVars, local, claimVars, result, maxActive, finalClaim,
                 admissionStopped, resultsCh, resultsClosed, coordVars>>

(* classifyOutcome(parent, request, result)                                *)
OutcomeOf(err, cause, parent) ==
  CASE err = "nil"                             -> "succeeded"
    [] err # "nil" /\ cause = "drain"          -> "drain_timeout"
    [] err # "nil" /\ cause # "drain" /\ parent -> "parent_cancelled"
    [] err # "nil" /\ cause # "drain" /\ ~parent ->
         IF "deadline" \in {cause, err} THEN "request_timeout" ELSE "request_error"

ClassifyRequest(w) ==
  /\ pc[w] = "classify"
  /\ result' = [result EXCEPT ![w] =
                  OutcomeOf(result[w], requestCause[w], parentCancelled)]
  /\ requestCause' = [requestCause EXCEPT ![w] = "none"]
  /\ GoTo(w, "send")
  /\ UNCHANGED <<plan, parentCancelled, phaseCause, drainExpired, local, claimVars, active, maxActive, finalClaim,
                 admissionStopped, resultsCh, resultsClosed, coordVars>>

SendResult(w) ==
  /\ pc[w] = "send"
  /\ Len(resultsCh) < WorkerCount
  /\ resultsCh' = Append(resultsCh, [sequence |-> sequence[w], outcome |-> result[w]])
  /\ sequence' = [sequence EXCEPT ![w] = 0]
  /\ result' = [result EXCEPT ![w] = "nil"]
  /\ GoTo(w, "check")
  /\ UNCHANGED <<plan, contextVars, local, nextSequence, active, maxActive, finalClaim,
                 admissionStopped, resultsClosed, coordVars>>

(* the goroutine that waits for the workers and closes the channel         *)
CloseResults ==
  /\ \A w \in Worker : pc[w] = "done"
  /\ ~resultsClosed
  /\ resultsClosed' = TRUE
  /\ UNCHANGED <<plan, contextVars, workerVars, finalClaim, admissionStopped, resultsCh, coordVars>>

(***************************************************************************)
(* Coordinator.  One action per case of its select; the cases that go on   *)
(* to read the atomic "active" and then cancel are split at that point,    *)
(* where a worker can run in between.                                      *)
(***************************************************************************)

(* Wrong: the loop ends when either of its two conditions does             *)
SelectingBoth == coord = "select" /\ resultsOpen /\ ~finalClaimSeen

Selecting == coord = "select" /\ (resultsOpen \/ ~finalClaimSeen)

(* enterStopAndDrain: only the first caller records the boundary           *)
StopAdmission(reason) == boundary' = IF boundary = "open" THEN reason ELSE boundary

(* Wrong: a boundary that comes after the cancellation is only discarded   *)
ForgetLateClaim ==
  /\ Selecting
  /\ finalClaim = "pending"
  /\ finalClaimSeen
  /\ finalClaim' = "taken"
  /\ UNCHANGED <<plan, contextVars, admissionStopped, workerVars, resultsCh, resultsClosed, coordVars>>

(* the parent's cancellation was served first: only release the claimer    *)
ReleaseLateClaim ==
  /\ Selecting
  /\ finalClaim = "pending"
  /\ finalClaimSeen
  /\ finalClaim' = "taken"
  /\ admissionStopped' = TRUE
  /\ UNCHANGED <<plan, contextVars, workerVars, resultsCh, resultsClosed, coordVars>>

ReceiveFinalClaim ==
  /\ Selecting
  /\ finalClaim = "pending"
  /\ ~finalClaimSeen
  /\ finalClaim' = "taken"
  /\ finalClaimSeen' = TRUE
  /\ StopAdmission("limit")
  /\ coord' = "anchor"
  /\ UNCHANGED <<plan, contextVars, workerVars, admissionStopped, resultsCh, resultsClosed,
                 parentDone, resultsOpen, timer, phaseErr, completed, parentReported>>

(* drainTimeRemaining: arm the timer, or act at once when it is overdue    *)
AnchorDrain ==
  /\ coord = "anchor"
  /\ timer' = IF DrainTimed /\ ~drainExpired THEN "armed" ELSE timer
  /\ IF DrainTimed /\ drainExpired /\ active > 0
     THEN coord' = "expire" /\ UNCHANGED admissionStopped
     ELSE coord' = "select" /\ admissionStopped' = TRUE
  /\ UNCHANGED <<plan, contextVars, workerVars, finalClaim, resultsCh, resultsClosed, parentDone,
                 finalClaimSeen, resultsOpen, phaseErr, completed, boundary, parentReported>>

ReceiveDrainTimer ==
  /\ Selecting
  /\ timer = "armed"
  /\ drainExpired
  /\ timer' = "taken"
  /\ coord' = IF active > 0 THEN "expire" ELSE "select"
  /\ UNCHANGED <<plan, contextVars, workerVars, finalClaim, admissionStopped, resultsCh,
                 resultsClosed, parentDone, finalClaimSeen, resultsOpen, phaseErr,
                 completed, boundary, parentReported>>

(* cancelPhase(ErrDrainTimeout); on the overdue path the claimer is        *)
(* released afterwards, on the timer path it already was                   *)
ExpireDrain ==
  /\ coord = "expire"
  /\ CancelPhase("drain")
  /\ phaseErr' = "drain"
  /\ admissionStopped' = TRUE
  /\ coord' = "select"
  /\ UNCHANGED <<plan, parentCancelled, drainExpired, workerVars, finalClaim, resultsCh,
                 resultsClosed, parentDone, finalClaimSeen, resultsOpen, timer, completed,
                 boundary, parentReported>>

(* Wrong: the parent's error replaces the drain timeout                    *)
ReportParentLast ==
  /\ parentReported' = TRUE
  /\ StopAdmission("parent")
  /\ phaseErr' = "parent"

(* onParentCancellation and, when nothing failed before, phaseErr          *)
ReportParent ==
  /\ parentReported' = TRUE
  /\ StopAdmission("parent")
  /\ phaseErr' = FirstCause(phaseErr, "parent")

ReceiveParentDone ==
  /\ Selecting
  /\ parentDone
  /\ parentCancelled
  /\ parentDone' = FALSE
  /\ ReportParent
  /\ finalClaimSeen' = TRUE
  /\ UNCHANGED <<plan, contextVars, workerVars, finalClaim, admissionStopped, resultsCh,
                 resultsClosed, coord, resultsOpen, timer, completed>>

ReceiveResult ==
  /\ Selecting
  /\ resultsOpen
  /\ resultsCh # <<>>
  /\ completed' = Append(completed, Head(resultsCh))
  /\ resultsCh' = Tail(resultsCh)
  /\ UNCHANGED <<plan, contextVars, workerVars, finalClaim, admissionStopped, resultsClosed, coord,
                 parentDone, finalClaimSeen, resultsOpen, timer, phaseErr, boundary,
                 parentReported>>

ReceiveClose ==
  /\ Selecting
  /\ resultsOpen
  /\ resultsCh = <<>>
  /\ resultsClosed
  /\ resultsOpen' = FALSE
  /\ UNCHANGED <<plan, contextVars, workerVars, finalClaim, admissionStopped, resultsCh,
                 resultsClosed, coord, parentDone, finalClaimSeen, timer, phaseErr, completed,
                 boundary, parentReported>>

(* Wrong: the parent is not looked at again                                *)
CancellationIgnored == FALSE

CancellationUnreported == parentCancelled /\ parentDone

(* the loop is over: one last look at the parent, then the phase returns   *)
Return ==
  /\ coord = "select"
  /\ ~Selecting
  /\ coord' = "returned"
  /\ IF CancellationUnreported
     THEN ReportParent
     ELSE UNCHANGED <<parentReported, boundary, phaseErr>>
  /\ UNCHANGED <<plan, contextVars, workerVars, finalClaim, admissionStopped, resultsCh,
                 resultsClosed, parentDone, finalClaimSeen, resultsOpen, timer, completed>>

Terminated ==
  /\ coord = "returned"
  /\ UNCHANGED vars

Returned == coord = "returned"

Outcomes == {completed[i].outcome : i \in DOMAIN completed}

(* phaseStatus(outcomes, phaseErr)                                         *)
PhaseStatus ==
  IF phaseErr = "parent" THEN "cancelled"
  ELSE IF phaseErr = "none" /\ Outcomes \subseteq {"succeeded"} THEN "completed"
  ELSE "failed"

WorkerStep(w) ==
  \/ CheckPhase(w)     \/ LoadSequence(w)       \/ ClaimSequence(w)
  \/ LoseSwap(w)       \/ AnnounceFinalClaim(w) \/ AwaitAdmissionStopped(w)
  \/ StartRequest(w)   \/ UpdateMaximum(w)      \/ FinishRequest(w)
  \/ ClassifyRequest(w) \/ SendResult(w)

CoordinatorStep ==
  \/ ReleaseLateClaim  \/ ReceiveFinalClaim \/ AnchorDrain \/ ReceiveDrainTimer
  \/ ExpireDrain       \/ ReceiveParentDone \/ ReceiveResult \/ ReceiveClose
  \/ Return

Next ==
  \/ \E w \in Worker : WorkerStep(w) \/ RunRequest(w) \/ RequestDeadline(w)
  \/ CloseResults
  \/ CoordinatorStep
  \/ CancelParent \/ PropagateParent \/ DrainDeadline
  \/ Terminated

Spec == Init /\ [][Next]_vars

(***************************************************************************)
(* The Go scheduler runs every goroutine that can run, timers fire, and a  *)
(* cancellation reaches child contexts.  Nothing makes the server answer:  *)
(* RunRequest is only bound to return once its own context is done, which  *)
(* the HTTP client guarantees.  Ctrl-C is never bound to come.             *)
(***************************************************************************)
Fairness ==
  /\ \A w \in Worker : /\ WF_vars(WorkerStep(w))
                       /\ WF_vars(RequestDeadline(w))
                       /\ WF_vars(requestCause[w] # "none" /\ RunRequest(w))
  /\ WF_vars(CloseResults)
  /\ WF_vars(CoordinatorStep)
  /\ WF_vars(PropagateParent)
  /\ WF_vars(DrainDeadline)

FairSpec == Spec /\ Fairness

(***************************************************************************)
(* Properties                                                              *)
(***************************************************************************)

(* Results on their way or already appended, in the order they were sent   *)
Delivered == completed \o resultsCh

Result == [sequence : 1 .. Requests, outcome : Outcome]

(* The range of every variable: in particular the claim counter never      *)
(* passes N, however the workers' loads and swaps interleave, and the      *)
(* channel never holds more than its capacity.                             *)
TypeOK ==
  /\ plan \in {"warmup", "measured", "timed"}
  /\ parentCancelled \in BOOLEAN
  /\ phaseCause \in PhaseCause
  /\ requestCause \in [Worker -> RequestCause]
  /\ drainExpired \in BOOLEAN
  /\ pc \in [Worker -> WorkerPC]
  /\ local \in [Worker -> 0 .. Requests]
  /\ sequence \in [Worker -> 0 .. Requests]
  /\ result \in [Worker -> ResponseErr \cup Outcome]
  /\ nextSequence \in 0 .. Requests
  /\ active \in 0 .. WorkerCount
  /\ maxActive \in 0 .. WorkerCount
  /\ finalClaim \in {"empty", "pending", "taken"}
  /\ admissionStopped \in BOOLEAN
  /\ resultsCh \in Seq(Result) /\ Len(resultsCh) <= WorkerCount
  /\ resultsClosed \in BOOLEAN
  /\ coord \in {"select", "anchor", "expire", "returned"}
  /\ parentDone \in BOOLEAN
  /\ finalClaimSeen \in BOOLEAN
  /\ resultsOpen \in BOOLEAN
  /\ timer \in {"none", "armed", "taken"}
  /\ phaseErr \in PhaseCause
  /\ completed \in Seq(Result)
  /\ boundary \in {"open", "limit", "parent"}
  /\ parentReported \in BOOLEAN

(* Every claimed sequence is in exactly one place: with the one worker     *)
(* that claimed it, or delivered once.  No claim is lost on a cancelled or *)
(* timed-out path, and none is run twice.                                  *)
ClaimsConserved ==
  /\ \A w \in Worker : Holding(w) => /\ sequence[w] \in 1 .. nextSequence
                                     /\ \A i \in 1 .. Len(Delivered) :
                                          Delivered[i].sequence # sequence[w]
  /\ \A w, v \in Worker : Holding(w) /\ Holding(v) /\ sequence[w] = sequence[v] => w = v
  /\ \A i, j \in 1 .. Len(Delivered) :
       Delivered[i].sequence = Delivered[j].sequence => i = j
  /\ \A s \in 1 .. nextSequence :
       \/ \E w \in Worker : Holding(w) /\ sequence[w] = s
       \/ \E i \in 1 .. Len(Delivered) : Delivered[i].sequence = s

(* "active" counts the requests between its two updates, so the recorded   *)
(* maximum never exceeds the worker count the artifact validator accepts.  *)
ActiveIsExact == active = Cardinality({w \in Worker : Counted(w)})

(* Measured request N does not start before the stop-admission boundary    *)
(* has been recorded (the handshake over finalClaimCh).                    *)
FinalRequestAfterBoundary ==
  Measured => \A w \in Worker :
    Live(w) /\ sequence[w] = Requests => boundary # "open" /\ finalClaimSeen

(* A phase that returned is quiet: no worker left, nothing in flight, the  *)
(* channel drained, one result for each claim and none without one.        *)
DrainedOnReturn ==
  Returned => /\ \A w \in Worker : pc[w] = "done"
              /\ active = 0
              /\ resultsCh = <<>>
              /\ {completed[i].sequence : i \in 1 .. Len(completed)} = 1 .. nextSequence

(* A phase that returns no error attempted every request, which is what    *)
(* classifyRun and the artifact validator expect of it: a worker that quit *)
(* because of a cancellation always leaves an error behind.                *)
CleanReturnIsComplete ==
  Returned /\ phaseErr = "none" => nextSequence = Requests /\ PhaseStatus # "cancelled"

(* No request outcome contradicts what the phase reports: a cancelled      *)
(* request implies that the parent's cancellation was reported, a drained  *)
(* one that the phase failed with the drain timeout.                       *)
CancellationReported ==
  Returned => /\ "parent_cancelled" \in Outcomes => parentReported /\ phaseErr # "none"
              /\ "drain_timeout" \in Outcomes => phaseErr = "drain"

(* The phase and each request keep the first cause they were cancelled     *)
(* with, so an outcome cannot change its name while the request unwinds.   *)
CauseKept ==
  [][ /\ phaseCause # "none" => phaseCause' = phaseCause
      /\ \A w \in Worker : Live(w) /\ Live(w)' /\ requestCause[w] # "none"
                             => requestCause'[w] = requestCause[w] ]_vars

(* A request that is already in flight when the phase is cancelled learns  *)
(* of it: no live request under a cancelled phase has a running context.   *)
CancellationReachesRequests ==
  phaseCause # "none" => \A w \in Worker : Live(w) => requestCause[w] # "none"

(* The phase returns, whatever the server does and whenever Ctrl-C comes.  *)
PhaseReturns == <>Returned

(***************************************************************************)
(* Refinement of the contract.  A request is admitted by the claim and     *)
(* ends when the coordinator appends its result.                           *)
(***************************************************************************)

StatusOf(s) ==
  IF s > nextSequence THEN "pending"
  ELSE IF \E i \in DOMAIN completed : completed[i].sequence = s
       THEN completed[CHOOSE i \in DOMAIN completed : completed[i].sequence = s].outcome
       ELSE "admitted"

Contract == INSTANCE PhaseContract WITH
  kind      <- [measured |-> Measured, openLoop |-> FALSE],
  status    <- [s \in 1 .. Requests |-> StatusOf(s)],
  cancelled <- parentCancelled,
  reported  <- parentReported,
  verdict   <- IF Returned THEN phaseErr ELSE "running"

(* Every step of the workers and the coordinator is a step the lifecycle   *)
(* may rely on, or invisible to it.                                        *)
ImplementsContract == Contract!Spec

(***************************************************************************)
(* What README.md says of drain and cancellation,                          *)
(* and the code does not do (see the violation runs).                      *)
(***************************************************************************)

(* README.md:464: "If drain expires, outstanding request contexts are      *)
(* canceled": once the drain timer has been served, no claimed request     *)
(* that has not finished is left with a running context.                   *)
DrainExpiryCancelsOutstanding ==
  timer = "taken" /\ coord = "select" =>
    \A w \in Worker : pc[w] \in {"start", "maximum", "run"} => phaseCause # "none"

=============================================================================
