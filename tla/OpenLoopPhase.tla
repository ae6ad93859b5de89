---------------------------- MODULE OpenLoopPhase ----------------------------
(***************************************************************************)
(* One open-loop request phase: LifecycleCoordinator.runOpenLoopPhase in   *)
(* src/internal/benchmark/lifecycle.go.                                    *)
(*                                                                         *)
(* A scheduler walks an absolute arrival schedule.  It never queues: an    *)
(* arrival finds a semaphore slot and gets a goroutine, or is dropped.  A  *)
(* collector goroutine takes the results, a waiter closes the channel when *)
(* the last request is done, and the scheduler goes on to stop admission,  *)
(* drain and return.                                                       *)
(*                                                                         *)
(* "now" is c.now() relative to plan.startedAt, in ticks; it may advance   *)
(* between any two steps, so the scheduler can be arbitrarily late.        *)
(***************************************************************************)
EXTENDS Integers, Sequences, FiniteSets

CONSTANTS
  Requests,      (* len(plan.schedule)                                     *)
  Rate,          (* arrivals per tick                                      *)
  Duration,      (* the measured deadline                                  *)
  DrainTimeout,  (* plan.drainTimeout                                      *)
  MaxInFlight,   (* capacity of the semaphore and of resultsCh             *)
  Phases,        (* of RequestPhase: "warmup", "measured"                  *)
  Horizon        (* bound on "now"                                         *)

(* a measured schedule holds exactly the arrivals before the deadline      *)
ASSUME OpenLoopAssumption ==
  /\ {Requests, Rate, Duration, DrainTimeout, MaxInFlight} \subseteq Nat \ {0}
  /\ Phases \subseteq {"warmup", "measured"}
  /\ "measured" \in Phases => Requests = Rate * Duration
  /\ Horizon \in Nat /\ Duration + DrainTimeout <= Horizon

Arrival == 1 .. Requests

(* ArrivalOffsets: arrival s is due s - 1 intervals after the start        *)
Offset(s) == (s - 1) \div Rate

DrainDeadline == Duration + DrainTimeout

PhaseCause   == {"none", "parent", "drain"}
RequestCause == PhaseCause \cup {"deadline"}
ResponseErr  == {"nil", "error", "deadline"}
Outcome      == {"succeeded", "request_error", "request_timeout",
                 "parent_cancelled", "drain_timeout"}
Disposition  == {"started", "client_limited", "scheduler_limited"}

VARIABLES
  phase,            (* plan.phase, fixed                                   *)
  now,
  (* contexts *)
  parentCancelled,  (* ctx.Err() # nil                                     *)
  phaseCause,       (* context.Cause(phaseCtx)                             *)
  requestCause,     (* per arrival: context.Cause(requestCtx)              *)
  (* scheduler *)
  sched,            (* the statement the scheduler executes next           *)
  processed,        (* arrivals processed, and the loop's index            *)
  disposition,      (* per arrival: its ArrivalRecord's, or "pending"      *)
  maxActive,
  phaseErr,
  boundary,         (* which callback stopped admission first              *)
  parentReported,   (* onParentCancellation has been called                *)
  (* request goroutines *)
  pc,               (* per arrival: the statement its goroutine runs next  *)
  result,           (* per arrival: response error, then outcome           *)
  semaphore,        (* occupied slots                                      *)
  active,           (* the atomic in-flight count                          *)
  (* collection *)
  resultsCh,        (* buffered results, by arrival                        *)
  resultsClosed,    (* resultsCh and requestsDone are closed               *)
  collected         (* the arrivals the collector has taken                *)

contextVars == <<parentCancelled, phaseCause, requestCause>>
schedVars   == <<sched, processed, disposition, maxActive, phaseErr, boundary,
                 parentReported>>
requestVars == <<pc, result, semaphore, active>>
resultVars  == <<resultsCh, resultsClosed, collected>>
vars == <<phase, now, contextVars, schedVars, requestVars, resultVars>>

Measured == phase = "measured"

(* the request context exists and has not been released                    *)
Live(s) == pc[s] \in {"run", "classify"}

(* between taking a semaphore slot and releasing it                        *)
InFlight(s) == pc[s] \in {"run", "classify", "uncount", "release"}

Init ==
  /\ phase \in Phases
  /\ now = 0
  /\ parentCancelled \in BOOLEAN
  /\ phaseCause = IF parentCancelled THEN "parent" ELSE "none"
  /\ requestCause = [s \in Arrival |-> "none"]
  /\ sched = "wait"
  /\ processed = 0
  /\ disposition = [s \in Arrival |-> "pending"]
  /\ maxActive = 0
  /\ phaseErr = "none"
  /\ boundary = "open"
  /\ parentReported = FALSE
  /\ pc = [s \in Arrival |-> "idle"]
  /\ result = [s \in Arrival |-> "nil"]
  /\ semaphore = 0
  /\ active = 0
  /\ resultsCh = <<>>
  /\ resultsClosed = FALSE
  /\ collected = {}

Tick ==
  /\ now < Horizon
  /\ now' = now + 1
  /\ UNCHANGED <<phase, contextVars, schedVars, requestVars, resultVars>>

(***************************************************************************)
(* Contexts, as in ClosedLoopPhase                                         *)
(***************************************************************************)

FirstCause(old, new) == IF old = "none" THEN new ELSE old

CancelPhase(cause) ==
  /\ phaseCause' = FirstCause(phaseCause, cause)
  /\ requestCause' = [s \in Arrival |-> IF Live(s)
                                        THEN FirstCause(requestCause[s], phaseCause')
                                        ELSE requestCause[s]]

CancelParent ==
  /\ ~parentCancelled
  /\ sched # "returned"
  /\ parentCancelled' = TRUE
  /\ UNCHANGED <<phase, now, phaseCause, requestCause, schedVars, requestVars, resultVars>>

PropagateParent ==
  /\ parentCancelled
  /\ phaseCause = "none"
  /\ CancelPhase("parent")
  /\ UNCHANGED <<phase, now, parentCancelled, schedVars, requestVars, resultVars>>

RequestDeadline(s) ==
  /\ Live(s)
  /\ requestCause[s] = "none"
  /\ requestCause' = [requestCause EXCEPT ![s] = "deadline"]
  /\ UNCHANGED <<phase, now, parentCancelled, phaseCause, schedVars, requestVars, resultVars>>

(***************************************************************************)
(* Scheduler                                                               *)
(***************************************************************************)

Goto(label) == sched' = label

AfterArrival == IF processed' < Requests THEN "wait" ELSE "stopped"

(* waitUntil(ctx, target) returns true ...                                 *)
ArrivalDue ==
  /\ sched = "wait"
  /\ now >= Offset(processed + 1)
  /\ ~parentCancelled
  /\ Goto("admit")
  /\ UNCHANGED <<phase, now, contextVars, processed, disposition, maxActive, phaseErr, boundary,
                 parentReported, requestVars, resultVars>>

(* ... or false, which ends the schedule                                   *)
ScheduleCancelled ==
  /\ sched = "wait"
  /\ parentCancelled
  /\ Goto("stopped")
  /\ UNCHANGED <<phase, now, contextVars, processed, disposition, maxActive, phaseErr, boundary,
                 parentReported, requestVars, resultVars>>

Late == Measured /\ now >= Duration

SlotFree == semaphore < MaxInFlight

(* startRequest: a free slot starts a goroutine with its own context       *)
StartArrival ==
  LET s == processed + 1 IN
  /\ sched = "admit"
  /\ ~Late
  /\ SlotFree
  /\ semaphore' = semaphore + 1
  /\ active' = active + 1
  /\ maxActive' = IF active' > maxActive THEN active' ELSE maxActive
  /\ disposition' = [disposition EXCEPT ![s] = "started"]
  /\ requestCause' = [requestCause EXCEPT ![s] = phaseCause]
  /\ pc' = [pc EXCEPT ![s] = "run"]
  /\ processed' = s
  /\ Goto(AfterArrival)
  /\ UNCHANGED <<phase, now, parentCancelled, phaseCause, phaseErr, boundary, parentReported,
                 result, resultVars>>

(* startRequest: the semaphore is full, the arrival is dropped             *)
DropArrival ==
  LET s == processed + 1 IN
  /\ sched = "admit"
  /\ ~Late
  /\ ~SlotFree
  /\ disposition' = [disposition EXCEPT ![s] = "client_limited"]
  /\ processed' = s
  /\ Goto(AfterArrival)
  /\ UNCHANGED <<phase, now, contextVars, maxActive, phaseErr, boundary, parentReported,
                 requestVars, resultVars>>

(* Wrong: the arrival that found the deadline gone is not recorded         *)
RemainingButCurrent == {s \in Arrival : s > processed + 1}

Remaining == {s \in Arrival : s > processed}

(* the scheduler woke after the deadline: the rest of the schedule is lost *)
MissDeadline ==
  /\ sched = "admit"
  /\ Late
  /\ disposition' = [s \in Arrival |-> IF s \in Remaining THEN "scheduler_limited"
                                       ELSE disposition[s]]
  /\ processed' = Requests
  /\ Goto("stopped")
  /\ UNCHANGED <<phase, now, contextVars, maxActive, phaseErr, boundary, parentReported,
                 requestVars, resultVars>>

StopAdmission(reason) == boundary' = IF boundary = "open" THEN reason ELSE boundary

(* Wrong: the error is kept but the lifecycle is not told                  *)
ReportParentToNobody ==
  /\ phaseErr' = FirstCause(phaseErr, "parent")
  /\ UNCHANGED <<parentReported, boundary>>

ReportParent ==
  /\ parentReported' = TRUE
  /\ StopAdmission("parent")
  /\ phaseErr' = FirstCause(phaseErr, "parent")

(* after the schedule: a cancelled parent ends the phase, a measured phase *)
(* waits for its deadline, warmup goes straight to its drain               *)
ScheduleStopped ==
  /\ sched = "stopped"
  /\ IF parentCancelled
     THEN ReportParent /\ Goto("drain")
     ELSE /\ Goto(IF Measured THEN "deadline" ELSE "drain")
          /\ UNCHANGED <<parentReported, boundary, phaseErr>>
  /\ UNCHANGED <<phase, now, contextVars, processed, disposition, maxActive, requestVars, resultVars>>

(* waitUntil(ctx, deadline)                                                *)
ReachDeadline ==
  /\ sched = "deadline"
  /\ Goto("drain")
  /\ \/ /\ parentCancelled
        /\ ReportParent
     \/ /\ now >= Duration
        /\ ~parentCancelled
        /\ StopAdmission("limit")
        /\ UNCHANGED <<parentReported, phaseErr>>
  /\ UNCHANGED <<phase, now, contextVars, processed, disposition, maxActive, requestVars, resultVars>>

(* Wrong: the last request in flight is not worth a timeout                *)
OutstandingMany == active > 1

Outstanding == active > 0

(* drainTimeRemaining: only a measured phase without an error is timed     *)
BeginDrain ==
  /\ sched = "drain"
  /\ Goto(IF ~Measured \/ phaseErr # "none" THEN "await"
          ELSE IF now < DrainDeadline THEN "draining"
          ELSE IF Outstanding THEN "expire" ELSE "await")
  /\ UNCHANGED <<phase, now, contextVars, processed, disposition, maxActive, phaseErr, boundary,
                 parentReported, requestVars, resultVars>>

(* the three cases of the drain select                                     *)
DrainedInTime ==
  /\ sched = "draining"
  /\ resultsClosed
  /\ Goto("await")
  /\ UNCHANGED <<phase, now, contextVars, processed, disposition, maxActive, phaseErr, boundary,
                 parentReported, requestVars, resultVars>>

DrainTimer ==
  /\ sched = "draining"
  /\ now >= DrainDeadline
  /\ Goto(IF Outstanding THEN "expire" ELSE "await")
  /\ UNCHANGED <<phase, now, contextVars, processed, disposition, maxActive, phaseErr, boundary,
                 parentReported, requestVars, resultVars>>

DrainCancelled ==
  /\ sched = "draining"
  /\ parentCancelled
  /\ ReportParent
  /\ Goto("await")
  /\ UNCHANGED <<phase, now, contextVars, processed, disposition, maxActive, requestVars, resultVars>>

(* cancelPhase(ErrDrainTimeout)                                            *)
ExpireDrain ==
  /\ sched = "expire"
  /\ CancelPhase("drain")
  /\ phaseErr' = "drain"
  /\ Goto("await")
  /\ UNCHANGED <<phase, now, parentCancelled, processed, disposition, maxActive, boundary,
                 parentReported, requestVars, resultVars>>

AllCollected == resultsClosed /\ resultsCh = <<>>

(* requestsDone, then the collection                                       *)
Return ==
  /\ sched = "await"
  /\ AllCollected
  /\ Goto("returned")
  /\ UNCHANGED <<phase, now, contextVars, processed, disposition, maxActive, phaseErr, boundary,
                 parentReported, requestVars, resultVars>>

(***************************************************************************)
(* Request goroutines                                                      *)
(***************************************************************************)

RunRequest(s) ==
  /\ pc[s] = "run"
  /\ \E err \in ResponseErr : result' = [result EXCEPT ![s] = err]
  /\ pc' = [pc EXCEPT ![s] = "classify"]
  /\ UNCHANGED <<phase, now, contextVars, schedVars, semaphore, active, resultVars>>

(* classifyOutcome(parent, request, result)                                *)
OutcomeOf(err, cause) ==
  IF err = "nil" THEN "succeeded"
  ELSE IF cause = "drain" THEN "drain_timeout"
  ELSE IF parentCancelled THEN "parent_cancelled"
  ELSE IF "deadline" \in {cause, err} THEN "request_timeout"
  ELSE "request_error"

ClassifyRequest(s) ==
  /\ pc[s] = "classify"
  /\ result' = [result EXCEPT ![s] = OutcomeOf(result[s], requestCause[s])]
  /\ requestCause' = [requestCause EXCEPT ![s] = "none"]
  /\ pc' = [pc EXCEPT ![s] = "uncount"]
  /\ UNCHANGED <<phase, now, parentCancelled, phaseCause, schedVars, semaphore, active, resultVars>>

(* Wrong: the slot is released twice, the request stays counted            *)
UncountRequestWrongly(s) ==
  /\ pc[s] = "uncount"
  /\ semaphore' = semaphore - 1
  /\ pc' = [pc EXCEPT ![s] = "release"]
  /\ UNCHANGED <<phase, now, contextVars, schedVars, result, active, resultVars>>

UncountRequest(s) ==
  /\ pc[s] = "uncount"
  /\ active' = active - 1
  /\ pc' = [pc EXCEPT ![s] = "release"]
  /\ UNCHANGED <<phase, now, contextVars, schedVars, result, semaphore, resultVars>>

ReleaseSlot(s) ==
  /\ pc[s] = "release"
  /\ semaphore' = semaphore - 1
  /\ pc' = [pc EXCEPT ![s] = "send"]
  /\ UNCHANGED <<phase, now, contextVars, schedVars, result, active, resultVars>>

SendResult(s) ==
  /\ pc[s] = "send"
  /\ Len(resultsCh) < MaxInFlight
  /\ resultsCh' = Append(resultsCh, s)
  /\ pc' = [pc EXCEPT ![s] = "done"]
  /\ UNCHANGED <<phase, now, contextVars, schedVars, result, semaphore, active, resultsClosed,
                 collected>>

(* the collector goroutine; the order of Completed is left out             *)
CollectResult ==
  /\ resultsCh # <<>>
  /\ collected' = collected \cup {Head(resultsCh)}
  /\ resultsCh' = Tail(resultsCh)
  /\ UNCHANGED <<phase, now, contextVars, schedVars, requestVars, resultsClosed>>

(* Wrong: dropped arrivals, too, are waited for                            *)
AllRequestsDone == \A s \in Arrival : pc[s] = "done"

RequestsDone == \A s \in Arrival : pc[s] \in {"idle", "done"}

(* the waiter goroutine, started once the schedule is over                 *)
CloseResults ==
  /\ sched \in {"drain", "draining", "expire", "await"}
  /\ RequestsDone
  /\ ~resultsClosed
  /\ resultsClosed' = TRUE
  /\ UNCHANGED <<phase, now, contextVars, schedVars, requestVars, resultsCh, collected>>

Terminated ==
  /\ sched = "returned"
  /\ UNCHANGED vars

Returned == sched = "returned"

Outcomes == {result[s] : s \in collected}

With(d) == {s \in Arrival : disposition[s] = d}

(* ArrivalCounts of the phase result                                       *)
ArrivalCounts ==
  [planned          |-> Requests,
   started          |-> Cardinality(collected),
   client_limited   |-> Cardinality(With("client_limited")),
   scheduler_limited |-> Cardinality(With("scheduler_limited")),
   unprocessed      |-> Requests - processed,
   max_in_flight    |-> maxActive]

SchedulerStep ==
  \/ ArrivalDue      \/ ScheduleCancelled \/ StartArrival \/ DropArrival
  \/ MissDeadline    \/ ScheduleStopped   \/ ReachDeadline \/ BeginDrain
  \/ DrainedInTime   \/ DrainTimer        \/ DrainCancelled \/ ExpireDrain
  \/ Return

RequestStep(s) ==
  ClassifyRequest(s) \/ UncountRequest(s) \/ ReleaseSlot(s) \/ SendResult(s)

Next ==
  \/ Tick
  \/ CancelParent \/ PropagateParent
  \/ SchedulerStep
  \/ \E s \in Arrival : RequestStep(s) \/ RunRequest(s) \/ RequestDeadline(s)
  \/ CollectResult
  \/ CloseResults
  \/ Terminated

Spec == Init /\ [][Next]_vars

(* As in ClosedLoopPhase: time passes and goroutines that can run do run,  *)
(* but the server need not answer before the request's context is done.    *)
Fairness ==
  /\ WF_vars(Tick)
  /\ WF_vars(PropagateParent)
  /\ WF_vars(SchedulerStep)
  /\ \A s \in Arrival : /\ WF_vars(RequestStep(s))
                        /\ WF_vars(RequestDeadline(s))
                        /\ WF_vars(requestCause[s] # "none" /\ RunRequest(s))
  /\ WF_vars(CollectResult)
  /\ WF_vars(CloseResults)

FairSpec == Spec /\ Fairness

(***************************************************************************)
(* Properties                                                              *)
(***************************************************************************)

TypeOK ==
  /\ phase \in {"warmup", "measured"}
  /\ now \in 0 .. Horizon
  /\ parentCancelled \in BOOLEAN
  /\ phaseCause \in PhaseCause
  /\ requestCause \in [Arrival -> RequestCause]
  /\ sched \in {"wait", "admit", "stopped", "deadline", "drain", "draining", "expire",
                "await", "returned"}
  /\ processed \in 0 .. Requests
  /\ disposition \in [Arrival -> Disposition \cup {"pending"}]
  /\ maxActive \in 0 .. MaxInFlight
  /\ phaseErr \in PhaseCause
  /\ boundary \in {"open", "limit", "parent"}
  /\ parentReported \in BOOLEAN
  /\ pc \in [Arrival -> {"idle", "run", "classify", "uncount", "release", "send", "done"}]
  /\ result \in [Arrival -> ResponseErr \cup Outcome]
  /\ semaphore \in 0 .. MaxInFlight
  /\ active \in 0 .. MaxInFlight
  /\ resultsCh \in Seq(Arrival) /\ Len(resultsCh) <= MaxInFlight
  /\ resultsClosed \in BOOLEAN
  /\ collected \subseteq Arrival

(* The two in-flight counts, kept by different goroutines at different     *)
(* moments: the semaphore counts the requests that hold a slot, and the    *)
(* atomic counter, which the drain consults, never exceeds it and covers   *)
(* every request whose context is still live.                              *)
InFlightBounded ==
  /\ semaphore = Cardinality({s \in Arrival : InFlight(s)})
  /\ semaphore <= MaxInFlight
  /\ active <= semaphore
  /\ active >= Cardinality({s \in Arrival : Live(s)})
  /\ maxActive <= Cardinality(With("started"))

(* Arrivals are lost to a late scheduler only when a deadline exists, and  *)
(* then as a suffix of the schedule: none started after a lost one.        *)
LostArrivalsAreSuffix ==
  \A s, t \in Arrival :
    disposition[s] = "scheduler_limited" /\ s <= t =>
      Measured /\ disposition[t] = "scheduler_limited"

(* A phase that returns no error walked its whole schedule, and a measured *)
(* one stopped admission at its deadline.                                  *)
CleanReturnIsComplete ==
  Returned /\ phaseErr = "none" =>
    /\ processed = Requests
    /\ Measured => boundary = "limit" /\ now >= Duration

(* Every arrival has one fate.  The counts satisfy the equation that the   *)
(* artifact validator demands, a started arrival has a collected result    *)
(* and no other does, the arrivals a late scheduler lost are the end of    *)
(* the schedule, and none is left over unless the phase returns an error.  *)
ArrivalsAccounted ==
  /\ Returned =>
       /\ collected = With("started")
       /\ LET c == ArrivalCounts IN
          c.planned = c.started + c.client_limited + c.scheduler_limited + c.unprocessed
  /\ LostArrivalsAreSuffix
  /\ CleanReturnIsComplete

(* A phase that returned is quiet: no request, slot or result is left.     *)
DrainedOnReturn ==
  Returned => /\ \A s \in Arrival : pc[s] \in {"idle", "done"}
              /\ semaphore = 0 /\ active = 0
              /\ resultsCh = <<>>

(* drain_timeout outcomes only under a phase that returns the drain        *)
(* timeout.                                                                *)
DrainTimeoutReported == Returned /\ "drain_timeout" \in Outcomes => phaseErr = "drain"

(* When the measured drain is over, in whichever of its ways, no request   *)
(* is left running under a context nobody has cancelled; the phase returns *)
(* when all of them have ended, and says so when it had to cancel them.    *)
DrainEndsRequests ==
  /\ Measured /\ sched \in {"await", "returned"} =>
       \A s \in Arrival : Live(s) => phaseCause # "none" \/ parentCancelled
  /\ DrainedOnReturn
  /\ DrainTimeoutReported

(* The phase returns although a server may never answer.                   *)
PhaseReturns == <>Returned

StatusOf(s) ==
  CASE disposition[s] = "pending" -> "pending"
    [] disposition[s] \in {"client_limited", "scheduler_limited"} -> "dropped"
    [] disposition[s] = "started" -> IF s \in collected THEN result[s] ELSE "admitted"

Contract == INSTANCE PhaseContract WITH
  kind      <- [measured |-> Measured, openLoop |-> TRUE],
  status    <- [s \in Arrival |-> StatusOf(s)],
  cancelled <- parentCancelled,
  reported  <- parentReported,
  verdict   <- IF Returned THEN phaseErr ELSE "running"

(* The open loop keeps the same contract with the lifecycle as the closed  *)
(* loop, but for the last look at the parent.                              *)
ImplementsContract == Contract!Spec

(* README.md:466: "A parent cancellation during warmup skips measurement", *)
(* which Run does only when warmup returns an error.                       *)
WarmupCancellationReported ==
  Returned /\ ~Measured /\ "parent_cancelled" \in Outcomes => phaseErr # "none"

=============================================================================
