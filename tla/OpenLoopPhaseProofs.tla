------------------------ MODULE OpenLoopPhaseProofs -------------------------
(***************************************************************************)
(* The open-loop phase for every schedule, every capacity and every timing: *)
(* its safety, and that it implements PhaseContract.                       *)
(***************************************************************************)
EXTENDS OpenLoopPhase, FiniteSetTheorems, SequenceTheorems, TLAPS

(***************************************************************************)
(* Safety                                                                  *)
(*                                                                         *)
(* What an open-loop phase promises, for every schedule, every capacity    *)
(* and every timing: its counts of requests in flight are exact, every     *)
(* arrival has one fate, and a phase that returned is quiet.               *)
(*                                                                         *)
(* PhaseInv is the inductive invariant.  Each of its parts is about one    *)
(* question and is kept with the help of the ones named in its step lemma. *)
(***************************************************************************)

Holders == {s \in Arrival : InFlight(s)}

(* between the two updates of the atomic count                             *)
IsCounted(s) == pc[s] \in {"run", "classify", "uncount"}

Counted == {s \in Arrival : IsCounted(s)}

(* The semaphore and the atomic count say how many requests are where.     *)
CountInv ==
  /\ semaphore = Cardinality(Holders)
  /\ active = Cardinality(Counted)
  /\ maxActive <= Cardinality(With("started"))

(* A goroutine runs exactly the arrivals that were started.                *)
StartInv == \A s \in Arrival : (pc[s] # "idle") <=> (disposition[s] = "started")

TypeInv == TypeOK /\ CountInv /\ StartInv

(* The schedule is processed in order; only the deadline of a measured     *)
(* phase takes arrivals away, and then all that are left.                  *)
FateInv ==
  /\ \A s \in Arrival : (disposition[s] = "pending") <=> (processed < s)
  /\ sched \in {"wait", "admit"} =>
       /\ processed < Requests
       /\ \A s \in Arrival : disposition[s] # "scheduler_limited"
  /\ LostArrivalsAreSuffix

InChannel == {resultsCh[i] : i \in 1 .. Len(resultsCh)}

(* A finished request's result is in the channel or collected.             *)
DeliveryInv == {s \in Arrival : pc[s] = "done"} = InChannel \cup collected

(* The channel is closed once nothing can be started or sent any more.     *)
QuietInv ==
  /\ resultsClosed => RequestsDone /\ sched \in {"drain", "draining", "expire", "await", "returned"}
  /\ Returned => AllCollected

(* How far the scheduler came, and what it made of it                      *)
BoundaryInv ==
  /\ sched \in {"wait", "admit", "stopped", "deadline"} => boundary = "open"
  /\ sched \in {"stopped", "deadline"} => processed = Requests \/ parentCancelled
  /\ sched = "deadline" => processed = Requests
  /\ sched \in {"drain", "draining", "expire", "await", "returned"} /\ phaseErr = "none" =>
       /\ processed = Requests
       /\ Measured => boundary = "limit" /\ now >= Duration

(* Where the phase's error comes from, and that the drain left nobody out  *)
ErrorInv ==
  /\ phaseErr = "parent" => parentCancelled
  /\ phaseErr = "drain" => phaseCause # "none"
  /\ Measured /\ sched \in {"await", "returned"} =>
       \A s \in Arrival : Live(s) => phaseCause # "none" \/ parentCancelled

(* The drain timeout reaches an outcome through the contexts only.         *)
CauseInv ==
  /\ phaseCause = "drain" => phaseErr = "drain"
  /\ \A s \in Arrival : "drain" = requestCause[s] => phaseErr = "drain"
  /\ \A s \in Arrival : result[s] = "drain_timeout" => phaseErr = "drain"

PhaseInv ==
  /\ TypeInv
  /\ FateInv
  /\ DeliveryInv
  /\ QuietInv
  /\ BoundaryInv
  /\ ErrorInv
  /\ CauseInv

(***************************************************************************)
(* Counting arrivals                                                       *)
(***************************************************************************)

(* There are finitely many arrivals.                                       *)
LEMMA ArrivalFinite == Requests \in Nat \ {0} /\ IsFiniteSet(Arrival)
<1>1. Requests \in Nat \ {0}
  BY OpenLoopAssumption
<1> QED
  BY <1>1, FS_Interval DEF Arrival

(* So is every set of arrivals, and its size is a number.                  *)
LEMMA ArrivalsFinite ==
  ASSUME NEW S \in SUBSET Arrival
  PROVE  IsFiniteSet(S) /\ Cardinality(S) \in Nat
BY ArrivalFinite, FS_Subset, FS_CardinalityType

(* The requests that are counted hold a slot, and were started.            *)
LEMMA CountedHold ==
  ASSUME StartInv
  PROVE  /\ Cardinality(Counted) <= Cardinality(Holders)
         /\ Cardinality(Counted) <= Cardinality(With("started"))
<1>1. Counted \subseteq Holders /\ Counted \subseteq With("started")
  BY DEF Counted, IsCounted, Holders, InFlight, StartInv, With
<1> QED
  BY <1>1, ArrivalsFinite, FS_Subset DEF Holders, With

(* A started arrival is one more of each.                                  *)
LEMMA StartCounts ==
  ASSUME TypeInv, FateInv, StartArrival
  PROVE  /\ processed + 1 \in Arrival
         /\ CountInv' /\ StartInv'
         /\ semaphore' \in 0 .. MaxInFlight /\ active' \in 0 .. MaxInFlight
         /\ maxActive' \in 0 .. MaxInFlight
<1> DEFINE s == processed + 1
<1> USE ArrivalFinite
<1>1. s \in Arrival /\ processed \in Nat
  BY DEF TypeInv, TypeOK, FateInv, StartArrival, Arrival
<1>2. disposition[s] = "pending" /\ pc[s] = "idle"
  BY <1>1 DEF TypeInv, StartInv, FateInv
<1>3. StartInv'
  BY <1>1 DEF TypeInv, TypeOK, StartInv, StartArrival
<1>4. /\ Holders' = Holders \cup {s} /\ s \notin Holders
      /\ Counted' = Counted \cup {s} /\ s \notin Counted
      /\ With("started")' = With("started") \cup {s} /\ s \notin With("started")
  BY <1>1, <1>2 DEF TypeInv, TypeOK, StartArrival, Holders, InFlight, Counted, IsCounted, With
<1>5. /\ IsFiniteSet(Holders) /\ IsFiniteSet(Counted) /\ IsFiniteSet(With("started"))
      /\ Cardinality(Holders) \in Nat /\ Cardinality(Counted) \in Nat
      /\ Cardinality(With("started")) \in Nat
  BY ArrivalsFinite DEF Holders, Counted, With
<1>6. /\ Cardinality(Holders') = Cardinality(Holders) + 1
      /\ Cardinality(Counted') = Cardinality(Counted) + 1
      /\ Cardinality(With("started")') = Cardinality(With("started")) + 1
  BY <1>4, <1>5, FS_AddElement
<1>7. /\ Cardinality(Counted') <= Cardinality(Holders')
      /\ Cardinality(Counted') <= Cardinality(With("started")')
  BY <1>5, <1>6, CountedHold DEF TypeInv
<1>8. /\ semaphore' = Cardinality(Holders') /\ active' = Cardinality(Counted')
      /\ semaphore' <= MaxInFlight /\ semaphore' \in Nat /\ active' \in Nat
  <2>1. /\ semaphore = Cardinality(Holders) /\ active = Cardinality(Counted)
        /\ semaphore \in Nat /\ MaxInFlight \in Nat
    BY <1>5, OpenLoopAssumption DEF TypeInv, CountInv
  <2>2. semaphore' = semaphore + 1 /\ active' = active + 1 /\ semaphore < MaxInFlight
    BY DEF StartArrival, SlotFree
  <2> QED
    BY <1>5, <1>6, <2>1, <2>2
<1>9. /\ maxActive \in 0 .. MaxInFlight /\ MaxInFlight \in Nat
      /\ maxActive <= Cardinality(With("started"))
      /\ maxActive' = active' \/ maxActive' = maxActive
  BY OpenLoopAssumption DEF TypeInv, TypeOK, CountInv, StartArrival
<1>10. maxActive' <= Cardinality(With("started")') /\ maxActive' \in 0 .. MaxInFlight
  BY <1>5, <1>6, <1>7, <1>8, <1>9
<1> QED
  BY <1>1, <1>3, <1>5, <1>6, <1>7, <1>8, <1>9, <1>10 DEF CountInv

(* A request that leaves a set it is counted in takes one off the count.   *)
LEMMA LeaveCounts ==
  ASSUME NEW S \in SUBSET Arrival, NEW s \in S
  PROVE  /\ Cardinality(S \ {s}) = Cardinality(S) - 1
         /\ Cardinality(S) - 1 \in Nat
BY ArrivalsFinite, FS_RemoveElement

(* The counter goes down with the request it counted.                      *)
LEMMA UncountCounts ==
  ASSUME TypeInv, NEW s \in Arrival, UncountRequest(s)
  PROVE  CountInv' /\ StartInv' /\ active' \in 0 .. MaxInFlight
<1>1. Counted' = Counted \ {s} /\ s \in Counted /\ Holders' = Holders /\ Counted \subseteq Arrival
  BY DEF TypeInv, TypeOK, UncountRequest, Holders, InFlight, Counted, IsCounted
<1>2. With("started")' = With("started") /\ UNCHANGED <<semaphore, maxActive>>
  BY DEF UncountRequest, schedVars, With
<1>3. Cardinality(Counted') = Cardinality(Counted) - 1 /\ Cardinality(Counted) - 1 \in Nat
  BY <1>1, LeaveCounts
<1>4. active' = active - 1 /\ active \in 0 .. MaxInFlight /\ MaxInFlight \in Nat
  BY OpenLoopAssumption DEF UncountRequest, TypeInv, TypeOK
<1>5. StartInv'
  BY DEF TypeInv, TypeOK, StartInv, UncountRequest, schedVars
<1> QED
  BY <1>1, <1>2, <1>3, <1>4, <1>5 DEF TypeInv, CountInv

(* The semaphore goes down with the request that held the slot.            *)
LEMMA ReleaseCounts ==
  ASSUME TypeInv, NEW s \in Arrival, ReleaseSlot(s)
  PROVE  CountInv' /\ StartInv' /\ semaphore' \in 0 .. MaxInFlight
<1>1. Holders' = Holders \ {s} /\ s \in Holders /\ Counted' = Counted /\ Holders \subseteq Arrival
  BY DEF TypeInv, TypeOK, ReleaseSlot, Holders, InFlight, Counted, IsCounted
<1>2. With("started")' = With("started") /\ UNCHANGED <<active, maxActive>>
  BY DEF ReleaseSlot, schedVars, With
<1>3. Cardinality(Holders') = Cardinality(Holders) - 1 /\ Cardinality(Holders) - 1 \in Nat
  BY <1>1, LeaveCounts
<1>4. semaphore' = semaphore - 1 /\ semaphore \in 0 .. MaxInFlight /\ MaxInFlight \in Nat
  BY OpenLoopAssumption DEF ReleaseSlot, TypeInv, TypeOK
<1>5. StartInv'
  BY DEF TypeInv, TypeOK, StartInv, ReleaseSlot, schedVars
<1> QED
  BY <1>1, <1>2, <1>3, <1>4, <1>5 DEF TypeInv, CountInv

(* No other step changes the counts, or what is counted.                   *)
LEMMA OthersKeepCounts ==
  ASSUME TypeInv, UNCHANGED <<semaphore, active, maxActive>>,
         Holders' = Holders, Counted' = Counted, With("started")' = With("started")
  PROVE  CountInv'
BY DEF TypeInv, CountInv

(***************************************************************************)
(* The initial state                                                       *)
(***************************************************************************)

(* The phase starts in a state of the invariant.                           *)
LEMMA InitPhaseInv == Init => PhaseInv
<1> SUFFICES ASSUME Init PROVE PhaseInv
  OBVIOUS
<1>1. TypeOK
  <2>1. /\ phase \in {"warmup", "measured"}
        /\ now \in 0 .. Horizon /\ processed \in 0 .. Requests
        /\ {maxActive, semaphore, active} \subseteq 0 .. MaxInFlight
    BY OpenLoopAssumption DEF Init
  <2>2. resultsCh \in Seq(Arrival) /\ Len(resultsCh) <= MaxInFlight /\ collected \subseteq Arrival
    BY OpenLoopAssumption DEF Init
  <2> QED
    BY <2>1, <2>2 DEF Init, TypeOK, PhaseCause, RequestCause, ResponseErr
<1>2. Holders = {} /\ Counted = {} /\ With("started") = {}
  BY DEF Init, Holders, InFlight, Counted, IsCounted, With
<1>3. CountInv
  <2>1. Cardinality(Holders) = 0 /\ Cardinality(Counted) = 0 /\ Cardinality(With("started")) = 0
    BY <1>2, FS_EmptySet
  <2> QED
    BY <2>1 DEF Init, CountInv
<1>4. StartInv
  BY DEF Init, StartInv
<1>5. FateInv
  BY ArrivalFinite DEF Init, FateInv, LostArrivalsAreSuffix, Arrival
<1>6. InChannel = {} /\ {s \in Arrival : pc[s] = "done"} = {}
  BY DEF Init, InChannel
<1>7. DeliveryInv
  BY <1>6 DEF Init, DeliveryInv
<1>8. QuietInv /\ BoundaryInv /\ ErrorInv /\ CauseInv
  BY DEF Init, QuietInv, Returned, BoundaryInv, ErrorInv, CauseInv
<1> QED
  BY <1>1, <1>3, <1>4, <1>5, <1>7, <1>8 DEF PhaseInv, TypeInv

(***************************************************************************)
(* Types and counts                                                        *)
(***************************************************************************)

(* Cancelling the phase gives it and its live requests a cause.            *)
LEMMA CancelPhaseTypes ==
  ASSUME TypeOK, NEW cause \in {"parent", "drain"}, CancelPhase(cause)
  PROVE  phaseCause' \in PhaseCause /\ requestCause' \in [Arrival -> RequestCause]
<1>1. phaseCause' \in PhaseCause
  BY DEF TypeOK, CancelPhase, FirstCause, PhaseCause
<1> QED
  BY <1>1 DEF TypeOK, CancelPhase, FirstCause, RequestCause

(* A report of the cancelled parent keeps the types.                       *)
LEMMA ReportParentTypes ==
  ASSUME TypeOK, ReportParent
  PROVE  /\ parentReported' \in BOOLEAN
         /\ boundary' \in {"open", "limit", "parent"}
         /\ phaseErr' \in PhaseCause
BY DEF TypeOK, ReportParent, StopAdmission, FirstCause, PhaseCause

(* The scheduler's steps that start nothing keep the types.                *)
LEMMA SchedulerTypes ==
  ASSUME TypeInv, FateInv, SchedulerStep, ~StartArrival
  PROVE  TypeOK'
<1> USE ArrivalFinite, OpenLoopAssumption DEF TypeInv, contextVars, schedVars, requestVars,
        resultVars, Goto
<1>1. CASE ArrivalDue \/ ScheduleCancelled
  BY <1>1 DEF TypeOK, ArrivalDue, ScheduleCancelled
<1>2. CASE DropArrival
  <2>1. processed + 1 \in Arrival /\ processed' = processed + 1
    BY <1>2 DEF TypeOK, FateInv, DropArrival, Arrival
  <2>2. sched' \in {"wait", "stopped"}
    BY <1>2 DEF DropArrival, AfterArrival
  <2>3. /\ processed' \in 0 .. Requests
        /\ disposition' \in [Arrival -> Disposition \cup {"pending"}]
    BY <1>2, <2>1 DEF TypeOK, DropArrival, Disposition, Arrival
  <2> QED
    BY <1>2, <2>2, <2>3 DEF TypeOK, DropArrival
<1>3. CASE MissDeadline
  <2>1. /\ processed' \in 0 .. Requests
        /\ disposition' \in [Arrival -> Disposition \cup {"pending"}]
    BY <1>3 DEF TypeOK, MissDeadline, Disposition
  <2> QED
    BY <1>3, <2>1 DEF TypeOK, MissDeadline
<1>4. CASE ScheduleStopped
  <2>1. /\ sched' \in {"drain", "deadline"}
        /\ ReportParent \/ UNCHANGED <<parentReported, boundary, phaseErr>>
    BY <1>4 DEF ScheduleStopped
  <2>2. /\ parentReported' \in BOOLEAN
        /\ boundary' \in {"open", "limit", "parent"}
        /\ phaseErr' \in PhaseCause
    BY <2>1, ReportParentTypes DEF TypeOK
  <2> QED
    BY <1>4, <2>1, <2>2 DEF TypeOK, ScheduleStopped
<1>5. CASE ReachDeadline
  <2>1. /\ parentReported' \in BOOLEAN
        /\ boundary' \in {"open", "limit", "parent"}
        /\ phaseErr' \in PhaseCause
    BY <1>5, ReportParentTypes DEF TypeOK, ReachDeadline, StopAdmission
  <2> QED
    BY <1>5, <2>1 DEF TypeOK, ReachDeadline
<1>6. CASE BeginDrain
  <2>1. sched' \in {"await", "draining", "expire"}
    BY <1>6 DEF BeginDrain
  <2> QED
    BY <1>6, <2>1 DEF TypeOK, BeginDrain
<1>7. CASE DrainedInTime \/ DrainTimer
  <2>1. sched' \in {"await", "expire"}
    BY <1>7 DEF DrainedInTime, DrainTimer
  <2> QED
    BY <1>7, <2>1 DEF TypeOK, DrainedInTime, DrainTimer
<1>8. CASE DrainCancelled
  BY <1>8, ReportParentTypes DEF TypeOK, DrainCancelled
<1>9. CASE ExpireDrain
  <2>1. phaseCause' \in PhaseCause /\ requestCause' \in [Arrival -> RequestCause]
    BY <1>9, CancelPhaseTypes DEF ExpireDrain
  <2> QED
    BY <1>9, <2>1 DEF TypeOK, ExpireDrain, PhaseCause
<1>10. CASE Return
  BY <1>10 DEF TypeOK, Return
<1> QED
  BY <1>1, <1>2, <1>3, <1>4, <1>5, <1>6, <1>7, <1>8, <1>9, <1>10 DEF SchedulerStep

(* So do the steps of the requests and of the collection.                  *)
LEMMA RequestTypes ==
  ASSUME TypeInv,
         \/ \E s \in Arrival : RequestStep(s) \/ RunRequest(s) \/ RequestDeadline(s)
         \/ CollectResult \/ CloseResults
  PROVE  TypeOK'
<1> USE DEF TypeInv, contextVars, schedVars, requestVars, resultVars
<1>1. ASSUME NEW s \in Arrival, RunRequest(s) PROVE TypeOK'
  BY <1>1 DEF TypeOK, RunRequest
<1>2. ASSUME NEW s \in Arrival, ClassifyRequest(s) PROVE TypeOK'
  <2>1. OutcomeOf(result[s], requestCause[s]) \in Outcome
    BY DEF OutcomeOf, Outcome
  <2>2. result' \in [Arrival -> ResponseErr \cup Outcome]
    BY <1>2, <2>1 DEF TypeOK, ClassifyRequest
  <2> QED
    BY <1>2, <2>2 DEF TypeOK, ClassifyRequest, RequestCause, PhaseCause
<1>3. ASSUME NEW s \in Arrival, UncountRequest(s) PROVE TypeOK'
  <2>1. active' \in 0 .. MaxInFlight
    BY <1>3, UncountCounts
  <2> QED
    BY <1>3, <2>1 DEF TypeOK, UncountRequest
<1>4. ASSUME NEW s \in Arrival, ReleaseSlot(s) PROVE TypeOK'
  <2>1. semaphore' \in 0 .. MaxInFlight
    BY <1>4, ReleaseCounts
  <2> QED
    BY <1>4, <2>1 DEF TypeOK, ReleaseSlot
<1>5. ASSUME NEW s \in Arrival, SendResult(s) PROVE TypeOK'
  <2>1. resultsCh' \in Seq(Arrival) /\ Len(resultsCh') <= MaxInFlight
    BY <1>5, OpenLoopAssumption DEF TypeOK, SendResult
  <2> QED
    BY <1>5, <2>1 DEF TypeOK, SendResult
<1>6. ASSUME NEW s \in Arrival, RequestDeadline(s) PROVE TypeOK'
  BY <1>6 DEF TypeOK, RequestDeadline, RequestCause
<1>7. ASSUME CollectResult PROVE TypeOK'
  <2>1. /\ resultsCh' \in Seq(Arrival) /\ Len(resultsCh') <= MaxInFlight
        /\ Head(resultsCh) \in Arrival
    BY <1>7, HeadTailProperties, OpenLoopAssumption DEF TypeOK, CollectResult
  <2> QED
    BY <1>7, <2>1 DEF TypeOK, CollectResult
<1>8. ASSUME CloseResults PROVE TypeOK'
  BY <1>8 DEF TypeOK, CloseResults
<1> QED
  BY <1>1, <1>2, <1>3, <1>4, <1>5, <1>6, <1>7, <1>8 DEF RequestStep

(* Every step keeps the types.                                             *)
LEMMA TypeOKStep ==
  ASSUME TypeInv, FateInv, [Next]_vars
  PROVE  TypeOK'
<1> USE DEF TypeInv, contextVars, schedVars, requestVars, resultVars
<1>1. CASE StartArrival
  <2>1. /\ processed' \in 0 .. Requests
        /\ sched' \in {"wait", "stopped"}
        /\ disposition' \in [Arrival -> Disposition \cup {"pending"}]
        /\ requestCause' \in [Arrival -> RequestCause]
        /\ pc' \in [Arrival -> {"idle", "run", "classify", "uncount", "release", "send", "done"}]
    BY <1>1, StartCounts, ArrivalFinite
       DEF TypeOK, StartArrival, Disposition, RequestCause, Arrival, Goto, AfterArrival
  <2> QED
    BY <1>1, <2>1, StartCounts DEF TypeOK, StartArrival
<1>2. CASE Tick
  <2>1. now' \in 0 .. Horizon
    BY <1>2, OpenLoopAssumption DEF TypeOK, Tick
  <2> QED
    BY <1>2, <2>1 DEF TypeOK, Tick
<1>3. CASE CancelParent
  BY <1>3 DEF TypeOK, CancelParent
<1>4. CASE PropagateParent
  BY <1>4, CancelPhaseTypes DEF TypeOK, PropagateParent
<1>5. CASE Terminated \/ UNCHANGED vars
  BY <1>5 DEF TypeOK, Terminated, vars
<1> QED
  BY <1>1, <1>2, <1>3, <1>4, <1>5, SchedulerTypes, RequestTypes DEF Next

(* Every step keeps the counts, and goroutines with started arrivals.      *)
LEMMA CountStep ==
  ASSUME TypeInv, FateInv, [Next]_vars
  PROVE  CountInv' /\ StartInv'
<1> USE DEF TypeInv, contextVars, schedVars, requestVars, resultVars
<1> DEFINE Kept == UNCHANGED <<semaphore, active, maxActive>> /\ StartInv'
                   /\ Holders' = Holders /\ Counted' = Counted
                   /\ With("started")' = With("started")
<1>1. CASE UNCHANGED <<semaphore, active, maxActive, pc, disposition>>
  <2>1. Kept
    BY <1>1 DEF StartInv, Holders, InFlight, Counted, IsCounted, With
  <2> QED
    BY <2>1, OthersKeepCounts
<1>2. CASE StartArrival
  BY <1>2, StartCounts
<1>3. CASE DropArrival \/ MissDeadline
  <2>1. UNCHANGED <<semaphore, active, maxActive, pc>>
    BY <1>3 DEF DropArrival, MissDeadline
  <2>2. \A s \in Arrival : (disposition'[s] = "started") <=> (disposition[s] = "started")
    <3>1. processed + 1 \in Arrival /\ disposition[processed + 1] = "pending"
      BY <1>3, ArrivalFinite DEF TypeOK, FateInv, DropArrival, MissDeadline, Arrival
    <3>2. \A s \in Remaining : disposition[s] = "pending"
      BY DEF FateInv, Remaining
    <3> QED
      BY <1>3, <3>1, <3>2 DEF TypeOK, DropArrival, MissDeadline
  <2>3. Kept
    BY <2>1, <2>2 DEF StartInv, Holders, InFlight, Counted, IsCounted, With
  <2> QED
    BY <2>3, OthersKeepCounts
<1>4. ASSUME NEW s \in Arrival, RunRequest(s) \/ SendResult(s) \/ ClassifyRequest(s)
      PROVE  CountInv' /\ StartInv'
  <2>1. Kept
    BY <1>4 DEF TypeOK, StartInv, Holders, InFlight, Counted, IsCounted, With, RunRequest,
                SendResult, ClassifyRequest
  <2> QED
    BY <2>1, OthersKeepCounts
<1>5. ASSUME NEW s \in Arrival, UncountRequest(s) PROVE CountInv' /\ StartInv'
  BY <1>5, UncountCounts
<1>6. ASSUME NEW s \in Arrival, ReleaseSlot(s) PROVE CountInv' /\ StartInv'
  BY <1>6, ReleaseCounts
<1>7. ASSUME NEW s \in Arrival, RequestDeadline(s) PROVE CountInv' /\ StartInv'
  BY <1>1, <1>7 DEF RequestDeadline
<1>8. CASE SchedulerStep /\ ~StartArrival /\ ~DropArrival /\ ~MissDeadline
  BY <1>1, <1>8 DEF SchedulerStep, ArrivalDue, ScheduleCancelled, ScheduleStopped, ReachDeadline,
                    BeginDrain, DrainedInTime, DrainTimer, DrainCancelled, ExpireDrain, Return
<1>9. CASE CollectResult \/ CloseResults
  BY <1>1, <1>9 DEF CollectResult, CloseResults
<1>10. CASE Tick \/ CancelParent \/ PropagateParent \/ Terminated \/ UNCHANGED vars
  BY <1>1, <1>10 DEF Tick, CancelParent, PropagateParent, Terminated, vars
<1> QED
  BY <1>2, <1>3, <1>4, <1>5, <1>6, <1>7, <1>8, <1>9, <1>10 DEF Next, RequestStep

(***************************************************************************)
(* The other parts of the invariant                                        *)
(***************************************************************************)

(* Every step keeps the order in which arrivals meet their fates.          *)
LEMMA FateStep ==
  ASSUME TypeInv, FateInv, [Next]_vars
  PROVE  FateInv'
<1> USE ArrivalFinite DEF TypeInv, TypeOK, FateInv, LostArrivalsAreSuffix, Measured, Arrival, Goto
<1>1. CASE UNCHANGED <<phase, processed, disposition>> /\ (sched' = sched \/ sched' \notin {"wait", "admit"})
  BY <1>1
<1>2. CASE ArrivalDue
  BY <1>2 DEF ArrivalDue
<1>3. CASE StartArrival \/ DropArrival
  <2> DEFINE s == processed + 1
  <2>1. /\ s \in Arrival /\ processed' = s /\ phase' = phase
        /\ \A a \in Arrival \ {s} : disposition'[a] = disposition[a]
        /\ disposition'[s] \in {"started", "client_limited"}
        /\ \A a \in Arrival : disposition[a] # "scheduler_limited"
    BY <1>3 DEF StartArrival, DropArrival
  <2>2. sched' \in {"wait", "admit"} => processed' < Requests
    BY <1>3, <2>1 DEF StartArrival, DropArrival, AfterArrival
  <2>3. \A a \in Arrival : disposition'[a] # "scheduler_limited"
    BY <2>1
  <2>4. ASSUME NEW a \in Arrival
        PROVE  (disposition'[a] = "pending") <=> (processed' < a)
    <3>1. CASE a = s
      BY <2>1, <3>1
    <3>2. CASE a # s
      BY <2>1, <3>2
    <3> QED
      BY <3>1, <3>2
  <2> QED
    BY <2>2, <2>3, <2>4
<1>4. CASE MissDeadline
  <2>1. /\ processed' = Requests /\ sched' = "stopped" /\ phase' = phase /\ Measured
        /\ \A a \in Arrival : disposition'[a] = IF processed < a THEN "scheduler_limited"
                                                ELSE disposition[a]
        /\ \A a \in Arrival : disposition[a] # "scheduler_limited"
    BY <1>4 DEF MissDeadline, Remaining, Late
  <2> QED
    BY <2>1
<1>5. CASE SchedulerStep /\ ~ArrivalDue /\ ~StartArrival /\ ~DropArrival /\ ~MissDeadline
  BY <1>1, <1>5 DEF SchedulerStep, ScheduleCancelled, ScheduleStopped, ReachDeadline, BeginDrain,
                    DrainedInTime, DrainTimer, DrainCancelled, ExpireDrain, Return
<1>6. ASSUME NEW s \in Arrival, RequestStep(s) \/ RunRequest(s) \/ RequestDeadline(s) PROVE FateInv'
  BY <1>1, <1>6 DEF RequestStep, RunRequest, ClassifyRequest, UncountRequest, ReleaseSlot,
                    SendResult, RequestDeadline, schedVars
<1>7. CASE CollectResult \/ CloseResults \/ Tick \/ CancelParent \/ PropagateParent
  BY <1>1, <1>7 DEF CollectResult, CloseResults, Tick, CancelParent, PropagateParent, schedVars
<1>8. CASE Terminated \/ UNCHANGED vars
  BY <1>1, <1>8 DEF Terminated, vars, schedVars
<1> QED
  BY <1>2, <1>3, <1>4, <1>5, <1>6, <1>7, <1>8 DEF Next

(* A send puts one result into the channel.                                *)
LEMMA SendFills ==
  ASSUME TypeOK, NEW s \in Arrival, SendResult(s)
  PROVE  InChannel' = InChannel \cup {s}
<1>1. /\ Len(resultsCh') = Len(resultsCh) + 1 /\ Len(resultsCh) \in Nat
      /\ \A i \in 1 .. Len(resultsCh) : resultsCh'[i] = resultsCh[i]
      /\ resultsCh'[Len(resultsCh) + 1] = s
  BY DEF TypeOK, SendResult
<1> QED
  BY <1>1 DEF InChannel

(* A receive moves it from the channel to what is collected.               *)
LEMMA ReceiveMoves ==
  ASSUME TypeOK, CollectResult
  PROVE  InChannel' \cup collected' = InChannel \cup collected
<1>1. /\ resultsCh \in Seq(Arrival) /\ resultsCh # <<>> /\ resultsCh' = Tail(resultsCh)
      /\ collected' = collected \cup {Head(resultsCh)}
  BY DEF TypeOK, CollectResult
<1>2. /\ Len(resultsCh) \in Nat /\ Len(resultsCh) >= 1 /\ Len(resultsCh') = Len(resultsCh) - 1
      /\ \A i \in 1 .. Len(resultsCh') : resultsCh'[i] = resultsCh[i + 1]
      /\ Head(resultsCh) = resultsCh[1]
  BY <1>1, HeadTailProperties
<1>3. InChannel = {resultsCh[1]} \cup InChannel'
  <2>1. ASSUME NEW i \in 1 .. Len(resultsCh) PROVE resultsCh[i] \in {resultsCh[1]} \cup InChannel'
    <3>1. CASE i = 1
      BY <3>1
    <3>2. CASE i # 1
      <4>1. i - 1 \in 1 .. Len(resultsCh') /\ resultsCh'[i - 1] = resultsCh[i]
        BY <1>2, <3>2
      <4> QED
        BY <4>1 DEF InChannel
    <3> QED
      BY <3>1, <3>2
  <2>2. ASSUME NEW i \in 1 .. Len(resultsCh') PROVE resultsCh'[i] \in InChannel
    <3>1. i + 1 \in 1 .. Len(resultsCh) /\ resultsCh'[i] = resultsCh[i + 1]
      BY <1>2
    <3> QED
      BY <3>1 DEF InChannel
  <2>3. resultsCh[1] \in InChannel
    BY <1>2 DEF InChannel
  <2> QED
    BY <2>1, <2>2, <2>3 DEF InChannel
<1> QED
  BY <1>1, <1>2, <1>3

(* Every step keeps the results of finished requests.                      *)
LEMMA DeliveryStep ==
  ASSUME TypeInv, FateInv, DeliveryInv, [Next]_vars
  PROVE  DeliveryInv'
<1> USE DEF TypeInv, TypeOK, contextVars, schedVars, requestVars, resultVars
<1> DEFINE Done == {s \in Arrival : pc[s] = "done"}
<1>1. CASE Done' = Done /\ UNCHANGED <<resultsCh, collected>>
  BY <1>1 DEF DeliveryInv, InChannel
<1>2. CASE UNCHANGED <<pc, resultsCh, collected>>
  BY <1>1, <1>2
<1>3. CASE StartArrival
  <2>1. processed + 1 \in Arrival /\ pc[processed + 1] = "idle"
    BY <1>3, StartCounts DEF StartInv, FateInv, StartArrival
  <2>2. Done' = Done /\ UNCHANGED <<resultsCh, collected>>
    BY <1>3, <2>1 DEF StartArrival
  <2> QED
    BY <1>1, <2>2
<1>4. ASSUME NEW s \in Arrival,
             \/ RunRequest(s) \/ ClassifyRequest(s) \/ UncountRequest(s) \/ ReleaseSlot(s)
             \/ RequestDeadline(s)
      PROVE  DeliveryInv'
  BY <1>1, <1>4 DEF RunRequest, ClassifyRequest, UncountRequest, ReleaseSlot, RequestDeadline
<1>5. ASSUME NEW s \in Arrival, SendResult(s) PROVE DeliveryInv'
  <2>1. Done' = Done \cup {s} /\ collected' = collected
    BY <1>5 DEF SendResult
  <2> QED
    BY <1>5, <2>1, SendFills DEF DeliveryInv
<1>6. CASE CollectResult
  <2>1. Done' = Done
    BY <1>6 DEF CollectResult
  <2> QED
    BY <1>6, <2>1, ReceiveMoves DEF DeliveryInv
<1>7. CASE SchedulerStep /\ ~StartArrival
  BY <1>2, <1>7 DEF SchedulerStep, ArrivalDue, ScheduleCancelled, DropArrival, MissDeadline,
                    ScheduleStopped, ReachDeadline, BeginDrain, DrainedInTime, DrainTimer,
                    DrainCancelled, ExpireDrain, Return
<1>8. CASE CloseResults \/ Tick \/ CancelParent \/ PropagateParent \/ Terminated \/ UNCHANGED vars
  BY <1>2, <1>8 DEF CloseResults, Tick, CancelParent, PropagateParent, Terminated, vars
<1> QED
  BY <1>3, <1>4, <1>5, <1>6, <1>7, <1>8 DEF Next, RequestStep

(* Every step keeps a closed channel closed for good reason.               *)
LEMMA QuietStep ==
  ASSUME TypeInv, QuietInv, [Next]_vars
  PROVE  QuietInv'
<1> USE DEF TypeInv, TypeOK, QuietInv, RequestsDone, Returned, AllCollected, contextVars,
            schedVars, requestVars, resultVars, Goto
<1>1. CASE UNCHANGED <<sched, pc, resultsCh, resultsClosed>>
  BY <1>1
<1>2. CASE SchedulerStep
  <2>1. CASE ArrivalDue \/ ScheduleCancelled \/ StartArrival \/ DropArrival \/ MissDeadline
    <3>1. ~resultsClosed /\ resultsClosed' = resultsClosed /\ sched' # "returned"
      BY <2>1 DEF ArrivalDue, ScheduleCancelled, StartArrival, DropArrival, MissDeadline, AfterArrival
    <3> QED
      BY <3>1
  <2>2. CASE ScheduleStopped \/ ReachDeadline
    <3>1. ~resultsClosed /\ resultsClosed' = resultsClosed /\ sched' # "returned"
      BY <2>2 DEF ScheduleStopped, ReachDeadline
    <3> QED
      BY <3>1
  <2>3. CASE BeginDrain \/ DrainedInTime \/ DrainTimer \/ DrainCancelled \/ ExpireDrain
    <3>1. UNCHANGED <<pc, resultsClosed, resultsCh>> /\ sched' \in {"draining", "expire", "await"}
      BY <2>3 DEF BeginDrain, DrainedInTime, DrainTimer, DrainCancelled, ExpireDrain
    <3> QED
      BY <3>1
  <2>4. CASE Return
    BY <2>4 DEF Return
  <2> QED
    BY <1>2, <2>1, <2>2, <2>3, <2>4 DEF SchedulerStep
<1>3. ASSUME NEW s \in Arrival, RequestStep(s) \/ RunRequest(s) PROVE QuietInv'
  <2>1. ~resultsClosed /\ UNCHANGED <<resultsClosed, sched>>
    BY <1>3 DEF RequestStep, RunRequest, ClassifyRequest, UncountRequest, ReleaseSlot, SendResult
  <2> QED
    BY <2>1
<1>4. ASSUME NEW s \in Arrival, RequestDeadline(s) PROVE QuietInv'
  BY <1>1, <1>4 DEF RequestDeadline
<1>5. CASE CollectResult
  BY <1>5 DEF CollectResult
<1>6. CASE CloseResults
  BY <1>6 DEF CloseResults
<1>7. CASE Tick \/ CancelParent \/ PropagateParent \/ Terminated \/ UNCHANGED vars
  BY <1>1, <1>7 DEF Tick, CancelParent, PropagateParent, Terminated, vars
<1> QED
  BY <1>2, <1>3, <1>4, <1>5, <1>6, <1>7 DEF Next

(* A reported parent is reported once, and leaves an error.                *)
LEMMA ParentLeavesError ==
  ASSUME TypeOK, ReportParent
  PROVE  /\ phaseErr' # "none"
         /\ phaseErr' \in {phaseErr, "parent"}
         /\ phaseErr = "drain" => phaseErr' = "drain"
BY DEF TypeOK, ReportParent, FirstCause, PhaseCause

(* Every step keeps what the scheduler's place says of its schedule.       *)
LEMMA BoundaryStep ==
  ASSUME TypeInv, FateInv, BoundaryInv, [Next]_vars
  PROVE  BoundaryInv'
<1> USE ArrivalFinite DEF TypeInv, BoundaryInv, Measured, contextVars, schedVars, requestVars,
            resultVars, Goto
<1>1. CASE /\ UNCHANGED <<phase, processed, boundary, phaseErr, sched>>
           /\ parentCancelled => parentCancelled'
           /\ now' \in {now, now + 1}
  <2>1. /\ now \in Nat /\ Duration \in Nat /\ now' >= now
        /\ now >= Duration => now' >= Duration
    BY <1>1, OpenLoopAssumption DEF TypeOK
  <2> QED
    BY <1>1, <2>1
<1>2. CASE ArrivalDue
  BY <1>2 DEF ArrivalDue
<1>3. CASE ScheduleCancelled
  BY <1>3 DEF ScheduleCancelled
<1>4. CASE StartArrival \/ DropArrival
  <2>1. /\ processed' = processed + 1 /\ processed < Requests /\ processed \in Nat
        /\ boundary' = "open"
        /\ sched' \in {"wait", "stopped"}
        /\ sched' = "stopped" => ~(processed' < Requests)
    BY <1>4 DEF TypeOK, FateInv, StartArrival, DropArrival, AfterArrival
  <2> QED
    BY <2>1
<1>5. CASE MissDeadline
  BY <1>5 DEF MissDeadline
<1>6. CASE ScheduleStopped
  <2>1. CASE parentCancelled
    BY <1>6, <2>1, ParentLeavesError DEF ScheduleStopped
  <2>2. CASE ~parentCancelled
    BY <1>6, <2>2 DEF TypeOK, ScheduleStopped
  <2> QED
    BY <2>1, <2>2
<1>7. CASE ReachDeadline
  <2>1. CASE ReportParent
    BY <1>7, <2>1, ParentLeavesError DEF ReachDeadline
  <2>2. CASE now >= Duration /\ StopAdmission("limit") /\ UNCHANGED phaseErr
    BY <1>7, <2>2 DEF ReachDeadline, StopAdmission
  <2> QED
    BY <1>7, <2>1, <2>2 DEF ReachDeadline
<1>8. CASE BeginDrain \/ DrainedInTime \/ DrainTimer \/ Return
  <2>1. /\ UNCHANGED <<phase, now, processed, boundary, phaseErr>>
        /\ sched \in {"drain", "draining", "expire", "await"}
        /\ sched' \in {"draining", "expire", "await", "returned"}
    BY <1>8 DEF BeginDrain, DrainedInTime, DrainTimer, Return
  <2> QED
    BY <2>1
<1>9. CASE DrainCancelled
  BY <1>9, ParentLeavesError DEF DrainCancelled
<1>10. CASE ExpireDrain
  BY <1>10 DEF ExpireDrain
<1>11. ASSUME NEW s \in Arrival, RequestStep(s) \/ RunRequest(s) \/ RequestDeadline(s)
       PROVE  BoundaryInv'
  BY <1>11 DEF RequestStep, RunRequest, ClassifyRequest, UncountRequest, ReleaseSlot, SendResult,
              RequestDeadline
<1>12. CASE CollectResult \/ CloseResults \/ PropagateParent
  BY <1>12 DEF CollectResult, CloseResults, PropagateParent
<1>13. CASE Tick \/ CancelParent
  <2>1. /\ UNCHANGED <<phase, processed, boundary, phaseErr, sched>>
        /\ parentCancelled => parentCancelled'
        /\ now' \in {now, now + 1}
    BY <1>13, OpenLoopAssumption DEF TypeOK, Tick, CancelParent
  <2> QED
    BY <1>1, <2>1
<1>14. CASE Terminated \/ UNCHANGED vars
  BY <1>14 DEF Terminated, vars
<1> QED
  BY <1>2, <1>3, <1>4, <1>5, <1>6, <1>7, <1>8, <1>9, <1>10, <1>11, <1>12, <1>13, <1>14
     DEF Next, SchedulerStep

(* A cancelled phase has a cause, and keeps the first one.                 *)
LEMMA CancelGivesCause ==
  ASSUME TypeOK, NEW cause \in {"parent", "drain"}, CancelPhase(cause)
  PROVE  /\ phaseCause' = IF phaseCause = "none" THEN cause ELSE phaseCause
         /\ phaseCause' # "none"
         /\ \A s \in Arrival : requestCause'[s] \in {requestCause[s], phaseCause'}
BY DEF TypeOK, CancelPhase, FirstCause, PhaseCause

(* Nothing in flight is nothing live.                                      *)
LEMMA NoneOutstanding ==
  ASSUME TypeInv, ~Outstanding
  PROVE  \A s \in Arrival : ~Live(s)
<1>1. IsFiniteSet(Counted) /\ Cardinality(Counted) \in Nat
  BY ArrivalsFinite DEF Counted
<1>2. Cardinality(Counted) = 0
  BY <1>1 DEF TypeInv, CountInv, Outstanding
<1>3. Counted = {}
  BY <1>1, <1>2, FS_EmptySet
<1> QED
  BY <1>3 DEF Counted, IsCounted, Live

(* Every step keeps the source of the error, and leaves nobody running.    *)
LEMMA ErrorStep ==
  ASSUME TypeInv, QuietInv, ErrorInv, [Next]_vars
  PROVE  ErrorInv'
<1> USE DEF TypeInv, ErrorInv, Measured, Live, contextVars, schedVars, requestVars,
            resultVars, Goto
<1>1. CASE /\ UNCHANGED <<phase, phaseErr, sched, phaseCause, pc>>
           /\ parentCancelled => parentCancelled'
  BY <1>1
<1>2. CASE ArrivalDue \/ ScheduleCancelled \/ StartArrival \/ DropArrival \/ MissDeadline
  <2>1. /\ UNCHANGED <<phaseErr, phaseCause, parentCancelled>>
        /\ sched' \in {"admit", "wait", "stopped"}
    BY <1>2 DEF ArrivalDue, ScheduleCancelled, StartArrival, DropArrival, MissDeadline, AfterArrival
  <2> QED
    BY <2>1
<1>3. CASE ScheduleStopped \/ ReachDeadline
  <2>1. /\ UNCHANGED <<phaseCause, parentCancelled>>
        /\ sched' \in {"deadline", "drain"}
        /\ (parentCancelled /\ ReportParent) \/ phaseErr' = phaseErr
    BY <1>3 DEF ScheduleStopped, ReachDeadline
  <2> QED
    BY <2>1, ParentLeavesError
<1>4. CASE BeginDrain \/ DrainedInTime \/ DrainTimer
  <2>1. /\ UNCHANGED <<phase, phaseErr, phaseCause, parentCancelled, pc>>
        /\ sched' \in {"await", "draining", "expire"}
        /\ sched' = "await" => ~Measured \/ phaseErr # "none" \/ ~Outstanding \/ resultsClosed
    BY <1>4 DEF BeginDrain, DrainedInTime, DrainTimer
  <2>2. resultsClosed => \A s \in Arrival : ~Live(s)
    BY DEF QuietInv, RequestsDone
  <2>3. phaseErr # "none" => phaseCause # "none" \/ parentCancelled
    BY DEF TypeOK, PhaseCause
  <2> QED
    BY <2>1, <2>2, <2>3, NoneOutstanding
<1>5. CASE DrainCancelled
  <2>1. /\ UNCHANGED <<phaseCause, parentCancelled, pc>> /\ parentCancelled
        /\ phaseErr' \in {phaseErr, "parent"}
    BY <1>5, ParentLeavesError DEF DrainCancelled
  <2> QED
    BY <2>1
<1>6. CASE ExpireDrain
  <2>1. phaseCause' # "none" /\ phaseErr' = "drain"
    BY <1>6, CancelGivesCause DEF ExpireDrain
  <2> QED
    BY <2>1
<1>7. CASE Return
  BY <1>7 DEF Return
<1>8. ASSUME NEW s \in Arrival, RequestStep(s) \/ RunRequest(s) PROVE ErrorInv'
  <2>1. /\ UNCHANGED <<phase, phaseErr, sched, phaseCause, parentCancelled>>
        /\ \A a \in Arrival : Live(a)' => Live(a)
    BY <1>8 DEF TypeOK, RequestStep, RunRequest, ClassifyRequest, UncountRequest, ReleaseSlot,
                SendResult
  <2> QED
    BY <2>1
<1>9. ASSUME NEW s \in Arrival, RequestDeadline(s) PROVE ErrorInv'
  BY <1>1, <1>9 DEF RequestDeadline
<1>10. CASE PropagateParent
  BY <1>10, CancelGivesCause DEF PropagateParent
<1>11. CASE CollectResult \/ CloseResults \/ Tick \/ CancelParent
  BY <1>1, <1>11 DEF CollectResult, CloseResults, Tick, CancelParent
<1>12. CASE Terminated \/ UNCHANGED vars
  BY <1>1, <1>12 DEF Terminated, vars
<1> QED
  BY <1>2, <1>3, <1>4, <1>5, <1>6, <1>7, <1>8, <1>9, <1>10, <1>11, <1>12
     DEF Next, SchedulerStep

(* Every step keeps the drain timeout within the contexts.                 *)
LEMMA CauseStep ==
  ASSUME TypeInv, FateInv, CauseInv, [Next]_vars
  PROVE  CauseInv'
<1> USE DEF TypeInv, CauseInv, contextVars, schedVars, requestVars, resultVars
<1>1. CASE /\ UNCHANGED <<phaseCause, requestCause, result>>
           /\ phaseErr = "drain" => phaseErr' = "drain"
  BY <1>1
<1>2. CASE StartArrival
  <2>1. /\ UNCHANGED <<phaseCause, result, phaseErr>>
        /\ \A a \in Arrival : requestCause'[a] \in {requestCause[a], phaseCause}
    BY <1>2 DEF TypeOK, StartArrival
  <2> QED
    BY <2>1
<1>3. CASE ScheduleStopped \/ ReachDeadline \/ DrainCancelled
  <2>1. /\ UNCHANGED <<phaseCause, requestCause, result>>
        /\ ReportParent \/ phaseErr' = phaseErr
    BY <1>3 DEF ScheduleStopped, ReachDeadline, DrainCancelled
  <2> QED
    BY <1>1, <2>1, ParentLeavesError
<1>4. CASE ExpireDrain
  BY <1>4 DEF ExpireDrain
<1>5. CASE PropagateParent
  BY <1>5, CancelGivesCause DEF PropagateParent
<1>6. CASE SchedulerStep /\ ~StartArrival /\ ~ScheduleStopped /\ ~ReachDeadline
           /\ ~DrainCancelled /\ ~ExpireDrain
  BY <1>1, <1>6 DEF SchedulerStep, ArrivalDue, ScheduleCancelled, DropArrival, MissDeadline,
                    BeginDrain, DrainedInTime, DrainTimer, Return
<1>7. ASSUME NEW s \in Arrival, RunRequest(s) PROVE CauseInv'
  <2>1. /\ UNCHANGED <<phaseCause, requestCause, phaseErr>>
        /\ \A a \in Arrival : result'[a] = result[a] \/ result'[a] # "drain_timeout"
    BY <1>7 DEF TypeOK, RunRequest, ResponseErr
  <2> QED
    BY <2>1
<1>8. ASSUME NEW s \in Arrival, ClassifyRequest(s) PROVE CauseInv'
  <2>1. /\ UNCHANGED <<phaseCause, phaseErr>>
        /\ \A a \in Arrival : requestCause'[a] \in {requestCause[a], "none"}
        /\ \A a \in Arrival : result'[a] = result[a] \/ result'[a] # "drain_timeout"
                               \/ requestCause[s] = "drain"
    BY <1>8 DEF TypeOK, ClassifyRequest, OutcomeOf
  <2> QED
    BY <2>1
<1>9. ASSUME NEW s \in Arrival, UncountRequest(s) \/ ReleaseSlot(s) \/ SendResult(s)
      PROVE  CauseInv'
  BY <1>1, <1>9 DEF UncountRequest, ReleaseSlot, SendResult
<1>10. ASSUME NEW s \in Arrival, RequestDeadline(s) PROVE CauseInv'
  BY <1>10 DEF TypeOK, RequestDeadline
<1>11. CASE CollectResult \/ CloseResults \/ Tick \/ CancelParent \/ Terminated \/ UNCHANGED vars
  BY <1>1, <1>11 DEF CollectResult, CloseResults, Tick, CancelParent, Terminated, vars
<1> QED
  BY <1>2, <1>3, <1>4, <1>5, <1>6, <1>7, <1>8, <1>9, <1>10, <1>11
     DEF Next, SchedulerStep, RequestStep

(***************************************************************************)
(* The invariant, and what follows from it                                 *)
(***************************************************************************)

(* The invariant holds of every behaviour.                                 *)
THEOREM PhaseInvariant == Spec => []PhaseInv
<1>1. PhaseInv /\ [Next]_vars => PhaseInv'
  BY TypeOKStep, CountStep, FateStep, DeliveryStep, QuietStep, BoundaryStep, ErrorStep, CauseStep
     DEF PhaseInv, TypeInv
<1> QED
  BY InitPhaseInv, <1>1, PTL DEF Spec

(* Every variable keeps to its range: no more slots are taken than there   *)
(* are, and no more results wait than fit the channel.                     *)
THEOREM TypeCorrect == Spec => []TypeOK
<1>1. PhaseInv => TypeOK
  BY DEF PhaseInv, TypeInv
<1> QED
  BY PhaseInvariant, <1>1, PTL

(* The in-flight bound holds for every capacity, and the count that the    *)
(* drain consults never misses a live request (lifecycle.go:628).          *)
THEOREM InFlightCorrect == Spec => []InFlightBounded
<1>1. PhaseInv => InFlightBounded
  <2> SUFFICES ASSUME PhaseInv PROVE InFlightBounded
    OBVIOUS
  <2> DEFINE Running == {s \in Arrival : Live(s)}
  <2>1. Running \subseteq Counted
    BY DEF Live, Counted, IsCounted
  <2>2. Cardinality(Running) <= Cardinality(Counted)
    BY <2>1, ArrivalsFinite, FS_Subset DEF Counted
  <2>3. /\ semaphore = Cardinality(Holders) /\ active = Cardinality(Counted)
        /\ maxActive <= Cardinality(With("started")) /\ semaphore <= MaxInFlight
    BY OpenLoopAssumption DEF PhaseInv, TypeInv, TypeOK, CountInv
  <2>4. Cardinality(Counted) <= Cardinality(Holders)
    BY CountedHold DEF PhaseInv, TypeInv
  <2>5. Cardinality(Counted) \in Nat /\ Cardinality(Running) \in Nat
    BY ArrivalsFinite DEF Counted
  <2> QED
    BY <2>2, <2>3, <2>4, <2>5 DEF InFlightBounded, Holders
<1> QED
  BY PhaseInvariant, <1>1, PTL

(* What has returned is quiet, and its results are all collected.          *)
LEMMA ReturnedIsQuiet ==
  ASSUME PhaseInv, Returned
  PROVE  DrainedOnReturn /\ collected = With("started")
<1>1. RequestsDone /\ resultsCh = <<>>
  BY DEF PhaseInv, QuietInv, AllCollected
<1>2. InChannel = {}
  BY <1>1 DEF InChannel
<1>3. collected = {s \in Arrival : pc[s] = "done"}
  BY <1>2 DEF PhaseInv, DeliveryInv
<1>4. collected = With("started")
  BY <1>1, <1>3 DEF RequestsDone, PhaseInv, TypeInv, StartInv, With
<1>5. Holders = {} /\ Counted = {}
  BY <1>1 DEF RequestsDone, Holders, InFlight, Counted, IsCounted
<1>6. semaphore = 0 /\ active = 0
  BY <1>5, FS_EmptySet DEF PhaseInv, TypeInv, CountInv
<1> QED
  BY <1>1, <1>4, <1>6 DEF DrainedOnReturn, RequestsDone

(* Two finite sets without a common member                                 *)
LEMMA DisjointUnion ==
  ASSUME NEW S, NEW T, IsFiniteSet(S), IsFiniteSet(T), S \cap T = {}
  PROVE  /\ IsFiniteSet(S \cup T)
         /\ Cardinality(S \cup T) = Cardinality(S) + Cardinality(T)
<1>1. /\ IsFiniteSet(S \cup T)
      /\ Cardinality(S \cup T) = Cardinality(S) + Cardinality(T) - Cardinality(S \cap T)
  BY FS_Union
<1>2. Cardinality(S \cap T) = 0
  BY FS_EmptySet
<1>3. Cardinality(S) \in Nat /\ Cardinality(T) \in Nat
  BY FS_CardinalityType
<1> QED
  BY <1>1, <1>2, <1>3

(* The fates of the processed arrivals add up to their number.             *)
LEMMA FatesAddUp ==
  ASSUME TypeOK, FateInv
  PROVE  Cardinality(With("started")) + Cardinality(With("client_limited"))
           + Cardinality(With("scheduler_limited")) = processed
<1> DEFINE A == With("started")
           B == With("client_limited")
           C == With("scheduler_limited")
<1>1. processed \in 0 .. Requests /\ Requests \in Nat
  BY ArrivalFinite DEF TypeOK
<1>2. (A \cup B) \cup C = 1 .. processed
  <2>1. \A s \in Arrival : disposition[s] \in {"started", "client_limited", "scheduler_limited"}
                           <=> ~(processed < s)
    BY DEF TypeOK, FateInv, Disposition
  <2>2. 1 .. processed = {s \in Arrival : ~(processed < s)}
    BY <1>1 DEF Arrival
  <2> QED
    BY <2>1, <2>2 DEF With
<1>3. A \cap B = {} /\ (A \cup B) \cap C = {}
  BY DEF With
<1>4. /\ IsFiniteSet(A) /\ IsFiniteSet(B) /\ IsFiniteSet(C)
      /\ Cardinality(A) \in Nat /\ Cardinality(B) \in Nat /\ Cardinality(C) \in Nat
  BY ArrivalsFinite DEF With
<1> HIDE DEF A, B, C
<1>5. IsFiniteSet(A \cup B) /\ Cardinality(A \cup B) = Cardinality(A) + Cardinality(B)
  BY <1>3, <1>4, DisjointUnion
<1>6. Cardinality((A \cup B) \cup C) = Cardinality(A \cup B) + Cardinality(C)
  BY <1>3, <1>4, <1>5, DisjointUnion
<1>7. Cardinality(1 .. processed) = processed
  BY <1>1, FS_Interval
<1> QED
  BY <1>2, <1>4, <1>5, <1>6, <1>7 DEF A, B, C

(* Every arrival has one fate and the counts add up, for every schedule    *)
(* and every capacity (artifacts/writer.go:628).                           *)
THEOREM ArrivalsAccountedCorrect == Spec => []ArrivalsAccounted
<1>1. PhaseInv => ArrivalsAccounted
  <2> SUFFICES ASSUME PhaseInv PROVE ArrivalsAccounted
    OBVIOUS
  <2>1. LostArrivalsAreSuffix
    BY DEF PhaseInv, FateInv
  <2>2. CleanReturnIsComplete
    BY DEF PhaseInv, BoundaryInv, CleanReturnIsComplete, Returned
  <2>3. ASSUME Returned
        PROVE  /\ collected = With("started")
               /\ LET c == ArrivalCounts IN
                  c.planned = c.started + c.client_limited + c.scheduler_limited + c.unprocessed
    <3>1. collected = With("started")
      BY <2>3, ReturnedIsQuiet
    <3>2. Cardinality(With("started")) + Cardinality(With("client_limited"))
            + Cardinality(With("scheduler_limited")) = processed
      BY FatesAddUp DEF PhaseInv, TypeInv
    <3>3. processed \in Nat /\ Requests \in Nat
      BY ArrivalFinite DEF PhaseInv, TypeInv, TypeOK
    <3> QED
      BY <3>1, <3>2, <3>3 DEF ArrivalCounts
  <2> QED
    BY <2>1, <2>2, <2>3 DEF ArrivalsAccounted
<1> QED
  BY PhaseInvariant, <1>1, PTL

(* However a measured drain ends, no request is left to run on, and the    *)
(* drain timeout is reported (lifecycle.go:624-653).                       *)
THEOREM DrainEndsCorrect == Spec => []DrainEndsRequests
<1>1. PhaseInv => DrainEndsRequests
  <2> SUFFICES ASSUME PhaseInv PROVE DrainEndsRequests
    OBVIOUS
  <2>1. Measured /\ sched \in {"await", "returned"} =>
          \A s \in Arrival : Live(s) => phaseCause # "none" \/ parentCancelled
    BY DEF PhaseInv, ErrorInv
  <2>2. DrainedOnReturn
    BY ReturnedIsQuiet DEF DrainedOnReturn
  <2>3. DrainTimeoutReported
    BY DEF PhaseInv, TypeInv, TypeOK, CauseInv, DrainTimeoutReported, Outcomes
  <2> QED
    BY <2>1, <2>2, <2>3 DEF DrainEndsRequests
<1> QED
  BY PhaseInvariant, <1>1, PTL


(***************************************************************************)
(* The contract                                                            *)
(*                                                                         *)
(* An open-loop phase implements PhaseContract, what a phase promises the  *)
(* lifecycle, for every schedule, every capacity and every timing: its     *)
(* initial states are initial states of the contract, and each of its      *)
(* steps is a step of the contract or invisible to it.                     *)
(***************************************************************************)

(* What the contract asks of an outcome and of an error, besides PhaseInv  *)
ResultInv ==
  /\ \A s \in Arrival : pc[s] \in {"uncount", "release", "send", "done"} => result[s] \in Outcome
  /\ \A s \in Arrival : result[s] = "parent_cancelled" => parentCancelled

VerdictInv ==
  /\ sched = "deadline" => Measured
  /\ sched \in {"draining", "expire"} => Measured /\ phaseErr = "none"
  /\ phaseErr = "drain" => Measured /\ boundary # "open"
  /\ phaseErr = "parent" => parentReported /\ boundary # "open"
  /\ parentReported => phaseErr # "none"

ContractInv == PhaseInv /\ ResultInv /\ VerdictInv

(* The phase starts in a state of the invariant.                           *)
LEMMA InitContractInv == Init => ContractInv
<1> SUFFICES ASSUME Init PROVE ContractInv
  OBVIOUS
<1>1. ResultInv /\ VerdictInv
  BY DEF Init, ResultInv, VerdictInv
<1> QED
  BY <1>1, InitPhaseInv DEF ContractInv

(* A request is given an outcome before it leaves the count, and is called *)
(* parent_cancelled only if the parent is.                                 *)
LEMMA ResultStep ==
  ASSUME TypeInv, FateInv, ResultInv, [Next]_vars
  PROVE  ResultInv'
<1> USE DEF TypeInv, ResultInv, contextVars, schedVars, requestVars, resultVars
<1>1. CASE UNCHANGED <<pc, result>> /\ (parentCancelled => parentCancelled')
  BY <1>1
<1>2. CASE StartArrival
  <2>1. processed + 1 \in Arrival
    BY <1>2, StartCounts
  <2>2. UNCHANGED <<result, parentCancelled>>
        /\ \A a \in Arrival : pc'[a] \in {pc[a], "run"}
    BY <1>2, <2>1 DEF TypeOK, StartArrival
  <2> QED
    BY <2>2
<1>3. ASSUME NEW s \in Arrival, RunRequest(s) PROVE ResultInv'
  <2>1. /\ UNCHANGED parentCancelled
        /\ pc'[s] = "classify" /\ result'[s] # "parent_cancelled"
        /\ \A a \in Arrival \ {s} : pc'[a] = pc[a] /\ result'[a] = result[a]
    BY <1>3 DEF TypeOK, RunRequest, ResponseErr
  <2> QED
    BY <2>1
<1>4. ASSUME NEW s \in Arrival, ClassifyRequest(s) PROVE ResultInv'
  <2>1. /\ UNCHANGED parentCancelled
        /\ result'[s] \in Outcome
        /\ result'[s] = "parent_cancelled" => parentCancelled
        /\ \A a \in Arrival \ {s} : pc'[a] = pc[a] /\ result'[a] = result[a]
    BY <1>4 DEF TypeOK, ClassifyRequest, OutcomeOf, Outcome
  <2> QED
    BY <2>1
<1>5. ASSUME NEW s \in Arrival, UncountRequest(s) \/ ReleaseSlot(s) \/ SendResult(s)
      PROVE  ResultInv'
  BY <1>5 DEF TypeOK, UncountRequest, ReleaseSlot, SendResult
<1>6. ASSUME NEW s \in Arrival, RequestDeadline(s) PROVE ResultInv'
  BY <1>1, <1>6 DEF RequestDeadline
<1>7. CASE SchedulerStep /\ ~StartArrival
  BY <1>1, <1>7 DEF SchedulerStep, ArrivalDue, ScheduleCancelled, DropArrival, MissDeadline,
                    ScheduleStopped, ReachDeadline, BeginDrain, DrainedInTime, DrainTimer,
                    DrainCancelled, ExpireDrain, Return
<1>8. CASE CollectResult \/ CloseResults \/ Tick \/ CancelParent \/ PropagateParent
  BY <1>1, <1>8 DEF CollectResult, CloseResults, Tick, CancelParent, PropagateParent
<1>9. CASE Terminated \/ UNCHANGED vars
  BY <1>1, <1>9 DEF Terminated, vars
<1> QED
  BY <1>2, <1>3, <1>4, <1>5, <1>6, <1>7, <1>8, <1>9 DEF Next, RequestStep

(* What a report of the parent leaves behind                               *)
LEMMA ReportLeaves ==
  ASSUME TypeOK, ReportParent
  PROVE  /\ parentReported' = TRUE
         /\ boundary' = IF boundary = "open" THEN "parent" ELSE boundary
         /\ boundary' # "open"
         /\ phaseErr' = IF phaseErr = "none" THEN "parent" ELSE phaseErr
BY DEF TypeOK, ReportParent, StopAdmission, FirstCause

(* A drain timeout needs a boundary, a parent's error a report.            *)
LEMMA VerdictStep ==
  ASSUME TypeInv, BoundaryInv, VerdictInv, [Next]_vars
  PROVE  VerdictInv'
<1> USE DEF TypeInv, VerdictInv, Measured, contextVars, schedVars, requestVars, resultVars, Goto
<1>1. CASE UNCHANGED <<phase, sched, phaseErr, boundary, parentReported>>
  BY <1>1
<1>2. CASE ArrivalDue \/ ScheduleCancelled \/ StartArrival \/ DropArrival \/ MissDeadline
  <2>1. UNCHANGED <<phase, phaseErr, boundary, parentReported>>
        /\ sched' \in {"admit", "wait", "stopped"}
    BY <1>2 DEF ArrivalDue, ScheduleCancelled, StartArrival, DropArrival, MissDeadline, AfterArrival
  <2> QED
    BY <2>1
<1>3. CASE ScheduleStopped \/ ReachDeadline
  <2>1. /\ phase' = phase /\ sched' \in {"deadline", "drain"}
        /\ sched' = "deadline" => Measured
        /\ \/ ReportParent
           \/ /\ UNCHANGED <<phaseErr, parentReported>>
              /\ boundary' = boundary \/ StopAdmission("limit")
    BY <1>3 DEF ScheduleStopped, ReachDeadline
  <2>2. CASE ReportParent
    <3>1. /\ boundary' # "open" /\ phaseErr' # "none" /\ parentReported' = TRUE
          /\ phaseErr' \in {phaseErr, "parent"}
      BY <2>2, ReportLeaves
    <3> QED
      BY <2>1, <3>1
  <2>3. CASE UNCHANGED <<phaseErr, parentReported>> /\ (boundary' = boundary \/ StopAdmission("limit"))
    <3>1. boundary # "open" => boundary' # "open"
      BY <2>3 DEF StopAdmission
    <3> QED
      BY <2>1, <2>3, <3>1
  <2> QED
    BY <2>1, <2>2, <2>3
<1>4. CASE BeginDrain \/ DrainedInTime \/ DrainTimer \/ Return
  <2>1. /\ UNCHANGED <<phase, phaseErr, boundary, parentReported>>
        /\ sched' # "deadline"
        /\ sched' \in {"draining", "expire"} => Measured /\ phaseErr = "none"
    BY <1>4 DEF BeginDrain, DrainedInTime, DrainTimer, Return
  <2> QED
    BY <2>1
<1>5. CASE DrainCancelled
  <2>1. phase' = phase /\ sched' = "await" /\ ReportParent
    BY <1>5 DEF DrainCancelled
  <2> QED
    BY <2>1, ReportLeaves
<1>6. CASE ExpireDrain
  <2>1. UNCHANGED <<phase, boundary, parentReported>> /\ phaseErr' = "drain" /\ sched' = "await"
    BY <1>6 DEF ExpireDrain
  <2>2. Measured /\ boundary = "limit"
    BY <1>6 DEF ExpireDrain, BoundaryInv
  <2> QED
    BY <2>1, <2>2
<1>7. ASSUME NEW s \in Arrival, RequestStep(s) \/ RunRequest(s) \/ RequestDeadline(s)
      PROVE  VerdictInv'
  BY <1>1, <1>7 DEF RequestStep, RunRequest, ClassifyRequest, UncountRequest, ReleaseSlot,
                    SendResult, RequestDeadline
<1>8. CASE CollectResult \/ CloseResults \/ Tick \/ CancelParent \/ PropagateParent
  BY <1>1, <1>8 DEF CollectResult, CloseResults, Tick, CancelParent, PropagateParent
<1>9. CASE Terminated \/ UNCHANGED vars
  BY <1>1, <1>9 DEF Terminated, vars
<1> QED
  BY <1>2, <1>3, <1>4, <1>5, <1>6, <1>7, <1>8, <1>9 DEF Next, SchedulerStep

(* The strengthened invariant holds of every behaviour.                    *)
THEOREM ContractInvariant == Spec => []ContractInv
<1>1. ContractInv /\ [Next]_vars => ContractInv'
  <2> SUFFICES ASSUME ContractInv, [Next]_vars PROVE ContractInv'
    OBVIOUS
  <2>1. PhaseInv'
    BY TypeOKStep, CountStep, FateStep, DeliveryStep, QuietStep, BoundaryStep, ErrorStep, CauseStep
       DEF ContractInv, PhaseInv, TypeInv
  <2> QED
    BY <2>1, ResultStep, VerdictStep DEF ContractInv, PhaseInv
<1> QED
  BY InitContractInv, <1>1, PTL DEF Spec

(***************************************************************************)
(* What the contract sees                                                  *)
(***************************************************************************)

SeenStatus  == [s \in Arrival |-> StatusOf(s)]
SeenVerdict == IF Returned THEN phaseErr ELSE "running"

(* The status of an arrival, by its fate                                   *)
LEMMA StatusCases ==
  ASSUME NEW s \in Arrival
  PROVE  /\ disposition[s] = "pending" => StatusOf(s) = "pending"
         /\ disposition[s] \in {"client_limited", "scheduler_limited"} => StatusOf(s) = "dropped"
         /\ disposition[s] = "started" /\ s \in collected => StatusOf(s) = result[s]
         /\ disposition[s] = "started" /\ s \notin collected => StatusOf(s) = "admitted"
BY DEF StatusOf

(* The same after a step                                                   *)
LEMMA NextStatusCases ==
  ASSUME NEW s \in Arrival
  PROVE  /\ disposition'[s] = "pending" => StatusOf(s)' = "pending"
         /\ disposition'[s] \in {"client_limited", "scheduler_limited"} => StatusOf(s)' = "dropped"
         /\ disposition'[s] = "started" /\ s \in collected' => StatusOf(s)' = result'[s]
         /\ disposition'[s] = "started" /\ s \notin collected' => StatusOf(s)' = "admitted"
BY DEF StatusOf

(* A step that touches nothing the contract sees                           *)
LEMMA Unseen ==
  ASSUME UNCHANGED <<phase, parentCancelled, boundary, parentReported, SeenVerdict>>,
         \A s \in Arrival : StatusOf(s)' = StatusOf(s)
  PROVE  UNCHANGED Contract!vars
<1>1. SeenStatus' = SeenStatus
  BY DEF SeenStatus, Arrival
<1> QED
  BY <1>1 DEF Contract!vars, Measured, SeenStatus, SeenVerdict

(* The phase starts where the contract starts.                             *)
LEMMA InitRefines == Init => Contract!Init
<1> SUFFICES ASSUME Init PROVE Contract!Init
  OBVIOUS
<1>1. \A s \in Arrival : StatusOf(s) = "pending"
  BY StatusCases DEF Init
<1>2. SeenStatus = [s \in 1 .. Requests |-> "pending"]
  BY <1>1 DEF SeenStatus, Arrival
<1>3. [measured |-> Measured, openLoop |-> TRUE] \in [measured : BOOLEAN, openLoop : BOOLEAN]
  BY DEF Measured
<1>4. parentCancelled \in BOOLEAN /\ boundary = "open" /\ parentReported = FALSE /\ ~Returned
  BY DEF Init, Returned
<1> QED
  BY <1>2, <1>3, <1>4 DEF Contract!Init, SeenStatus

(***************************************************************************)
(* Every step is one of the contract's, or unseen                          *)
(***************************************************************************)

(* In a state of the invariant an arrival is collected when it is done.    *)
LEMMA CollectedIsDone ==
  ASSUME PhaseInv, NEW s \in collected
  PROVE  s \in Arrival /\ pc[s] = "done" /\ disposition[s] = "started"
BY DEF PhaseInv, TypeInv, TypeOK, DeliveryInv, StartInv

(* The parent's cancellation, the clock and the contexts                   *)
LEMMA EnvironmentRefines ==
  ASSUME ContractInv, Tick \/ CancelParent \/ PropagateParent \/ Terminated \/ UNCHANGED vars
  PROVE  [Contract!Next]_Contract!vars
<1> USE DEF contextVars, schedVars, requestVars, resultVars
<1>1. CASE Tick \/ PropagateParent \/ Terminated \/ UNCHANGED vars
  <2>1. UNCHANGED <<phase, parentCancelled, boundary, parentReported, phaseErr, sched,
                    disposition, collected, result>>
    BY <1>1 DEF Tick, PropagateParent, Terminated, vars
  <2> QED
    BY <2>1, Unseen DEF SeenVerdict, Returned, StatusOf
<1>2. CASE CancelParent
  <2>1. /\ parentCancelled' = TRUE
        /\ UNCHANGED <<phase, boundary, parentReported, phaseErr, sched, disposition,
                       collected, result>>
    BY <1>2 DEF CancelParent
  <2>2. SeenStatus' = SeenStatus /\ Measured' = Measured /\ SeenVerdict' = SeenVerdict
    BY <2>1 DEF SeenStatus, StatusOf, Measured, SeenVerdict, Returned
  <2>3. Contract!CancelParent
    BY <2>1, <2>2 DEF Contract!CancelParent, SeenStatus, SeenVerdict
  <2> QED
    BY <2>3 DEF Contract!Next
<1> QED
  BY <1>1, <1>2

(* Requests run unseen until their results are collected.                  *)
LEMMA RequestRefines ==
  ASSUME ContractInv,
         \/ \E s \in Arrival : RequestStep(s) \/ RunRequest(s) \/ RequestDeadline(s)
         \/ CloseResults
  PROVE  UNCHANGED Contract!vars
<1> USE DEF contextVars, schedVars, requestVars, resultVars
<1>1. CASE CloseResults
  <2>1. UNCHANGED <<phase, parentCancelled, boundary, parentReported, phaseErr, sched,
                    disposition, collected, result>>
    BY <1>1 DEF CloseResults
  <2> QED
    BY <2>1, Unseen DEF SeenVerdict, Returned, StatusOf
<1>2. ASSUME NEW s \in Arrival, RequestStep(s) \/ RunRequest(s) \/ RequestDeadline(s)
      PROVE  UNCHANGED Contract!vars
  <2>1. /\ UNCHANGED <<phase, parentCancelled, boundary, parentReported, phaseErr, sched,
                       disposition, collected>>
        /\ \A a \in Arrival : pc[a] = "done" => result'[a] = result[a]
    BY <1>2 DEF ContractInv, PhaseInv, TypeInv, TypeOK, RequestStep, RunRequest, ClassifyRequest,
                UncountRequest, ReleaseSlot, SendResult, RequestDeadline
  <2>2. \A a \in collected : result'[a] = result[a]
    BY <2>1, CollectedIsDone DEF ContractInv
  <2>3. ASSUME NEW a \in Arrival PROVE StatusOf(a)' = StatusOf(a)
    <3>1. disposition[a] \in {"pending", "started", "client_limited", "scheduler_limited"}
      BY DEF ContractInv, PhaseInv, TypeInv, TypeOK, Disposition
    <3> QED
      BY <2>1, <2>2, <3>1, StatusCases, NextStatusCases
  <2> QED
    BY <2>1, <2>3, Unseen DEF SeenVerdict, Returned
<1> QED
  BY <1>1, <1>2

(* A result is collected: the contract's request finishes.                 *)
LEMMA CollectRefines ==
  ASSUME ContractInv, CollectResult
  PROVE  [Contract!Next]_Contract!vars
<1> USE DEF contextVars, schedVars, requestVars, resultVars
<1>1. resultsCh \in Seq(Arrival) /\ resultsCh # <<>>
  BY DEF ContractInv, PhaseInv, TypeInv, TypeOK, CollectResult
<1>2. PICK s \in InChannel : s = Head(resultsCh) /\ s \in Arrival
  <2>1. /\ Len(resultsCh) \in Nat /\ Len(resultsCh) >= 1
        /\ Head(resultsCh) = resultsCh[1] /\ Head(resultsCh) \in Arrival
    BY <1>1, HeadTailProperties
  <2> QED
    BY <2>1 DEF InChannel
<1>3. /\ pc[s] = "done" /\ disposition[s] = "started" /\ result[s] \in Outcome
      /\ result[s] = "parent_cancelled" => parentCancelled
      /\ result[s] = "drain_timeout" => Measured /\ boundary # "open"
  BY <1>2 DEF ContractInv, PhaseInv, TypeInv, StartInv, DeliveryInv, CauseInv, ResultInv, VerdictInv
<1>4. /\ collected' = collected \cup {s}
      /\ UNCHANGED <<phase, parentCancelled, boundary, parentReported, phaseErr, sched,
                     disposition, result>>
  BY <1>2 DEF CollectResult
<1>5. ~Returned
  BY <1>1 DEF ContractInv, PhaseInv, QuietInv, AllCollected, CollectResult
<1>6. /\ SeenVerdict = "running" /\ SeenVerdict' = "running" /\ Measured' = Measured
  BY <1>4, <1>5 DEF SeenVerdict, Returned, Measured
<1>7. CASE s \in collected
  <2>1. collected' = collected
    BY <1>4, <1>7
  <2> QED
    BY <1>4, <1>6, <2>1, Unseen DEF StatusOf
<1>8. CASE s \notin collected
  <2>1. StatusOf(s) = "admitted" /\ StatusOf(s)' = result[s]
    BY <1>2, <1>3, <1>4, <1>8, StatusCases, NextStatusCases
  <2>2. ASSUME NEW a \in Arrival, a # s PROVE StatusOf(a)' = StatusOf(a)
    <3>1. /\ a \in collected' <=> a \in collected
          /\ UNCHANGED <<disposition, result>>
      BY <1>4, <2>2
    <3>2. disposition[a] \in {"pending", "started", "client_limited", "scheduler_limited"}
      BY DEF ContractInv, PhaseInv, TypeInv, TypeOK, Disposition
    <3> QED
      BY <3>1, <3>2, StatusCases, NextStatusCases
  <2>3. SeenStatus' = [SeenStatus EXCEPT ![s] = result[s]] /\ SeenStatus[s] = "admitted"
    BY <1>2, <2>1, <2>2 DEF SeenStatus
  <2>4. Contract!Finish(s, result[s])
    BY <1>3, <1>4, <1>6, <2>3 DEF Contract!Finish, SeenStatus, SeenVerdict, Measured
  <2>5. s \in 1 .. Requests /\ result[s] \in Contract!Outcome
    BY <1>2, <1>3 DEF Arrival, Outcome, Contract!Outcome
  <2> QED
    BY <2>4, <2>5 DEF Contract!Next
<1> QED
  BY <1>7, <1>8

(***************************************************************************)
(* The scheduler                                                           *)
(***************************************************************************)

(* Waiting and draining are unseen.                                        *)
LEMMA WaitRefines ==
  ASSUME ContractInv,
         \/ ArrivalDue \/ ScheduleCancelled \/ BeginDrain \/ DrainedInTime \/ DrainTimer
         \/ ExpireDrain
  PROVE  UNCHANGED Contract!vars
<1> USE DEF contextVars, schedVars, requestVars, resultVars, Goto
<1>1. /\ UNCHANGED <<phase, parentCancelled, boundary, parentReported, disposition, collected, result>>
      /\ sched # "returned" /\ sched' # "returned"
  <2>1. CASE ArrivalDue \/ ScheduleCancelled
    BY <2>1 DEF ArrivalDue, ScheduleCancelled
  <2>2. CASE BeginDrain \/ DrainedInTime \/ DrainTimer
    BY <2>2 DEF BeginDrain, DrainedInTime, DrainTimer
  <2>3. CASE ExpireDrain
    BY <2>3 DEF ExpireDrain
  <2> QED
    BY <2>1, <2>2, <2>3
<1> QED
  BY <1>1, Unseen DEF SeenVerdict, Returned, StatusOf

(* The arrival the scheduler is about to decide on is pending.             *)
LEMMA ArrivalPending ==
  ASSUME ContractInv, sched = "admit"
  PROVE  LET s == processed + 1 IN
         /\ s \in Arrival /\ disposition[s] = "pending" /\ StatusOf(s) = "pending"
         /\ s \notin collected
<1>1. processed + 1 \in Arrival /\ disposition[processed + 1] = "pending"
  BY ArrivalFinite DEF ContractInv, PhaseInv, TypeInv, TypeOK, FateInv, Arrival
<1>2. processed + 1 \notin collected
  BY <1>1, CollectedIsDone DEF ContractInv
<1> QED
  BY <1>1, <1>2, StatusCases

(* A slot: the contract admits the request.                                *)
LEMMA StartRefines ==
  ASSUME ContractInv, StartArrival
  PROVE  Contract!Next
<1> USE DEF contextVars, schedVars, requestVars, resultVars, Goto
<1>1. PICK s \in Arrival : s = processed + 1 /\ StatusOf(s) = "pending" /\ s \notin collected
  BY ArrivalPending DEF StartArrival
<1>2. /\ UNCHANGED <<phase, parentCancelled, boundary, parentReported, phaseErr, collected, result>>
      /\ sched # "returned" /\ sched' # "returned"
      /\ disposition' = [disposition EXCEPT ![s] = "started"]
      /\ disposition \in [Arrival -> Disposition \cup {"pending"}]
  BY <1>1 DEF StartArrival, AfterArrival, ContractInv, PhaseInv, TypeInv, TypeOK
<1>3. StatusOf(s)' = "admitted"
  BY <1>1, <1>2, NextStatusCases
<1>4. ASSUME NEW a \in Arrival, a # s PROVE StatusOf(a)' = StatusOf(a)
  <2>1. disposition'[a] = disposition[a] /\ UNCHANGED <<collected, result>>
    BY <1>2, <1>4
  <2> QED
    BY <2>1 DEF StatusOf
<1>5. SeenStatus' = [SeenStatus EXCEPT ![s] = "admitted"] /\ SeenStatus[s] = "pending"
  BY <1>1, <1>3, <1>4 DEF SeenStatus
<1>6. SeenVerdict = "running" /\ SeenVerdict' = "running" /\ Measured' = Measured
  BY <1>2 DEF SeenVerdict, Returned, Measured
<1>7. Contract!Admit(s)
  BY <1>2, <1>5, <1>6 DEF Contract!Admit, SeenStatus, SeenVerdict
<1> QED
  BY <1>1, <1>7 DEF Contract!Next, Arrival

(* A set of pending arrivals is dropped.                                   *)
LEMMA DropRefines ==
  ASSUME ContractInv, NEW S \in SUBSET Arrival, NEW d \in {"client_limited", "scheduler_limited"},
         \A s \in S : disposition[s] = "pending",
         \A a \in Arrival : disposition'[a] = IF a \in S THEN d ELSE disposition[a],
         UNCHANGED <<phase, parentCancelled, boundary, parentReported, phaseErr, collected, result>>,
         sched # "returned", sched' # "returned"
  PROVE  Contract!Next
<1>1. \A s \in S : StatusOf(s) = "pending" /\ StatusOf(s)' = "dropped"
  BY StatusCases, NextStatusCases
<1>2. ASSUME NEW a \in Arrival, a \notin S PROVE StatusOf(a)' = StatusOf(a)
  <2>1. disposition'[a] = disposition[a] /\ UNCHANGED <<collected, result>>
    BY <1>2
  <2> QED
    BY <2>1 DEF StatusOf
<1>3. /\ SeenStatus' = [a \in 1 .. Requests |-> IF a \in S THEN "dropped" ELSE SeenStatus[a]]
      /\ \A s \in S : SeenStatus[s] = "pending"
  BY <1>1, <1>2 DEF SeenStatus, Arrival
<1>4. SeenVerdict = "running" /\ SeenVerdict' = "running" /\ Measured' = Measured
  BY DEF SeenVerdict, Returned, Measured
<1>5. Contract!Drop(S)
  BY <1>3, <1>4 DEF Contract!Drop, SeenStatus, SeenVerdict
<1> QED
  BY <1>5 DEF Contract!Next, Arrival

(* No slot: one arrival is dropped; no time: all that are left.            *)
LEMMA LossRefines ==
  ASSUME ContractInv, DropArrival \/ MissDeadline
  PROVE  Contract!Next
<1> USE DEF contextVars, schedVars, requestVars, resultVars, Goto
<1>1. disposition \in [Arrival -> Disposition \cup {"pending"}]
  BY DEF ContractInv, PhaseInv, TypeInv, TypeOK
<1>2. /\ UNCHANGED <<phase, parentCancelled, boundary, parentReported, phaseErr, collected, result>>
      /\ sched # "returned" /\ sched' # "returned"
  BY DEF DropArrival, MissDeadline, AfterArrival
<1>3. CASE DropArrival
  <2>1. processed + 1 \in Arrival /\ disposition[processed + 1] = "pending"
    BY <1>3, ArrivalPending DEF DropArrival
  <2>2. disposition' = [disposition EXCEPT ![processed + 1] = "client_limited"]
    BY <1>3 DEF DropArrival
  <2>3. \A a \in Arrival : disposition'[a] = IF a \in {processed + 1} THEN "client_limited"
                                            ELSE disposition[a]
    BY <1>1, <2>2
  <2> QED
    BY <1>2, <2>1, <2>3, DropRefines
<1>4. CASE MissDeadline
  <2>1. /\ Remaining \in SUBSET Arrival
        /\ \A s \in Remaining : disposition[s] = "pending"
    BY DEF Remaining, ContractInv, PhaseInv, FateInv
  <2>2. \A a \in Arrival : disposition'[a] = IF a \in Remaining THEN "scheduler_limited"
                                            ELSE disposition[a]
    BY <1>4 DEF MissDeadline
  <2> QED
    BY <1>2, <2>1, <2>2, DropRefines
<1> QED
  BY <1>3, <1>4

(* The parent is reported, or the measured phase stops admission.          *)
LEMMA BoundaryRefines ==
  ASSUME ContractInv, ScheduleStopped \/ ReachDeadline \/ DrainCancelled
  PROVE  [Contract!Next]_Contract!vars
<1> USE DEF contextVars, schedVars, requestVars, resultVars, Goto
<1>1. /\ UNCHANGED <<phase, parentCancelled, disposition, collected, result>>
      /\ sched # "returned" /\ sched' # "returned"
      /\ \/ parentCancelled /\ ReportParent
         \/ Measured /\ StopAdmission("limit") /\ UNCHANGED parentReported
         \/ UNCHANGED <<boundary, parentReported>>
  <2>1. CASE ScheduleStopped
    BY <2>1 DEF ScheduleStopped
  <2>2. CASE ReachDeadline
    <3>1. Measured
      BY <2>2 DEF ReachDeadline, ContractInv, VerdictInv
    <3> QED
      BY <2>2, <3>1 DEF ReachDeadline
  <2>3. CASE DrainCancelled
    BY <2>3 DEF DrainCancelled
  <2> QED
    BY <2>1, <2>2, <2>3
<1>2. /\ SeenVerdict = "running" /\ SeenVerdict' = "running" /\ Measured' = Measured
      /\ \A s \in Arrival : StatusOf(s)' = StatusOf(s)
  BY <1>1 DEF SeenVerdict, Returned, Measured, StatusOf
<1>3. SeenStatus' = SeenStatus
  BY <1>2 DEF SeenStatus
<1>4. CASE parentCancelled /\ ReportParent
  <2>1. parentReported' = TRUE /\ boundary' = IF boundary = "open" THEN "parent" ELSE boundary
    BY <1>4 DEF ReportParent, StopAdmission
  <2>2. Contract!ReportCancellation
    BY <1>1, <1>2, <1>3, <1>4, <2>1
       DEF Contract!ReportCancellation, Contract!Close, SeenStatus, SeenVerdict
  <2> QED
    BY <2>2 DEF Contract!Next
<1>5. CASE Measured /\ StopAdmission("limit") /\ UNCHANGED parentReported
  <2>1. Contract!StopAdmission
    BY <1>1, <1>2, <1>3, <1>5
       DEF Contract!StopAdmission, Contract!Close, StopAdmission, SeenStatus, SeenVerdict
  <2> QED
    BY <2>1 DEF Contract!Next
<1>6. CASE UNCHANGED <<boundary, parentReported>>
  BY <1>1, <1>2, <1>6, Unseen
<1> QED
  BY <1>1, <1>4, <1>5, <1>6

(* When everything is collected, every arrival has its fate or is pending. *)
LEMMA NothingAdmitted ==
  ASSUME ContractInv, AllCollected, NEW s \in Arrival
  PROVE  /\ StatusOf(s) # "admitted"
         /\ StatusOf(s) = "pending" => processed < s
         /\ StatusOf(s) = "drain_timeout" => phaseErr = "drain"
<1>1. disposition[s] \in {"pending", "started", "client_limited", "scheduler_limited"}
  BY DEF ContractInv, PhaseInv, TypeInv, TypeOK, Disposition
<1>2. disposition[s] = "pending" => processed < s
  BY DEF ContractInv, PhaseInv, FateInv
<1>3. CASE disposition[s] = "started"
  <2>1. InChannel = {}
    BY DEF AllCollected, InChannel
  <2>2. pc[s] = "done" /\ s \in collected
    BY <1>3, <2>1 DEF ContractInv, PhaseInv, TypeInv, StartInv, QuietInv, RequestsDone,
                      AllCollected, DeliveryInv
  <2>3. /\ StatusOf(s) = result[s] /\ result[s] \in Outcome
        /\ result[s] = "drain_timeout" => phaseErr = "drain"
    BY <1>3, <2>2, StatusCases DEF ContractInv, ResultInv, PhaseInv, CauseInv
  <2> QED
    BY <2>3 DEF Outcome
<1> QED
  BY <1>1, <1>2, <1>3, StatusCases

(* The phase returns: so does the contract's, with the same error.         *)
LEMMA ReturnRefines ==
  ASSUME ContractInv, Return
  PROVE  Contract!Next
<1> USE DEF contextVars, schedVars, requestVars, resultVars, Goto
<1>1. /\ UNCHANGED <<phase, parentCancelled, boundary, parentReported, phaseErr, disposition,
                     collected, result>>
      /\ sched = "await" /\ sched' = "returned" /\ AllCollected
  BY DEF Return
<1>2. /\ SeenVerdict = "running" /\ SeenVerdict' = phaseErr /\ Measured' = Measured
      /\ \A s \in Arrival : StatusOf(s)' = StatusOf(s)
  BY <1>1 DEF SeenVerdict, Returned, Measured, StatusOf
<1>3. SeenStatus' = SeenStatus
  BY <1>2 DEF SeenStatus
<1>4. Contract!Statuses = {StatusOf(s) : s \in Arrival}
  BY DEF Contract!Statuses, Arrival
<1>5. /\ "admitted" \notin Contract!Statuses
      /\ "drain_timeout" \in Contract!Statuses => phaseErr = "drain"
  BY <1>1, <1>4, NothingAdmitted
<1>6. ASSUME phaseErr = "none"
      PROVE  /\ "pending" \notin Contract!Statuses
             /\ ~parentReported
             /\ Measured => boundary = "limit"
  <2>1. processed = Requests /\ (Measured => boundary = "limit")
    BY <1>1, <1>6 DEF ContractInv, PhaseInv, BoundaryInv
  <2>2. \A s \in Arrival : ~(processed < s)
    BY <2>1, ArrivalFinite DEF Arrival
  <2> QED
    BY <1>1, <1>4, <1>6, <2>1, <2>2, NothingAdmitted DEF ContractInv, VerdictInv
<1>7. /\ phaseErr \in {"none", "parent", "drain"}
      /\ phaseErr = "drain" => Measured /\ boundary # "open"
      /\ phaseErr = "parent" => parentCancelled /\ parentReported = TRUE /\ boundary # "open"
  BY DEF ContractInv, VerdictInv, PhaseInv, ErrorInv, TypeInv, TypeOK, PhaseCause
<1>8. Contract!Return(phaseErr)
  BY <1>1, <1>2, <1>3, <1>5, <1>6, <1>7
     DEF Contract!Return, Contract!Close, SeenStatus, SeenVerdict
<1> QED
  BY <1>7, <1>8 DEF Contract!Next

(* An open-loop phase keeps its contract with the lifecycle.               *)
THEOREM ContractCorrect == Spec => ImplementsContract
<1>1. ContractInv /\ [Next]_vars => [Contract!Next]_Contract!vars
  BY EnvironmentRefines, RequestRefines, CollectRefines, WaitRefines, StartRefines, LossRefines,
     BoundaryRefines, ReturnRefines DEF Next, SchedulerStep
<1> QED
  BY InitRefines, ContractInvariant, <1>1, PTL DEF Spec, ImplementsContract, Contract!Spec


=============================================================================
