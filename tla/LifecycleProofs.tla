--------------------------- MODULE LifecycleProofs ---------------------------
(***************************************************************************)
(* What a run promises, for every number of requests in either phase and   *)
(* either load mode: its transitions are legal, measurement starts on a    *)
(* quiet system, and what is published tells the truth.                    *)
(*                                                                         *)
(* RunInv is the inductive invariant.  A phase hands the run a verdict, a  *)
(* status per request and two callbacks; PhaseState says how these agree   *)
(* while the phase runs, and ResultInv what is left of the agreement in    *)
(* the result that Execute classifies.                                     *)
(***************************************************************************)
EXTENDS Lifecycle, FiniteSetTheorems, SequenceTheorems, TLAPS

Status  == Measurement!Status
Ended   == Outcome \cup {"dropped"}
Verdict == {"none", "parent", "drain"}

Before  == {"setup", "warmup", "measure", "measurement"}
Behind  == {"collect", "finish", "classify", "validate", "published", "rejected"}
Judged  == {"validate", "published", "rejected"}

(* The log: never empty, and every change of phase legal                   *)
Phases  == {"setup", "warmup", "measurement", "stop_admission", "drain", "artifacts"}
Reasons == {"lifecycle_started", "warmup_started", "warmup_complete", "drain_complete",
            "measured_request_limit_reached", "measurement_duration_elapsed",
            "parent_cancelled_during_setup", "parent_cancelled_during_warmup",
            "parent_cancelled_during_measurement"}

Transition == [phase : Phases, reason : Reasons]

LegalLog(log) ==
  /\ log \in Seq(Transition) /\ log # <<>>
  /\ \A i \in 1 .. Len(log) - 1 : <<log[i].phase, log[i + 1].phase>> \in LegalTransition

LastPhase(log) == log[Len(log)].phase
Stops(log)     == {i \in 1 .. Len(log) : log[i].phase = "stop_admission"}

RunTypeOK ==
  /\ plan \in [mode : Modes, warmupRequests : {0, WarmupRequests}]
  /\ cancelled \in BOOLEAN
  /\ reported \in BOOLEAN
  /\ boundary \in {"open", "limit", "parent"}
  /\ verdict \in Verdict \cup {"running"}
  /\ step \in Before \cup Behind
  /\ LegalLog(transitions)
  /\ drain \in [timedOut : BOOLEAN, parentCancelled : BOOLEAN]
  /\ runErr \in Verdict

(* Admission stopped not yet, or just once                                 *)
NotStopped  == Stops(transitions) = {}
StoppedOnce == \E i \in 1 .. Len(transitions) : Stops(transitions) = {i}

(* Why admission stopped: the phase's own limit, or a cancellation that    *)
(* the result mentions                                                     *)
StopInv ==
  \A i \in Stops(transitions) :
    drain.parentCancelled \/ transitions[i].reason = LimitReason

(* The running phase, and what its callbacks have left in the run          *)
PhaseState(requests, measured) ==
  /\ status \in [1 .. requests -> Status]
  /\ \A s \in 1 .. requests : status[s] = "parent_cancelled" => cancelled
  /\ drain.parentCancelled <=> reported
  /\ boundary = "parent" => reported
  /\ ~measured => boundary # "limit"
  /\ IF boundary = "open"
     THEN NotStopped /\ Current = (IF measured THEN "measurement" ELSE "warmup")
     ELSE StoppedOnce /\ Current = "drain"
  /\ verdict \in {"parent", "drain"} => boundary # "open"
  /\ verdict = "parent" => reported
  /\ verdict = "drain" => measured
  /\ verdict = "none" =>
       /\ \A s \in 1 .. requests : status[s] \in Ended
       /\ ~reported
       /\ measured => boundary = "limit"
       /\ ~OpenLoop => \A s \in 1 .. requests : status[s] # "parent_cancelled"

(* A warmup after which Run goes on to measure                             *)
WarmupClean ==
  /\ warmup \in [1 .. plan.warmupRequests -> Ended]
  /\ ~OpenLoop => \A s \in 1 .. plan.warmupRequests : warmup[s] # "parent_cancelled"

BeforeInv ==
  /\ step \in Before => runErr = "none" /\ ~drain.timedOut /\ measurement = <<>>
  /\ step = "setup" =>
       warmup = <<>> /\ NotStopped /\ Current = "setup" /\ ~drain.parentCancelled
  /\ step = "warmup" =>
       warmup = <<>> /\ plan.warmupRequests = WarmupRequests /\ PhaseState(WarmupRequests, FALSE)
  /\ step = "measure" =>
       WarmupClean /\ NotStopped /\ Current = "warmup" /\ ~drain.parentCancelled
  /\ step = "measurement" => WarmupClean /\ PhaseState(MeasuredRequests, TRUE)

(* What is left of a phase's promises in the result                        *)
ResultInv ==
  step \in Behind =>
    /\ StoppedOnce
    /\ Current = IF step \in {"collect", "finish"} THEN "drain" ELSE "artifacts"
    /\ runErr = "none" => WarmupClean /\ measurement \in [1 .. MeasuredRequests -> Ended]
    /\ runErr = "parent" => drain.parentCancelled
    /\ drain.timedOut <=> runErr = "drain" /\ step # "collect"

LateInv == drain.parentCancelled => cancelled

(* What ClassifyRun decides, and the writer after it                       *)
Incomplete == \/ Failed(warmup) > 0
              \/ Failed(measurement) > 0
              \/ ~OpenLoop /\ ~AllAttempted

ClassInv ==
  /\ step \notin Judged => errorClass = "none"
  /\ step \in Judged =>
       \/ /\ runErr # "none"
          /\ runStatus = IF RunCancelled THEN "cancelled" ELSE "failed"
          /\ errorClass = "none"
       \/ /\ runErr = "none" /\ LoadLimited
          /\ runStatus = "failed"
          /\ errorClass = "load_delivery_error"
       \/ /\ runErr = "none" /\ ~LoadLimited
          /\ runStatus = IF Incomplete THEN "failed" ELSE "completed"
          /\ errorClass = "none"
  /\ step = "published" => Acceptable
  /\ step = "rejected" => ~Acceptable

RunInv ==
  /\ RunTypeOK
  /\ StopInv
  /\ BeforeInv
  /\ ResultInv
  /\ LateInv
  /\ ClassInv

(***************************************************************************)
(* The transition log                                                      *)
(***************************************************************************)

Entered(log, phase, reason) == log \o Enter(phase, reason)
Stopped(log, reason) == log \o (Enter("stop_admission", reason) \o Enter("drain", reason))

(* One more transition                                                     *)
LEMMA EnterExtends ==
  ASSUME NEW log, LegalLog(log), NEW phase \in Phases, NEW reason \in Reasons,
         <<LastPhase(log), phase>> \in LegalTransition
  PROVE  LET longer == Entered(log, phase, reason)
         IN  /\ LegalLog(longer) /\ LastPhase(longer) = phase
             /\ Len(log) \in Nat \ {0} /\ Len(longer) = Len(log) + 1
             /\ \A i \in 1 .. Len(log) : longer[i] = log[i]
             /\ longer[Len(log) + 1].reason = reason
             /\ Stops(longer) = Stops(log) \cup
                  (IF phase = "stop_admission" THEN {Len(log) + 1} ELSE {})
<1> DEFINE r == [phase |-> phase, reason |-> reason]
           longer == Entered(log, phase, reason)
<1>1. r \in Transition /\ r.phase = phase /\ r.reason = reason
  BY DEF Transition
<1>2. longer = log \o <<r>> /\ <<r>> \in Seq(Transition) /\ Len(<<r>>) = 1 /\ <<r>>[1] = r
  BY <1>1 DEF Entered, Enter
<1> HIDE DEF r, longer
<1>3. /\ longer \in Seq(Transition)
      /\ Len(log) \in Nat \ {0} /\ Len(longer) = Len(log) + 1
      /\ \A i \in 1 .. Len(log) : longer[i] = log[i]
      /\ longer[Len(log) + 1] = r
  BY <1>2, ConcatProperties, EmptySeq DEF LegalLog
<1>4. longer # <<>> /\ LastPhase(longer) = phase
  BY <1>1, <1>3 DEF LastPhase
<1>5. ASSUME NEW i \in 1 .. Len(longer) - 1
      PROVE  <<longer[i].phase, longer[i + 1].phase>> \in LegalTransition
  <2>1. CASE i = Len(log)
    BY <1>1, <1>3, <2>1 DEF LastPhase
  <2>2. CASE i \in 1 .. Len(log) - 1
    BY <1>3, <2>2 DEF LegalLog
  <2>3. i = Len(log) \/ i \in 1 .. Len(log) - 1
    BY <1>3
  <2> QED
    BY <2>1, <2>2, <2>3
<1>6. LegalLog(longer)
  BY <1>3, <1>4, <1>5 DEF LegalLog
<1>7. Stops(longer) = Stops(log) \cup (IF phase = "stop_admission" THEN {Len(log) + 1} ELSE {})
  <2>1. \A i \in 1 .. Len(longer) : i \in 1 .. Len(log) \/ i = Len(log) + 1
    BY <1>3
  <2> QED
    BY <1>1, <1>3, <2>1 DEF Stops
<1> QED
  BY <1>1, <1>3, <1>4, <1>6, <1>7 DEF longer

(* enterStopAndDrain, when admission has not stopped before                *)
LEMMA StopAndDrainExtends ==
  ASSUME NEW log, LegalLog(log), NEW reason \in Reasons, Stops(log) = {},
         LastPhase(log) \in {"setup", "warmup", "measurement"}
  PROVE  LET longer == Stopped(log, reason)
         IN  /\ LegalLog(longer) /\ LastPhase(longer) = "drain"
             /\ \E i \in 1 .. Len(longer) : Stops(longer) = {i} /\ longer[i].reason = reason
<1> DEFINE middle == Entered(log, "stop_admission", reason)
           end    == Entered(middle, "drain", reason)
<1>1. /\ log \in Seq(Transition)
      /\ Enter("stop_admission", reason) \in Seq(Transition)
      /\ Enter("drain", reason) \in Seq(Transition)
  BY DEF LegalLog, Enter, Transition, Phases
<1>2. Stopped(log, reason) = end
  BY <1>1, ConcatAssociative DEF Stopped, Entered
<1>3. <<LastPhase(log), "stop_admission">> \in LegalTransition /\ "stop_admission" \in Phases
  BY DEF LegalTransition, Phases
<1>4. /\ LegalLog(middle) /\ LastPhase(middle) = "stop_admission"
      /\ Len(log) \in Nat \ {0} /\ Len(middle) = Len(log) + 1
      /\ middle[Len(log) + 1].reason = reason
      /\ Stops(middle) = {Len(log) + 1}
  BY <1>3, EnterExtends
<1> HIDE DEF middle
<1>5. <<LastPhase(middle), "drain">> \in LegalTransition /\ "drain" \in Phases
  BY <1>4 DEF LegalTransition, Phases
<1>6. /\ LegalLog(end) /\ LastPhase(end) = "drain"
      /\ Len(end) = Len(middle) + 1
      /\ \A i \in 1 .. Len(middle) : end[i] = middle[i]
      /\ Stops(end) = Stops(middle)
  BY <1>4, <1>5, EnterExtends
<1> HIDE DEF end
<1>7. Stops(end) = {Len(log) + 1} /\ end[Len(log) + 1].reason = reason /\ Len(log) + 1 \in 1 .. Len(end)
  BY <1>4, <1>6
<1> QED
  BY <1>2, <1>6, <1>7

(***************************************************************************)
(* A step of the running phase, as the run sees it                         *)
(***************************************************************************)

(* Requests are admitted, dropped or finished                              *)
Progress(n) ==
  /\ verdict = "running"
  /\ status' \in [1 .. n -> Status]
  /\ \A s \in 1 .. n : status'[s] = "parent_cancelled" => cancelled
  /\ UNCHANGED <<boundary, reported, verdict>>

CloseFor(reason) == boundary' = IF boundary = "open" THEN reason ELSE boundary

(* A callback                                                              *)
Calls(measured) ==
  /\ verdict = "running"
  /\ \/ measured /\ UNCHANGED reported /\ CloseFor("limit")
     \/ cancelled /\ reported' = TRUE /\ CloseFor("parent")
  /\ UNCHANGED <<status, verdict>>

(* The phase returns                                                       *)
Returns(n, measured, err) ==
  /\ verdict = "running" /\ verdict' = err
  /\ err = "none" => /\ \A s \in 1 .. n : status[s] \in Ended
                     /\ ~reported
                     /\ measured => boundary = "limit"
                     /\ cancelled => OpenLoop
  /\ err = "drain" => measured /\ boundary # "open"
  /\ err = "parent" => cancelled
  /\ IF err = "parent" \/ (cancelled /\ ~OpenLoop)
     THEN reported' = TRUE /\ CloseFor("parent")
     ELSE UNCHANGED <<reported, boundary>>
  /\ UNCHANGED status

SeenStep(n, measured) ==
  \/ Progress(n)
  \/ Calls(measured)
  \/ \E err \in Verdict : Returns(n, measured, err)
  \/ UNCHANGED phaseVars

(* Every step of a warmup phase is one of these                            *)
LEMMA WarmupSeen ==
  ASSUME status \in [1 .. WarmupRequests -> Status],
         \A s \in 1 .. WarmupRequests : status[s] = "parent_cancelled" => cancelled,
         Warmup!Next, UNCHANGED <<plan, cancelled>>
  PROVE  SeenStep(WarmupRequests, FALSE)
<1>1. ASSUME NEW s \in 1 .. WarmupRequests, Warmup!Admit(s) PROVE Progress(WarmupRequests)
  BY <1>1 DEF Warmup!Admit, Progress, Status, Measurement!Status
<1>2. ASSUME NEW s \in 1 .. WarmupRequests, NEW outcome \in Warmup!Outcome, Warmup!Finish(s, outcome)
      PROVE  Progress(WarmupRequests)
  BY <1>2 DEF Warmup!Finish, Warmup!Outcome, Progress, Status, Measurement!Status, Measurement!Outcome
<1>3. ASSUME NEW S \in SUBSET (1 .. WarmupRequests), Warmup!Drop(S) PROVE Progress(WarmupRequests)
  BY <1>3 DEF Warmup!Drop, Progress, Status, Measurement!Status
<1>4. Warmup!StopAdmission => Calls(FALSE)
  BY DEF Warmup!StopAdmission
<1>5. Warmup!ReportCancellation => Calls(FALSE)
  BY DEF Warmup!ReportCancellation, Warmup!Close, Calls, CloseFor
<1>6. Warmup!CancelParent => UNCHANGED phaseVars
  BY DEF Warmup!CancelParent, phaseVars
<1>7. ASSUME NEW err \in Verdict, Warmup!Return(err) PROVE Returns(WarmupRequests, FALSE, err)
  <2>1. err = "none" => \A s \in 1 .. WarmupRequests : status[s] \in Ended
    BY <1>7 DEF Warmup!Return, Warmup!Statuses, Status, Measurement!Status, Ended, Outcome
  <2> QED
    BY <1>7, <2>1 DEF Warmup!Return, Warmup!Close, Returns, CloseFor
<1> QED
  BY <1>1, <1>2, <1>3, <1>4, <1>5, <1>6, <1>7 DEF Warmup!Next, SeenStep, Verdict

(* Every step of a measured phase, too                                     *)
LEMMA MeasurementSeen ==
  ASSUME status \in [1 .. MeasuredRequests -> Status],
         \A s \in 1 .. MeasuredRequests : status[s] = "parent_cancelled" => cancelled,
         Measurement!Next, UNCHANGED <<plan, cancelled>>
  PROVE  SeenStep(MeasuredRequests, TRUE)
<1>1. ASSUME NEW s \in 1 .. MeasuredRequests, Measurement!Admit(s) PROVE Progress(MeasuredRequests)
  BY <1>1 DEF Measurement!Admit, Progress, Status, Measurement!Status
<1>2. ASSUME NEW s \in 1 .. MeasuredRequests, NEW outcome \in Measurement!Outcome, Measurement!Finish(s, outcome)
      PROVE  Progress(MeasuredRequests)
  BY <1>2 DEF Measurement!Finish, Measurement!Outcome, Progress, Status, Measurement!Status
<1>3. ASSUME NEW S \in SUBSET (1 .. MeasuredRequests), Measurement!Drop(S) PROVE Progress(MeasuredRequests)
  BY <1>3 DEF Measurement!Drop, Progress, Status, Measurement!Status
<1>4. Measurement!StopAdmission => Calls(TRUE)
  BY DEF Measurement!StopAdmission, Measurement!Close, Calls, CloseFor
<1>5. Measurement!ReportCancellation => Calls(TRUE)
  BY DEF Measurement!ReportCancellation, Measurement!Close, Calls, CloseFor
<1>6. Measurement!CancelParent => UNCHANGED phaseVars
  BY DEF Measurement!CancelParent, phaseVars
<1>7. ASSUME NEW err \in Verdict, Measurement!Return(err) PROVE Returns(MeasuredRequests, TRUE, err)
  <2>1. err = "none" => \A s \in 1 .. MeasuredRequests : status[s] \in Ended
    BY <1>7 DEF Measurement!Return, Measurement!Statuses, Status, Measurement!Status, Ended, Outcome
  <2> QED
    BY <1>7, <2>1 DEF Measurement!Return, Measurement!Close, Returns, CloseFor
<1> QED
  BY <1>1, <1>2, <1>3, <1>4, <1>5, <1>6, <1>7 DEF Measurement!Next, SeenStep, Verdict

(* What the callbacks do to the boundary and the cancellation              *)
LEMMA BoundaryMoves ==
  ASSUME NEW n, NEW measured \in BOOLEAN, SeenStep(n, measured),
         cancelled \in BOOLEAN, reported \in BOOLEAN,
         boundary \in {"open", "limit", "parent"}, verdict \in Verdict \cup {"running"}
  PROVE  /\ reported' \in BOOLEAN /\ boundary' \in {"open", "limit", "parent"}
         /\ verdict' \in Verdict \cup {"running"}
         /\ reported => reported'
         /\ reported' => reported \/ cancelled
         /\ boundary' # boundary =>
              \/ boundary = "open" /\ boundary' = "limit" /\ measured
              \/ boundary = "open" /\ boundary' = "parent" /\ reported'
<1>1. CASE Progress(n) \/ UNCHANGED phaseVars
  BY <1>1 DEF Progress, phaseVars
<1>2. CASE Calls(measured)
  <2>1. CASE measured /\ UNCHANGED reported /\ CloseFor("limit")
    BY <1>2, <2>1 DEF Calls, CloseFor
  <2>2. CASE cancelled /\ reported' = TRUE /\ CloseFor("parent")
    BY <1>2, <2>2 DEF Calls, CloseFor
  <2> QED
    BY <1>2, <2>1, <2>2 DEF Calls
<1>3. CASE \E err \in Verdict : Returns(n, measured, err)
  <2>1. PICK err \in Verdict : Returns(n, measured, err)
    BY <1>3
  <2> QED
    BY <2>1 DEF Returns, CloseFor
<1> QED
  BY <1>1, <1>2, <1>3 DEF SeenStep

(* The transition log and the drain follow                                 *)
LEMMA CallbacksKeep ==
  ASSUME NEW n, NEW measured \in BOOLEAN, NEW limitReason, NEW parentReason \in Reasons,
         RunTypeOK, StopInv, LateInv, PhaseState(n, measured), SeenStep(n, measured),
         Callbacks(limitReason, parentReason), UNCHANGED <<plan, cancelled>>,
         measured => limitReason = LimitReason
  PROVE  /\ LegalLog(transitions')
         /\ drain' = [timedOut |-> drain.timedOut, parentCancelled |-> drain'.parentCancelled]
         /\ drain'.parentCancelled <=> reported'
         /\ LateInv' /\ StopInv'
         /\ IF boundary' = "open"
            THEN NotStopped' /\ Current' = (IF measured THEN "measurement" ELSE "warmup")
            ELSE StoppedOnce' /\ Current' = "drain"
<1>1. /\ reported \in BOOLEAN /\ cancelled \in BOOLEAN /\ boundary \in {"open", "limit", "parent"}
      /\ LegalLog(transitions)
      /\ drain \in [timedOut : BOOLEAN, parentCancelled : BOOLEAN]
      /\ verdict \in Verdict \cup {"running"}
  BY DEF RunTypeOK
<1>2. /\ reported' \in BOOLEAN
      /\ reported => reported'
      /\ reported' => reported \/ cancelled
      /\ boundary' # boundary =>
           \/ boundary = "open" /\ boundary' = "limit" /\ measured
           \/ boundary = "open" /\ boundary' = "parent" /\ reported'
  BY <1>1, BoundaryMoves
<1>3. drain.parentCancelled <=> reported
  BY DEF PhaseState
<1>4. /\ drain' = [timedOut |-> drain.timedOut, parentCancelled |-> drain'.parentCancelled]
      /\ drain'.parentCancelled <=> reported'
  BY <1>1, <1>2, <1>3 DEF Callbacks
<1>5. LateInv'
  BY <1>2, <1>3, <1>4 DEF LateInv
<1>6. LimitReason' = LimitReason
  BY DEF LimitReason, OpenLoop
<1>7. CASE boundary' = boundary
  <2>1. transitions' = transitions
    BY <1>7 DEF Callbacks
  <2> QED
    BY <1>1, <1>2, <1>3, <1>4, <1>5, <1>6, <1>7, <2>1
       DEF StopInv, PhaseState, NotStopped, StoppedOnce, Current
<1>8. CASE boundary' # boundary
  <2> DEFINE reason == IF boundary' = "limit" THEN limitReason ELSE parentReason
  <2>1. /\ Stops(transitions) = {} /\ LastPhase(transitions) = Current
        /\ Current \in {"warmup", "measurement"}
    BY <1>2, <1>8 DEF PhaseState, NotStopped, LastPhase, Current
  <2>2. reason \in Reasons /\ (reason = LimitReason \/ reported')
    BY <1>2, <1>8 DEF LimitReason, Reasons
  <2>3. transitions' = Stopped(transitions, reason)
    BY <1>8, <2>1 DEF Callbacks, StopAndDrain, Stopped
  <2> HIDE DEF reason
  <2>4. /\ LegalLog(transitions') /\ LastPhase(transitions') = "drain"
        /\ \E i \in 1 .. Len(transitions') :
             Stops(transitions') = {i} /\ transitions'[i].reason = reason
    BY <1>1, <2>1, <2>2, <2>3, StopAndDrainExtends
  <2>5. StopInv'
    BY <1>4, <1>6, <2>2, <2>4 DEF StopInv
  <2>6. StoppedOnce' /\ Current' = "drain"
    BY <2>4 DEF StoppedOnce, LastPhase, Current
  <2> QED
    BY <1>2, <1>4, <1>5, <1>8, <2>4, <2>5, <2>6
<1> QED
  BY <1>7, <1>8

(* A phase's step keeps PhaseState                                         *)
LEMMA PhaseKeeps ==
  ASSUME NEW n, NEW measured \in BOOLEAN, NEW limitReason, NEW parentReason \in Reasons,
         RunTypeOK, StopInv, LateInv, PhaseState(n, measured), SeenStep(n, measured),
         Callbacks(limitReason, parentReason), UNCHANGED <<plan, cancelled>>,
         measured => limitReason = LimitReason
  PROVE  PhaseState(n, measured)'
<1>1. /\ drain'.parentCancelled <=> reported'
      /\ IF boundary' = "open"
         THEN NotStopped' /\ Current' = (IF measured THEN "measurement" ELSE "warmup")
         ELSE StoppedOnce' /\ Current' = "drain"
  BY CallbacksKeep
<1>2. /\ reported \in BOOLEAN /\ cancelled \in BOOLEAN /\ boundary \in {"open", "limit", "parent"}
      /\ verdict \in Verdict \cup {"running"}
  BY DEF RunTypeOK
<1>3. /\ reported => reported'
      /\ boundary' # boundary =>
           \/ boundary = "open" /\ boundary' = "limit" /\ measured
           \/ boundary = "open" /\ boundary' = "parent" /\ reported'
  BY <1>2, BoundaryMoves
<1>4. boundary' = "parent" => reported'
  BY <1>3 DEF PhaseState
<1>5. ~measured => boundary' # "limit"
  BY <1>3 DEF PhaseState
<1> DEFINE Accounted ==
           /\ status' \in [1 .. n -> Status]
           /\ \A s \in 1 .. n : status'[s] = "parent_cancelled" => cancelled'
           /\ verdict' \in {"parent", "drain"} => boundary' # "open"
           /\ verdict' = "parent" => reported'
           /\ verdict' = "drain" => measured
           /\ verdict' = "none" =>
                /\ \A s \in 1 .. n : status'[s] \in Ended
                /\ ~reported'
                /\ measured => boundary' = "limit"
                /\ ~OpenLoop' => \A s \in 1 .. n : status'[s] # "parent_cancelled"
<1>6. Accounted
  <2>1. CASE Progress(n)
    BY <2>1 DEF Progress, PhaseState
  <2>2. CASE Calls(measured)
    BY <2>2 DEF Calls, PhaseState
  <2>3. ASSUME NEW err \in Verdict, Returns(n, measured, err)
        PROVE  Accounted
    BY <1>2, <1>3, <2>3 DEF Returns, CloseFor, PhaseState, OpenLoop
  <2>4. CASE UNCHANGED phaseVars
    BY <2>4 DEF phaseVars, PhaseState, OpenLoop
  <2> QED
    BY <2>1, <2>2, <2>3, <2>4 DEF SeenStep
<1> QED
  BY <1>1, <1>4, <1>5, <1>6 DEF PhaseState

(***************************************************************************)
(* The invariant, action by action                                         *)
(***************************************************************************)

LEMMA RunInit == Init => RunInv
<1> SUFFICES ASSUME Init PROVE RunInv
  OBVIOUS
<1> USE DEF Init
<1> DEFINE r == [phase |-> "setup", reason |-> "lifecycle_started"]
<1>1. r \in Transition /\ r.phase = "setup" /\ transitions = <<r>>
  BY DEF Transition, Phases, Reasons
<1> HIDE DEF r
<1>2. Len(transitions) = 1 /\ transitions[1] = r /\ transitions \in Seq(Transition) /\ transitions # <<>>
  BY <1>1
<1>3. LegalLog(transitions) /\ Stops(transitions) = {} /\ Current = "setup"
  BY <1>1, <1>2 DEF LegalLog, Stops, Current
<1>4. RunTypeOK
  BY <1>3 DEF RunTypeOK, Before, Behind, Verdict
<1>5. StopInv /\ LateInv
  BY <1>3 DEF StopInv, LateInv
<1>6. BeforeInv
  BY <1>3 DEF BeforeInv, NotStopped
<1>7. ResultInv /\ ClassInv
  BY DEF ResultInv, ClassInv, Behind, Judged
<1> QED
  BY <1>4, <1>5, <1>6, <1>7 DEF RunInv

LEMMA KeepsCancelledInSetup == RunInv /\ CancelledInSetup => RunInv'
<1> SUFFICES ASSUME RunInv, CancelledInSetup PROVE RunInv'
  OBVIOUS
<1>1. /\ RunTypeOK /\ StopInv /\ BeforeInv /\ LateInv /\ ClassInv
      /\ step = "setup" /\ step' = "finish" /\ cancelled /\ cancelled' = cancelled
      /\ runErr' = "parent" /\ errorClass' = errorClass
      /\ UNCHANGED <<plan, phaseVars>>
      /\ drain' = [drain EXCEPT !.parentCancelled = TRUE]
  BY DEF RunInv, CancelledInSetup, executionVars
<1>2. /\ LegalLog(transitions) /\ Stops(transitions) = {}
      /\ Current = "setup" /\ LastPhase(transitions) = "setup"
      /\ ~drain.timedOut
  BY <1>1 DEF RunTypeOK, BeforeInv, NotStopped, Current, LastPhase, Before
<1>3. transitions' = Stopped(transitions, "parent_cancelled_during_setup")
  BY <1>2 DEF CancelledInSetup, StopAndDrain, Stopped
<1>4. /\ LegalLog(transitions') /\ LastPhase(transitions') = "drain"
      /\ \E i \in 1 .. Len(transitions') :
           Stops(transitions') = {i} /\ transitions'[i].reason = "parent_cancelled_during_setup"
  BY <1>2, <1>3, StopAndDrainExtends DEF Reasons
<1>5. drain' \in [timedOut : BOOLEAN, parentCancelled : BOOLEAN] /\ drain'.parentCancelled /\ ~drain'.timedOut
  BY <1>1, <1>2 DEF RunTypeOK
<1>6. RunTypeOK'
  BY <1>1, <1>4, <1>5 DEF RunTypeOK, phaseVars, Behind, Verdict
<1>7. StopInv' /\ LateInv'
  BY <1>1, <1>5 DEF StopInv, LateInv
<1>8. BeforeInv'
  BY <1>1 DEF BeforeInv, Before
<1>9. ResultInv'
  BY <1>1, <1>4, <1>5 DEF ResultInv, StoppedOnce, Current, LastPhase
<1>10. ClassInv'
  BY <1>1 DEF ClassInv, Judged
<1> QED
  BY <1>6, <1>7, <1>8, <1>9, <1>10 DEF RunInv

LEMMA KeepsStartWarmup == RunInv /\ StartWarmup => RunInv'
<1> SUFFICES ASSUME RunInv, StartWarmup PROVE RunInv'
  OBVIOUS
<1>1. /\ RunTypeOK /\ StopInv /\ BeforeInv /\ LateInv /\ ClassInv
      /\ step = "setup" /\ ~cancelled
      /\ UNCHANGED <<plan, cancelled, drain, resultVars, executionVars>>
  BY DEF RunInv, StartWarmup
<1>2. /\ LegalLog(transitions) /\ Stops(transitions) = {} /\ LastPhase(transitions) = "setup"
      /\ ~drain.timedOut /\ ~drain.parentCancelled /\ runErr = "none" /\ errorClass = "none"
      /\ warmup = <<>> /\ measurement = <<>>
  BY <1>1 DEF RunTypeOK, BeforeInv, ClassInv, NotStopped, Current, LastPhase, Before, Judged
<1>3. transitions' = Entered(transitions, "warmup", "warmup_started")
  BY DEF StartWarmup, Entered
<1>4. <<LastPhase(transitions), "warmup">> \in LegalTransition /\ "warmup" \in Phases /\ "warmup_started" \in Reasons
  BY <1>2 DEF LegalTransition, Phases, Reasons
<1>5. LegalLog(transitions') /\ LastPhase(transitions') = "warmup" /\ Stops(transitions') = {}
  BY <1>2, <1>3, <1>4, EnterExtends
<1>6. \/ step' = "measure" /\ plan.warmupRequests = 0 /\ UNCHANGED phaseVars
      \/ step' = "warmup" /\ plan.warmupRequests = WarmupRequests /\ BeginPhase(plan.warmupRequests)
  BY <1>1 DEF StartWarmup, RunTypeOK
<1>7. RunTypeOK'
  BY <1>1, <1>5, <1>6 DEF RunTypeOK, BeginPhase, phaseVars, resultVars, Before
<1>8. StopInv' /\ LateInv'
  BY <1>1, <1>2, <1>5 DEF StopInv, LateInv
<1>9. BeforeInv'
  <2>1. CASE step' = "measure" /\ plan.warmupRequests = 0
    <3>1. <<>> \in [1 .. 0 -> Ended]
      BY EmptySeq, LenProperties
    <3>2. WarmupClean'
      BY <1>1, <1>2, <2>1, <3>1 DEF WarmupClean, resultVars, Ended, Outcome
    <3> QED
      BY <1>1, <1>2, <1>5, <2>1, <3>2 DEF BeforeInv, NotStopped, Current, LastPhase, resultVars, Before
  <2>2. CASE step' = "warmup" /\ plan.warmupRequests = WarmupRequests /\ BeginPhase(plan.warmupRequests)
    <3>1. PhaseState(WarmupRequests, FALSE)'
      BY <1>1, <1>2, <1>5, <2>2
         DEF PhaseState, BeginPhase, Status, Measurement!Status, NotStopped, Current, LastPhase
    <3> QED
      BY <1>1, <1>2, <2>2, <3>1 DEF BeforeInv, resultVars, Before
  <2> QED
    BY <1>6, <2>1, <2>2
<1>10. ResultInv' /\ ClassInv'
  BY <1>1, <1>2, <1>6 DEF ResultInv, ClassInv, executionVars, Behind, Judged
<1> QED
  BY <1>7, <1>8, <1>9, <1>10 DEF RunInv

LEMMA KeepsWarmupStep == RunInv /\ WarmupStep => RunInv'
<1> SUFFICES ASSUME RunInv, WarmupStep PROVE RunInv'
  OBVIOUS
<1>1. /\ RunTypeOK /\ StopInv /\ BeforeInv /\ LateInv /\ ClassInv
      /\ step = "warmup" /\ Warmup!Next
      /\ Callbacks("none", "parent_cancelled_during_warmup")
      /\ UNCHANGED <<plan, cancelled, step, resultVars, executionVars>>
  BY DEF RunInv, WarmupStep
<1>2. PhaseState(WarmupRequests, FALSE) /\ "parent_cancelled_during_warmup" \in Reasons
  BY <1>1 DEF BeforeInv, Reasons
<1>3. SeenStep(WarmupRequests, FALSE)
  BY <1>1, <1>2, WarmupSeen DEF PhaseState
<1>4. /\ reported' \in BOOLEAN /\ boundary' \in {"open", "limit", "parent"}
      /\ verdict' \in Verdict \cup {"running"}
  BY <1>1, <1>3, BoundaryMoves DEF RunTypeOK
<1>5. /\ LegalLog(transitions') /\ LateInv' /\ StopInv'
      /\ drain' = [timedOut |-> drain.timedOut, parentCancelled |-> drain'.parentCancelled]
      /\ drain'.parentCancelled <=> reported'
  BY <1>1, <1>2, <1>3, CallbacksKeep
<1>6. PhaseState(WarmupRequests, FALSE)'
  BY <1>1, <1>2, <1>3, PhaseKeeps
<1>7. drain' \in [timedOut : BOOLEAN, parentCancelled : BOOLEAN] /\ drain'.timedOut = drain.timedOut
  <2>1. drain'.parentCancelled \in BOOLEAN
    BY <1>1, <1>4, <1>5 DEF Callbacks, RunTypeOK
  <2> QED
    BY <1>1, <1>5, <2>1 DEF RunTypeOK
<1>8. RunTypeOK'
  BY <1>1, <1>4, <1>5, <1>7 DEF RunTypeOK, resultVars
<1>9. BeforeInv'
  BY <1>1, <1>6, <1>7 DEF BeforeInv, resultVars, Before
<1>10. ResultInv' /\ ClassInv'
  BY <1>1 DEF ResultInv, ClassInv, executionVars, Behind, Judged
<1> QED
  BY <1>5, <1>8, <1>9, <1>10 DEF RunInv

LEMMA KeepsMeasurementStep == RunInv /\ MeasurementStep => RunInv'
<1> SUFFICES ASSUME RunInv, MeasurementStep PROVE RunInv'
  OBVIOUS
<1>1. /\ RunTypeOK /\ StopInv /\ BeforeInv /\ LateInv /\ ClassInv
      /\ step = "measurement" /\ Measurement!Next
      /\ Callbacks(LimitReason, "parent_cancelled_during_measurement")
      /\ UNCHANGED <<plan, cancelled, step, resultVars, executionVars>>
  BY DEF RunInv, MeasurementStep
<1>2. PhaseState(MeasuredRequests, TRUE) /\ "parent_cancelled_during_measurement" \in Reasons
  BY <1>1 DEF BeforeInv, Reasons
<1>3. SeenStep(MeasuredRequests, TRUE)
  BY <1>1, <1>2, MeasurementSeen DEF PhaseState
<1>4. /\ reported' \in BOOLEAN /\ boundary' \in {"open", "limit", "parent"}
      /\ verdict' \in Verdict \cup {"running"}
  BY <1>1, <1>3, BoundaryMoves DEF RunTypeOK
<1>5. /\ LegalLog(transitions') /\ LateInv' /\ StopInv'
      /\ drain' = [timedOut |-> drain.timedOut, parentCancelled |-> drain'.parentCancelled]
      /\ drain'.parentCancelled <=> reported'
  BY <1>1, <1>2, <1>3, CallbacksKeep
<1>6. PhaseState(MeasuredRequests, TRUE)'
  BY <1>1, <1>2, <1>3, PhaseKeeps
<1>7. drain' \in [timedOut : BOOLEAN, parentCancelled : BOOLEAN] /\ drain'.timedOut = drain.timedOut
  <2>1. drain'.parentCancelled \in BOOLEAN
    BY <1>1, <1>4, <1>5 DEF Callbacks, RunTypeOK
  <2> QED
    BY <1>1, <1>5, <2>1 DEF RunTypeOK
<1>8. RunTypeOK'
  BY <1>1, <1>4, <1>5, <1>7 DEF RunTypeOK, resultVars
<1>9. BeforeInv'
  BY <1>1, <1>6, <1>7 DEF BeforeInv, WarmupClean, OpenLoop, resultVars, Before
<1>10. ResultInv' /\ ClassInv'
  BY <1>1 DEF ResultInv, ClassInv, executionVars, Behind, Judged
<1> QED
  BY <1>5, <1>8, <1>9, <1>10 DEF RunInv

LEMMA KeepsLeaveWarmup == RunInv /\ LeaveWarmup => RunInv'
<1> SUFFICES ASSUME RunInv, LeaveWarmup PROVE RunInv'
  OBVIOUS
<1>1. /\ RunTypeOK /\ StopInv /\ BeforeInv /\ LateInv /\ ClassInv
      /\ step = "warmup" /\ verdict # "running" /\ warmup' = status /\ runErr' = verdict
      /\ step' = (IF verdict = "none" THEN "measure" ELSE "finish")
      /\ UNCHANGED <<plan, cancelled, phaseVars, transitions, drain, measurement, executionVars>>
  BY DEF RunInv, LeaveWarmup
<1>2. PhaseState(WarmupRequests, FALSE) /\ plan.warmupRequests = WarmupRequests /\ verdict \in Verdict
  BY <1>1 DEF BeforeInv, RunTypeOK
<1>3. runErr = "none" /\ ~drain.timedOut /\ measurement = <<>> /\ errorClass = "none"
  BY <1>1 DEF BeforeInv, ClassInv, Before, Judged
<1>4. RunTypeOK'
  BY <1>1, <1>2 DEF RunTypeOK, phaseVars, Before, Behind
<1>5. StopInv' /\ LateInv'
  BY <1>1 DEF StopInv, LateInv, LimitReason, OpenLoop
<1>6. CASE verdict = "none"
  <2>1. boundary = "open" /\ NotStopped /\ Current = "warmup" /\ ~drain.parentCancelled
    BY <1>1, <1>2, <1>6 DEF PhaseState, RunTypeOK
  <2>2. /\ status \in [1 .. WarmupRequests -> Ended]
        /\ ~OpenLoop => \A s \in 1 .. WarmupRequests : status[s] # "parent_cancelled"
    BY <1>2, <1>6 DEF PhaseState
  <2>3. WarmupClean'
    BY <1>1, <1>2, <2>2 DEF WarmupClean, OpenLoop
  <2>4. BeforeInv'
    BY <1>1, <1>3, <1>6, <2>1, <2>3 DEF BeforeInv, NotStopped, Current
  <2>5. ResultInv' /\ ClassInv'
    BY <1>1, <1>3, <1>6 DEF ResultInv, ClassInv, executionVars, Behind, Judged
  <2> QED
    BY <1>4, <1>5, <2>4, <2>5 DEF RunInv
<1>7. CASE verdict # "none"
  <2>1. /\ verdict = "parent" /\ drain.parentCancelled
        /\ StoppedOnce /\ Current = "drain"
    BY <1>2, <1>7 DEF PhaseState, Verdict
  <2>2. BeforeInv'
    BY <1>1, <1>7 DEF BeforeInv, Before
  <2>3. ResultInv'
    BY <1>1, <1>3, <1>7, <2>1 DEF ResultInv, StoppedOnce, Current
  <2>4. ClassInv'
    BY <1>1, <1>3, <1>7 DEF ClassInv, executionVars, Judged
  <2> QED
    BY <1>4, <1>5, <2>2, <2>3, <2>4 DEF RunInv
<1> QED
  BY <1>6, <1>7

LEMMA KeepsStartMeasurement == RunInv /\ StartMeasurement => RunInv'
<1> SUFFICES ASSUME RunInv, StartMeasurement PROVE RunInv'
  OBVIOUS
<1>1. /\ RunTypeOK /\ StopInv /\ BeforeInv /\ LateInv /\ ClassInv
      /\ step = "measure" /\ step' = "measurement" /\ BeginPhase(MeasuredRequests)
      /\ UNCHANGED <<plan, cancelled, drain, resultVars, executionVars>>
  BY DEF RunInv, StartMeasurement
<1>2. /\ LegalLog(transitions) /\ Stops(transitions) = {} /\ LastPhase(transitions) = "warmup"
      /\ ~drain.timedOut /\ ~drain.parentCancelled /\ runErr = "none"
      /\ WarmupClean /\ measurement = <<>>
  BY <1>1 DEF RunTypeOK, BeforeInv, NotStopped, Current, LastPhase, Before
<1>3. transitions' = Entered(transitions, "measurement", "warmup_complete")
  BY DEF StartMeasurement, Entered
<1>4. <<LastPhase(transitions), "measurement">> \in LegalTransition
      /\ "measurement" \in Phases /\ "warmup_complete" \in Reasons
  BY <1>2 DEF LegalTransition, Phases, Reasons
<1>5. LegalLog(transitions') /\ LastPhase(transitions') = "measurement" /\ Stops(transitions') = {}
  BY <1>2, <1>3, <1>4, EnterExtends
<1>6. RunTypeOK'
  BY <1>1, <1>5 DEF RunTypeOK, BeginPhase, resultVars, Before
<1>7. StopInv' /\ LateInv'
  BY <1>1, <1>5 DEF StopInv, LateInv
<1>8. BeforeInv'
  <2>1. PhaseState(MeasuredRequests, TRUE)'
    BY <1>1, <1>2, <1>5
       DEF PhaseState, BeginPhase, Status, Measurement!Status, NotStopped, Current, LastPhase
  <2>2. WarmupClean'
    BY <1>1, <1>2 DEF WarmupClean, OpenLoop, resultVars
  <2> QED
    BY <1>1, <1>2, <2>1, <2>2 DEF BeforeInv, resultVars
<1>9. ResultInv' /\ ClassInv'
  BY <1>1 DEF ResultInv, ClassInv, executionVars, Behind, Judged
<1> QED
  BY <1>6, <1>7, <1>8, <1>9 DEF RunInv

LEMMA KeepsLeaveMeasurement == RunInv /\ LeaveMeasurement => RunInv'
<1> SUFFICES ASSUME RunInv, LeaveMeasurement PROVE RunInv'
  OBVIOUS
<1>1. /\ RunTypeOK /\ StopInv /\ BeforeInv /\ LateInv /\ ClassInv
      /\ step = "measurement" /\ verdict # "running" /\ measurement' = status /\ runErr' = verdict
      /\ step' = "collect"
      /\ UNCHANGED <<plan, cancelled, phaseVars, transitions, drain, warmup, executionVars>>
  BY DEF RunInv, LeaveMeasurement
<1>2. PhaseState(MeasuredRequests, TRUE) /\ WarmupClean /\ verdict \in Verdict
  BY <1>1 DEF BeforeInv, RunTypeOK
<1>3. ~drain.timedOut /\ errorClass = "none"
  BY <1>1 DEF BeforeInv, ClassInv, Before, Judged
<1>4. RunTypeOK'
  BY <1>1, <1>2 DEF RunTypeOK, phaseVars, Behind
<1>5. StopInv' /\ LateInv'
  BY <1>1 DEF StopInv, LateInv, LimitReason, OpenLoop
<1>6. StoppedOnce' /\ Current' = "drain"
  <2>1. boundary # "open"
    BY <1>2 DEF PhaseState, Verdict
  <2> QED
    BY <1>1, <1>2, <2>1 DEF PhaseState, StoppedOnce, Current
<1>7. WarmupClean'
  BY <1>1, <1>2 DEF WarmupClean, OpenLoop
<1>8. /\ verdict = "none" => status \in [1 .. MeasuredRequests -> Ended]
      /\ verdict = "parent" => drain.parentCancelled
  BY <1>2 DEF PhaseState
<1>9. BeforeInv'
  BY <1>1 DEF BeforeInv, Before
<1>10. ResultInv'
  BY <1>1, <1>3, <1>6, <1>7, <1>8 DEF ResultInv
<1>11. ClassInv'
  BY <1>1, <1>3 DEF ClassInv, executionVars, Judged
<1> QED
  BY <1>4, <1>5, <1>9, <1>10, <1>11 DEF RunInv

LEMMA KeepsCollectMeasurement == RunInv /\ CollectMeasurement => RunInv'
<1> SUFFICES ASSUME RunInv, CollectMeasurement PROVE RunInv'
  OBVIOUS
<1>1. /\ RunTypeOK /\ StopInv /\ ResultInv /\ LateInv /\ ClassInv
      /\ step = "collect" /\ step' = "finish"
      /\ drain' = [timedOut |-> runErr = "drain", parentCancelled |-> drain.parentCancelled \/ cancelled]
      /\ UNCHANGED <<plan, cancelled, phaseVars, transitions, resultVars, executionVars>>
  BY DEF RunInv, CollectMeasurement
<1>2. /\ drain' \in [timedOut : BOOLEAN, parentCancelled : BOOLEAN]
      /\ drain'.timedOut <=> runErr = "drain"
      /\ drain'.parentCancelled <=> drain.parentCancelled \/ cancelled
  BY <1>1
<1>3. RunTypeOK'
  BY <1>1, <1>2 DEF RunTypeOK, phaseVars, resultVars, Behind
<1>4. StopInv' /\ LateInv'
  BY <1>1, <1>2 DEF StopInv, LateInv, LimitReason, OpenLoop
<1>5. BeforeInv'
  BY <1>1 DEF BeforeInv, Before
<1>6. ResultInv'
  BY <1>1, <1>2 DEF ResultInv, WarmupClean, OpenLoop, StoppedOnce, Current, resultVars, Behind
<1>7. ClassInv'
  BY <1>1 DEF ClassInv, executionVars, Judged
<1> QED
  BY <1>3, <1>4, <1>5, <1>6, <1>7 DEF RunInv

LEMMA KeepsFinishLifecycle == RunInv /\ FinishLifecycle => RunInv'
<1> SUFFICES ASSUME RunInv, FinishLifecycle PROVE RunInv'
  OBVIOUS
<1>1. /\ RunTypeOK /\ StopInv /\ ResultInv /\ LateInv /\ ClassInv
      /\ step = "finish" /\ step' = "classify"
      /\ UNCHANGED <<plan, cancelled, phaseVars, drain, resultVars, executionVars>>
  BY DEF RunInv, FinishLifecycle
<1>2. LegalLog(transitions) /\ StoppedOnce /\ LastPhase(transitions) = "drain" /\ Current = "drain"
  BY <1>1 DEF RunTypeOK, ResultInv, Current, LastPhase, Behind
<1>3. transitions' = Entered(transitions, "artifacts", "drain_complete")
  <2>1. transitions' = (transitions \o <<>>) \o Enter("artifacts", "drain_complete")
    BY <1>2 DEF FinishLifecycle
  <2>2. transitions \o <<>> = transitions
    BY <1>2, ConcatEmptySeq DEF LegalLog
  <2> QED
    BY <2>1, <2>2 DEF Entered
<1>4. <<LastPhase(transitions), "artifacts">> \in LegalTransition
      /\ "artifacts" \in Phases /\ "drain_complete" \in Reasons
  BY <1>2 DEF LegalTransition, Phases, Reasons
<1>5. /\ LegalLog(transitions') /\ LastPhase(transitions') = "artifacts"
      /\ Stops(transitions') = Stops(transitions)
      /\ Len(transitions) \in Nat /\ Len(transitions') = Len(transitions) + 1
      /\ \A i \in 1 .. Len(transitions) : transitions'[i] = transitions[i]
  <2> DEFINE longer == Entered(transitions, "artifacts", "drain_complete")
  <2>1. /\ LegalLog(longer) /\ LastPhase(longer) = "artifacts"
        /\ Len(transitions) \in Nat /\ Len(longer) = Len(transitions) + 1
        /\ \A i \in 1 .. Len(transitions) : longer[i] = transitions[i]
    BY <1>2, <1>4, EnterExtends
  <2>2. Stops(longer) = Stops(transitions) \cup
             (IF "artifacts" = "stop_admission" THEN {Len(transitions) + 1} ELSE {})
    BY <1>2, <1>4, EnterExtends
  <2> HIDE DEF longer
  <2>3. Stops(longer) = Stops(transitions)
    BY <2>2
  <2>4. transitions' = longer
    BY <1>3 DEF longer
  <2> QED
    BY <2>1, <2>3, <2>4
<1>6. RunTypeOK'
  BY <1>1, <1>5 DEF RunTypeOK, phaseVars, resultVars, Behind
<1>7. StopInv' /\ LateInv'
  BY <1>1, <1>5 DEF StopInv, LateInv, LimitReason, OpenLoop, Stops
<1>8. BeforeInv'
  BY <1>1 DEF BeforeInv, Before
<1>9. StoppedOnce' /\ Current' = "artifacts"
  BY <1>2, <1>5 DEF StoppedOnce, Current, LastPhase
<1>10. ResultInv'
  BY <1>1, <1>9 DEF ResultInv, WarmupClean, OpenLoop, resultVars, Behind
<1>11. ClassInv'
  BY <1>1 DEF ClassInv, executionVars, Judged
<1> QED
  BY <1>6, <1>7, <1>8, <1>10, <1>11 DEF RunInv

(***************************************************************************)
(* What the result says                                                    *)
(***************************************************************************)

(* How many of a phase's requests ended one way                            *)
LEMMA CountBounds ==
  ASSUME NEW n \in Nat, NEW f, DOMAIN f = 1 .. n, NEW S
  PROVE  /\ Count(f, S) \in 0 .. n
         /\ Count(f, S) = 0 <=> \A s \in 1 .. n : f[s] \notin S
         /\ Count(f, S) = n <=> \A s \in 1 .. n : f[s] \in S
<1> DEFINE T == {s \in 1 .. n : f[s] \in S}
<1>1. IsFiniteSet(1 .. n) /\ Cardinality(1 .. n) = n
  BY FS_Interval
<1>2. T \subseteq 1 .. n /\ Count(f, S) = Cardinality(T)
  BY DEF Count
<1> HIDE DEF T
<1>3. /\ IsFiniteSet(T) /\ Cardinality(T) \in Nat /\ Cardinality(T) <= n
      /\ Cardinality(T) = n => T = 1 .. n
  BY <1>1, <1>2, FS_Subset, FS_CardinalityType
<1>4. Cardinality(T) = 0 <=> T = {}
  BY <1>3, FS_EmptySet
<1>5. T = {} <=> \A s \in 1 .. n : f[s] \notin S
  BY DEF T
<1>6. T = 1 .. n <=> \A s \in 1 .. n : f[s] \in S
  BY DEF T
<1> QED
  BY <1>1, <1>2, <1>3, <1>4, <1>5, <1>6

(* The reason of the only stop                                             *)
LEMMA StopReasonIs ==
  ASSUME LegalLog(transitions), StoppedOnce, StopInv
  PROVE  drain.parentCancelled \/ StopReason = LimitReason
<1>1. PICK i \in 1 .. Len(transitions) : Stops(transitions) = {i}
  BY DEF StoppedOnce
<1>2. DOMAIN transitions = 1 .. Len(transitions) /\ i \in Nat
  BY <1>1, LenProperties DEF LegalLog
<1>3. {k \in DOMAIN transitions : transitions[k].phase = "stop_admission"} = {i}
  BY <1>1, <1>2 DEF Stops
<1>4. i \in {i} /\ \A j \in {i} : i <= j
  BY <1>2
<1>5. (CHOOSE k \in {i} : \A j \in {i} : k <= j) = i
  BY <1>4
<1>6. StopReason = transitions[i].reason
  BY <1>3, <1>5 DEF StopReason
<1> QED
  BY <1>1, <1>6 DEF StopInv

(* The writer refuses only what was cancelled without an error             *)
LEMMA RefusesOnlyLate ==
  ASSUME RunInv, step \in Judged, ~Acceptable
  PROVE  runErr = "none" /\ drain.parentCancelled
<1>1. /\ RunTypeOK /\ StopInv /\ ResultInv /\ ClassInv /\ step \in Behind
      /\ WarmupRequests \in Nat \ {0} /\ MeasuredRequests \in Nat \ {0}
  BY LifecycleAssumption DEF RunInv, Judged, Behind
<1>2. /\ LegalLog(transitions) /\ StoppedOnce /\ runErr \in Verdict
      /\ runErr = "none" => WarmupClean /\ measurement \in [1 .. MeasuredRequests -> Ended]
      /\ drain.timedOut <=> runErr = "drain"
      /\ plan.warmupRequests \in Nat
  BY <1>1 DEF RunTypeOK, ResultInv, Judged
<1>3. OpenLoop /\ ~drain.parentCancelled => StopReason = "measurement_duration_elapsed"
  BY <1>1, <1>2, StopReasonIs DEF LimitReason
<1>4. errorClass = "load_delivery_error" =>
        OpenLoop /\ runStatus = "failed" /\ Undelivered(measurement) > 0 /\ ~drain.parentCancelled
  BY <1>1 DEF ClassInv, LoadLimited
<1>5. /\ runStatus = "completed"
      /\ ~ (/\ Failed(warmup) = 0 /\ Failed(measurement) = 0
            /\ ~drain.timedOut /\ ~drain.parentCancelled
            /\ ~OpenLoop => AllAttempted
            /\ OpenLoop => Attempted(measurement) = MeasuredRequests)
  BY <1>3, <1>4 DEF Acceptable
<1>6. runErr = "none" /\ ~LoadLimited /\ ~Incomplete
  BY <1>1, <1>5 DEF ClassInv
<1>7. DOMAIN warmup = 1 .. plan.warmupRequests /\ DOMAIN measurement = 1 .. MeasuredRequests
  BY <1>2, <1>6 DEF WarmupClean
<1>8. Failed(warmup) \in Nat /\ Failed(measurement) \in Nat /\ Undelivered(measurement) \in Nat
  BY <1>1, <1>2, <1>7, CountBounds DEF Failed, Undelivered
<1>9. Failed(warmup) = 0 /\ Failed(measurement) = 0 /\ ~drain.timedOut /\ (~OpenLoop => AllAttempted)
  BY <1>2, <1>6, <1>8 DEF Incomplete
<1>10. CASE OpenLoop /\ ~drain.parentCancelled
  <2>1. Undelivered(measurement) = 0
    BY <1>6, <1>8, <1>10 DEF LoadLimited
  <2>2. \A s \in 1 .. MeasuredRequests : measurement[s] \notin {"dropped"}
    BY <1>1, <1>7, <2>1, CountBounds DEF Undelivered
  <2>3. \A s \in 1 .. MeasuredRequests : measurement[s] \in Outcome
    BY <1>2, <1>6, <2>2 DEF Ended
  <2>4. Attempted(measurement) = MeasuredRequests
    BY <1>1, <1>7, <2>3, CountBounds DEF Attempted
  <2> QED
    BY <1>5, <1>9, <1>10, <2>4
<1> QED
  BY <1>5, <1>6, <1>9, <1>10

LEMMA KeepsClassifyRun == RunInv /\ ClassifyRun => RunInv'
<1> SUFFICES ASSUME RunInv, ClassifyRun PROVE RunInv'
  OBVIOUS
<1>1. /\ RunTypeOK /\ StopInv /\ ResultInv /\ LateInv /\ ClassInv
      /\ step = "classify" /\ step' = "validate"
      /\ UNCHANGED <<plan, cancelled, phaseVars, transitions, drain, resultVars>>
  BY DEF RunInv, ClassifyRun
<1>2. errorClass = "none"
  BY <1>1 DEF ClassInv, Judged
<1>3. RunTypeOK'
  BY <1>1 DEF RunTypeOK, phaseVars, resultVars, Behind
<1>4. StopInv' /\ LateInv' /\ BeforeInv'
  BY <1>1 DEF StopInv, LateInv, LimitReason, OpenLoop, BeforeInv, Before
<1>5. ResultInv'
  BY <1>1 DEF ResultInv, WarmupClean, OpenLoop, StoppedOnce, Current, resultVars, Behind
<1>6. ClassInv'
  <2>1. /\ RunCancelled' = RunCancelled /\ LoadLimited' = LoadLimited /\ Incomplete' = Incomplete
        /\ runErr' = runErr
    BY <1>1 DEF RunCancelled, LoadLimited, Incomplete, OpenLoop, AllAttempted, Failed, Attempted,
                Undelivered, resultVars
  <2>2. runStatus' = (IF Incomplete THEN "failed" ELSE "completed")
          <=> runStatus' = (IF Failed(warmup) > 0 \/ Failed(measurement) > 0 \/ (~OpenLoop /\ ~AllAttempted)
                            THEN "failed" ELSE "completed")
    BY DEF Incomplete
  <2> QED
    BY <1>1, <1>2, <2>1, <2>2 DEF ClassInv, ClassifyRun, Judged
<1> QED
  BY <1>3, <1>4, <1>5, <1>6 DEF RunInv

LEMMA KeepsWriteArtifacts == RunInv /\ WriteArtifacts => RunInv'
<1> SUFFICES ASSUME RunInv, WriteArtifacts PROVE RunInv'
  OBVIOUS
<1>1. /\ RunTypeOK /\ StopInv /\ ResultInv /\ LateInv /\ ClassInv
      /\ step = "validate" /\ step' = (IF Acceptable THEN "published" ELSE "rejected")
      /\ UNCHANGED <<plan, cancelled, phaseVars, transitions, drain, resultVars, executionVars>>
  BY DEF RunInv, WriteArtifacts
<1>2. RunTypeOK'
  BY <1>1 DEF RunTypeOK, phaseVars, resultVars, Behind
<1>3. StopInv' /\ LateInv' /\ BeforeInv'
  BY <1>1 DEF StopInv, LateInv, LimitReason, OpenLoop, BeforeInv, Before
<1>4. ResultInv'
  BY <1>1 DEF ResultInv, WarmupClean, OpenLoop, StoppedOnce, Current, resultVars, Behind
<1>5. ClassInv'
  <2>1. /\ RunCancelled' = RunCancelled /\ LoadLimited' = LoadLimited /\ Incomplete' = Incomplete
        /\ Acceptable' = Acceptable
        /\ UNCHANGED <<runErr, runStatus, errorClass>>
    BY <1>1 DEF RunCancelled, LoadLimited, Incomplete, Acceptable, StopReason, OpenLoop, AllAttempted,
                Failed, Attempted, Undelivered, resultVars, executionVars
  <2>2. (step' = "published" => Acceptable) /\ (step' = "rejected" => ~Acceptable)
    BY <1>1
  <2> QED
    BY <1>1, <2>1, <2>2 DEF ClassInv, Judged
<1> QED
  BY <1>2, <1>3, <1>4, <1>5 DEF RunInv

LEMMA KeepsCancelParent == RunInv /\ CancelParent => RunInv'
<1> SUFFICES ASSUME RunInv, CancelParent PROVE RunInv'
  OBVIOUS
<1>1. /\ RunTypeOK /\ StopInv /\ BeforeInv /\ ResultInv /\ LateInv /\ ClassInv
      /\ cancelled' = TRUE /\ step \notin Judged
      /\ UNCHANGED <<plan, phaseVars, step, transitions, drain, resultVars, executionVars>>
  BY DEF RunInv, CancelParent, Judged
<1>2. RunTypeOK'
  BY <1>1 DEF RunTypeOK, phaseVars, resultVars
<1>3. StopInv' /\ LateInv'
  BY <1>1 DEF StopInv, LateInv, LimitReason, OpenLoop
<1>4. BeforeInv'
  BY <1>1 DEF BeforeInv, WarmupClean, PhaseState, NotStopped, StoppedOnce, Current, OpenLoop,
              phaseVars, resultVars
<1>5. ResultInv'
  BY <1>1 DEF ResultInv, WarmupClean, OpenLoop, StoppedOnce, Current, resultVars
<1>6. ClassInv'
  BY <1>1 DEF ClassInv, executionVars, Judged
<1> QED
  BY <1>2, <1>3, <1>4, <1>5, <1>6 DEF RunInv

LEMMA KeepsStuttering == RunInv /\ UNCHANGED vars => RunInv'
<1> SUFFICES ASSUME RunInv, UNCHANGED vars PROVE RunInv'
  OBVIOUS
<1>1. /\ RunTypeOK /\ StopInv /\ BeforeInv /\ ResultInv /\ LateInv /\ ClassInv
      /\ UNCHANGED <<plan, cancelled, phaseVars, step, transitions, drain, resultVars, executionVars>>
  BY DEF RunInv, vars
<1>2. RunTypeOK' /\ StopInv' /\ LateInv'
  BY <1>1 DEF RunTypeOK, StopInv, LateInv, LimitReason, OpenLoop, phaseVars, resultVars
<1>3. BeforeInv'
  BY <1>1 DEF BeforeInv, WarmupClean, PhaseState, NotStopped, StoppedOnce, Current, OpenLoop,
              phaseVars, resultVars
<1>4. ResultInv'
  BY <1>1 DEF ResultInv, WarmupClean, OpenLoop, StoppedOnce, Current, resultVars
<1>5. ClassInv'
  <2>1. /\ RunCancelled' = RunCancelled /\ LoadLimited' = LoadLimited /\ Incomplete' = Incomplete
        /\ Acceptable' = Acceptable
        /\ UNCHANGED <<step, runErr, runStatus, errorClass>>
    BY <1>1 DEF RunCancelled, LoadLimited, Incomplete, Acceptable, StopReason, OpenLoop, AllAttempted,
                Failed, Attempted, Undelivered, resultVars, executionVars
  <2> QED
    BY <1>1, <2>1 DEF ClassInv
<1> QED
  BY <1>2, <1>3, <1>4, <1>5 DEF RunInv

(* Whatever a phase, its callbacks, the parent and the writer do, the      *)
(* transition log, the drain and the error stay in step with what has      *)
(* happened to the requests (lifecycle.go, executor.go).                   *)
THEOREM RunInvariant == Spec => []RunInv
<1>1. RunInv /\ [Next]_vars => RunInv'
  <2> SUFFICES ASSUME RunInv, [Next]_vars PROVE RunInv'
    OBVIOUS
  <2>1. CASE RunStep
    BY <2>1, KeepsCancelledInSetup, KeepsStartWarmup, KeepsLeaveWarmup, KeepsStartMeasurement,
       KeepsLeaveMeasurement, KeepsCollectMeasurement, KeepsFinishLifecycle, KeepsClassifyRun,
       KeepsWriteArtifacts DEF RunStep
  <2>2. CASE WarmupStep
    BY <2>2, KeepsWarmupStep
  <2>3. CASE MeasurementStep
    BY <2>3, KeepsMeasurementStep
  <2>4. CASE CancelParent
    BY <2>4, KeepsCancelParent
  <2>5. CASE Terminated \/ UNCHANGED vars
    BY <2>5, KeepsStuttering DEF Terminated
  <2> QED
    BY <2>1, <2>2, <2>3, <2>4, <2>5 DEF Next
<1> QED
  BY RunInit, <1>1, PTL DEF Spec

(***************************************************************************)
(* The properties of the runs                                              *)
(***************************************************************************)

(* legalTransition never refuses: whenever the callbacks and               *)
(* finishLifecycle come, each phase of the log may follow the one before.  *)
THEOREM TransitionsCorrect == Spec => []TransitionsLegal
<1>1. RunInv => TransitionsLegal
  BY DEF RunInv, RunTypeOK, LegalLog, TransitionsLegal
<1> QED
  BY RunInvariant, <1>1, PTL

(* Measurement begins with every warmup request ended or dropped, with no  *)
(* cancellation of the warmup in the result, and in closed loop with no    *)
(* warmup request lost to one (LifecycleCoordinator.Run).                  *)
THEOREM MeasurementStartsCleanCorrect == Spec => []MeasurementStartsClean
<1>1. RunInv => MeasurementStartsClean
  <2> SUFFICES ASSUME RunInv, step = "measurement" PROVE MeasurementStartsClean
    BY DEF MeasurementStartsClean, CancelledWarmupSkipsMeasurement
  <2>1. /\ WarmupClean /\ (drain.parentCancelled <=> reported)
        /\ plan.warmupRequests \in Nat
    BY LifecycleAssumption DEF RunInv, RunTypeOK, BeforeInv, PhaseState
  <2>2. warmup \in [1 .. plan.warmupRequests -> Ended] /\ DOMAIN warmup = 1 .. plan.warmupRequests
    BY <2>1 DEF WarmupClean
  <2>3. Len(warmup) = plan.warmupRequests
    BY <2>1, <2>2
  <2>4. ASSUME ~OpenLoop PROVE Count(warmup, {"parent_cancelled"}) = 0
    BY <2>1, <2>2, <2>4, CountBounds DEF WarmupClean
  <2> QED
    BY <2>1, <2>2, <2>3, <2>4 DEF MeasurementStartsClean, CancelledWarmupSkipsMeasurement, Ended
<1> QED
  BY RunInvariant, <1>1, PTL

(* A published run that claims completion succeeded on every measured      *)
(* request and hides nothing; a cancelled one says so; and only a run      *)
(* cancelled too late for any phase to notice goes unpublished             *)
(* (classifyRun, validateMetadata).                                        *)
THEOREM PublishedHonestCorrect == Spec => []PublishedStatusIsHonest
<1>1. RunInv => PublishedStatusIsHonest
  <2> SUFFICES ASSUME RunInv PROVE PublishedStatusIsHonest
    OBVIOUS
  <2>1. /\ RunTypeOK /\ ResultInv /\ LateInv /\ ClassInv /\ MeasuredRequests \in Nat \ {0}
    BY LifecycleAssumption DEF RunInv
  <2>2. step = "rejected" => cancelled /\ runErr = "none" /\ drain.parentCancelled
    BY <2>1, RefusesOnlyLate DEF ClassInv, Judged, LateInv
  <2>3. ASSUME step = "published", runStatus = "completed"
        PROVE  /\ Count(measurement, {"succeeded"}) = MeasuredRequests
               /\ Failed(warmup) = 0 /\ ~drain.parentCancelled /\ ~drain.timedOut
    <3>1. /\ Failed(warmup) = 0 /\ Failed(measurement) = 0
          /\ ~drain.timedOut /\ ~drain.parentCancelled
          /\ Attempted(measurement) = MeasuredRequests
      BY <2>1, <2>3 DEF ClassInv, Acceptable, AllAttempted
    <3>2. runErr = "none"
      BY <2>1, <2>3 DEF ClassInv, Judged
    <3>3. measurement \in [1 .. MeasuredRequests -> Ended] /\ DOMAIN measurement = 1 .. MeasuredRequests
      BY <2>1, <2>3, <3>2 DEF ResultInv, Behind
    <3>4. \A s \in 1 .. MeasuredRequests : measurement[s] \in Outcome
      BY <2>1, <3>1, <3>3, CountBounds DEF Attempted
    <3>5. \A s \in 1 .. MeasuredRequests : measurement[s] \notin Outcome \ {"succeeded"}
      BY <2>1, <3>1, <3>3, CountBounds DEF Failed
    <3>6. Count(measurement, {"succeeded"}) = MeasuredRequests
      BY <2>1, <3>3, <3>4, <3>5, CountBounds
    <3> QED
      BY <3>1, <3>6
  <2>4. ASSUME step = "published", runStatus = "cancelled"
        PROVE  drain.parentCancelled /\ ~drain.timedOut
    <3>1. runErr # "none" /\ RunCancelled
      BY <2>1, <2>4 DEF ClassInv, Judged
    <3> QED
      BY <2>1, <2>4, <3>1 DEF RunCancelled, ResultInv, Behind
  <2> QED
    BY <2>2, <2>3, <2>4 DEF PublishedStatusIsHonest, RejectedOnlyWhenCancelledLate
<1> QED
  BY RunInvariant, <1>1, PTL

=============================================================================
