----------------------------- MODULE BenchProofs -----------------------------
(***************************************************************************)
(* Theorems about Bench: what a command runs, what its evidence says, and  *)
(* what its exit status means, for every configuration, every result that  *)
(* the lifecycle may return and every observation of a request.            *)
(***************************************************************************)
EXTENDS Bench, RunSummaryProofs

(***************************************************************************)
(* The workload builder                                                    *)
(***************************************************************************)

(* Build is beyond its look at the model's length                          *)
Searching == {"atoms", "blocks", "suffix"}

(* What observeMaxLength keeps: as long as no call was refused, the length *)
(* it remembers is the only one that was answered.                         *)
LengthInv ==
  bStep # "refused" => lengths = (IF maxLength = 0 THEN {} ELSE {maxLength})

(* The search and its result know a length, and it holds the workload.     *)
FitInv ==
  bStep \in Searching \cup {"prepared"} => maxLength \in Nat \ {0} /\ FitsModel(maxLength)

(* What Build returns is what the last answer was about.                   *)
AnswerInv ==
  bStep = "prepared" => answered = [prompt |-> prepared, count |-> spec.target]

(* PreparedIsExact is not inductive: it says nothing of the steps before   *)
(* the last one.                                                           *)
BuilderInv == LengthInv /\ FitInv /\ AnswerInv

(* An accepted length is positive, and the one before if there was one.    *)
LEMMA AcceptedLength ==
  ASSUME NEW prompt, NEW count, NEW length \in Lengths,
         LengthInv, bStep # "refused", Counted(prompt, count, length)
  PROVE  /\ maxLength' = length
         /\ maxLength' \in Nat \ {0}
         /\ maxLength # 0 => maxLength' = maxLength
         /\ lengths' = {maxLength'}
         /\ answered' = [prompt |-> prompt, count |-> count]
  <1>1. length \in Int /\ length > 0 /\ maxLength \in {0, length}
    BY BuilderAssumption DEF Counted, LengthAccepted
  <1>2. length # 0
    BY <1>1
  <1>3. lengths' = {length}
    BY <1>1, <1>2 DEF LengthInv, Counted, Answer
  <1> QED
    BY <1>1, <1>2, <1>3 DEF Counted, Answer

LEMMA BuilderStarts == BuilderInit => BuilderInv
  BY DEF BuilderInit, BuilderInv, LengthInv, FitInv, AnswerInv, Searching

LEMMA StartKeeps ==
  ASSUME BuilderInv, NEW target, NEW output, StartBuild(target, output)
  PROVE  BuilderInv'
  BY DEF BuilderInv, LengthInv, FitInv, AnswerInv, Searching, StartBuild, answers

LEMMA ProbeKeeps ==
  ASSUME BuilderInv, Probe
  PROVE  BuilderInv'
  <1>1. PICK count \in 0 .. MaxCount, length \in Lengths : Counted(Empty, count, length)
    BY DEF Probe
  <1>2. lengths' = {maxLength'} /\ maxLength' \in Nat \ {0}
    BY <1>1, AcceptedLength DEF BuilderInv, Probe
  <1>3. bStep' \in {"probe", "minimum"}
    BY DEF Probe
  <1> QED
    BY <1>2, <1>3 DEF BuilderInv, LengthInv, FitInv, AnswerInv, Searching

LEMMA CountMinimumKeeps ==
  ASSUME BuilderInv, CountMinimum
  PROVE  BuilderInv'
  <1>1. PICK count \in 0 .. MaxCount, length \in Lengths :
          /\ Counted(Empty, count, length)
          /\ \/ Refuse
             \/ spec.target = count /\ FitsModel(length) /\ Prepare(Empty)
             \/ FitsModel(length) /\ bStep' # "prepared" /\ UNCHANGED spec
    BY DEF CountMinimum, LoopAfter
  <1>2. /\ lengths' = {maxLength'} /\ maxLength' \in Nat \ {0} /\ maxLength' = length
        /\ answered' = [prompt |-> Empty, count |-> count]
    BY <1>1, AcceptedLength DEF BuilderInv, CountMinimum
  <1>3. LengthInv'
    BY <1>2 DEF LengthInv
  <1>4. CASE Refuse
    BY <1>3, <1>4 DEF BuilderInv, FitInv, AnswerInv, Searching, Refuse
  <1>5. CASE spec.target = count /\ FitsModel(length) /\ Prepare(Empty)
    BY <1>2, <1>3, <1>5 DEF BuilderInv, FitInv, FitsModel, AnswerInv, Prepare
  <1>6. CASE FitsModel(length) /\ bStep' # "prepared" /\ UNCHANGED spec
    BY <1>2, <1>3, <1>6 DEF BuilderInv, FitInv, FitsModel, AnswerInv
  <1> QED
    BY <1>1, <1>4, <1>5, <1>6

LEMMA TryCandidateKeeps ==
  ASSUME BuilderInv, TryCandidate
  PROVE  BuilderInv'
  <1>1. PICK count \in 0 .. MaxCount, length \in Lengths :
          /\ Counted(Candidate, count, length)
          /\ \/ count = spec.target /\ Prepare(Candidate)
             \/ bStep' # "prepared" /\ UNCHANGED spec
    BY DEF TryCandidate, LoopAfter
  <1>2. /\ lengths' = {maxLength'} /\ maxLength' \in Nat \ {0} /\ maxLength' = maxLength
        /\ answered' = [prompt |-> Candidate, count |-> count]
    BY <1>1, AcceptedLength DEF BuilderInv, FitInv, Searching, TryCandidate
  <1>3. UNCHANGED spec
    BY <1>1 DEF Prepare
  <1>4. LengthInv' /\ FitInv'
    BY <1>2, <1>3 DEF BuilderInv, LengthInv, FitInv, FitsModel, Searching, TryCandidate
  <1>5. AnswerInv'
    BY <1>1, <1>2, <1>3 DEF AnswerInv, Prepare
  <1> QED
    BY <1>4, <1>5 DEF BuilderInv

LEMMA CallFailsKeeps ==
  ASSUME BuilderInv, CallFails
  PROVE  BuilderInv'
  BY DEF BuilderInv, LengthInv, FitInv, AnswerInv, Searching, CallFails, Refuse

LEMMA BuilderStepKeeps ==
  ASSUME BuilderInv, BuilderStep
  PROVE  BuilderInv'
  BY ProbeKeeps, CountMinimumKeeps, TryCandidateKeeps, CallFailsKeeps DEF BuilderStep

LEMMA BuilderStutters ==
  ASSUME BuilderInv, UNCHANGED builderVars
  PROVE  BuilderInv'
  BY DEF BuilderInv, LengthInv, FitInv, FitsModel, AnswerInv, Searching, builderVars, answers

LEMMA InvMeansExact == BuilderInv => PreparedIsExact
  BY DEF BuilderInv, LengthInv, FitInv, FitsModel, AnswerInv, Searching, PreparedIsExact

(* The builder keeps its invariant, whatever it is asked for.              *)
THEOREM BuilderInvariant == BuilderSpec => []BuilderInv
  <1>1. ASSUME BuilderInv, [\E t, o \in Nat \ {0} : StartBuild(t, o) \/ BuilderStep]_builderVars
        PROVE  BuilderInv'
    BY <1>1, StartKeeps, BuilderStepKeeps, BuilderStutters
  <1> QED
    BY BuilderStarts, <1>1, PTL DEF BuilderSpec

(* A prepared prompt was counted as a whole, its count was the target, and *)
(* it fits the one length the tokenizer gave (builder.go:85, vllm.go:132). *)
THEOREM PreparedIsExactCorrect == BuilderSpec => []PreparedIsExact
  BY BuilderInvariant, InvMeansExact, PTL

(***************************************************************************)
(* The requests and arrivals of a phase                                    *)
(***************************************************************************)

Dispositions == {"unclaimed", "started", "client_limited", "scheduler_limited"}

(* the result of a request agrees with its observation                     *)
OutcomeAgrees(outcome, observation) ==
  /\ outcome \in Outcomes
  /\ observation \in Observations
  /\ observation.requested = (plan.timing = "vllm")
  /\ (outcome = "succeeded") = (observation.error = "none")

(* what a request of a phase may come to                                   *)
FateOK(f, measured) ==
  /\ f.disposition \in Dispositions
  /\ f.disposition \in {"client_limited", "scheduler_limited"} => OpenLoopRun
  /\ f.disposition = "scheduler_limited" => measured
  /\ f.disposition = "started" => OutcomeAgrees(f.outcome, f.observation)

FatesOK(fates, n, measured) ==
  /\ \E F : fates \in [1 .. n -> F]
  /\ \A s \in 1 .. n : FateOK(fates[s], measured)

Completion ==
  [sequence : Nat, phase : {"warmup", "measured"}, outcome : Outcomes, observation : Observations]

CompletedOK(completed, phase, requested) ==
  /\ completed \in Seq(Completion)
  /\ Len(completed) <= requested
  /\ Distinct(completed)
  /\ \A i \in DOMAIN completed :
       /\ completed[i].phase = phase
       /\ completed[i].sequence \in 1 .. requested
       /\ OutcomeAgrees(completed[i].outcome, completed[i].observation)

ArrivalsOK(p) ==
  /\ \E T : p.arrivals \in Seq(T)
  /\ \A i \in DOMAIN p.arrivals :
       /\ p.arrivals[i].phase = p.phase
       /\ p.arrivals[i].disposition = "started" => p.arrivals[i].lag \in Nat
  /\ OnSchedule(plan.load, p.arrivals)
  /\ CountsAddUp(p.counts, p.arrivals, Len(p.completed), plan.load.maxInFlight)
  /\ ArrivalsMatch(p.counts, p.arrivals, p.completed)

ClosedPhaseOK(p) ==
  /\ p.arrivals = <<>> /\ p.counts = NoCounts
  /\ p.concurrency = plan.load.concurrency
  /\ \/ p.status = "skipped" /\ p.workers = 0 /\ p.maxActive = 0 /\ p.completed = <<>>
     \/ /\ p.status \in RunStatuses
        /\ p.workers = Workers(p.requested)
        /\ p.maxActive \in 0 .. p.workers

OpenPhaseOK(p) ==
  /\ ArrivalsOK(p)
  /\ p.counts # NoCounts
  /\ p.counts.planned = p.requested
  /\ p.counts.unprocessed \in Nat
  /\ p.counts.clientLimited \in Nat /\ p.counts.schedulerLimited \in Nat
  /\ p.phase = "warmup" => p.counts.schedulerLimited = 0
  /\ \/ p.status = "skipped" /\ p.counts.processed = 0 /\ p.counts.unprocessed = p.requested
     \/ p.status \in RunStatuses

PhaseOK(p, phase, requested) ==
  /\ p.phase = phase /\ p.requested = requested /\ p.elapsed \in Nat
  /\ p.completed # <<>> => p.elapsed > 0
  /\ CompletedOK(p.completed, phase, requested)
  /\ IF OpenLoopRun THEN OpenPhaseOK(p) ELSE ClosedPhaseOK(p)

(* The fates that the model chooses from are such.                         *)
LEMMA FatesAreOK ==
  ASSUME NEW n \in Nat, NEW measured \in BOOLEAN, NEW fates \in Fates(n, measured)
  PROVE  FatesOK(fates, n, measured)
<1> DEFINE possible  == {o \in Observations : o.requested = (plan.timing = "vllm")}
           succeeded == {o \in possible : o.error = "none"}
<1>1. \E o \in Observations : o.requested = (plan.timing = "vllm") /\ o.error = "none"
  <2>1. (plan.timing = "vllm") \in BOOLEAN
    OBVIOUS
  <2> QED
    BY <2>1, ObservationAssumption
<1>2. (CHOOSE o \in succeeded : TRUE) \in succeeded
  BY <1>1
<1>3. Observed(measured) \subseteq possible
  <2> HIDE DEF succeeded
  <2>1. Observed(measured) = IF measured THEN possible
                             ELSE (possible \ succeeded) \cup {CHOOSE o \in succeeded : TRUE}
    BY DEF Observed, succeeded
  <2>2. succeeded \subseteq possible
    BY DEF succeeded
  <2> QED
    BY <1>2, <2>1, <2>2
<1>4. ASSUME NEW f \in StartedFates(measured) PROVE FateOK(f, measured)
  <2>1. PICK o \in Observed(measured), failure \in Outcomes \ {"succeeded"} :
          f = Fate("started", IF o.error = "none" THEN "succeeded" ELSE failure, o)
    BY DEF StartedFates
  <2>2. o \in Observations /\ o.requested = (plan.timing = "vllm")
    BY <1>3
  <2>3. /\ f.disposition = "started" /\ f.observation = o
        /\ f.outcome = IF o.error = "none" THEN "succeeded" ELSE failure
    BY <2>1 DEF Fate
  <2>4. f.outcome \in Outcomes /\ (f.outcome = "succeeded") = (o.error = "none")
    BY <2>3 DEF Outcomes
  <2> QED
    BY <2>2, <2>3, <2>4 DEF FateOK, OutcomeAgrees, Dispositions
<1>5. ASSUME NEW f \in Dropped(measured) PROVE FateOK(f, measured)
  <2>1. OpenLoopRun /\ f.disposition \in {"client_limited"} \cup
                                         (IF measured THEN {"scheduler_limited"} ELSE {})
    BY DEF Dropped, Fate
  <2> QED
    BY <2>1 DEF FateOK, Dispositions
<1>6. FateOK(Unclaimed, measured)
  BY DEF FateOK, Unclaimed, Fate, Dispositions
<1> QED
  BY <1>4, <1>5, <1>6 DEF Fates, FatesOK

(* The fates of a phase fall into four classes.                            *)
LEMMA Classes ==
  ASSUME NEW n \in Nat, NEW fates, NEW measured, FatesOK(fates, n, measured)
  PROVE  /\ DOMAIN fates = 1 .. n /\ Len(fates) = n
         /\ \A d \in Dispositions : /\ With(fates, d) \subseteq 1 .. n
                                    /\ Cardinality(With(fates, d)) \in Nat
         /\ (1 .. n) \ With(fates, "unclaimed") =
              With(fates, "started") \cup
                (With(fates, "client_limited") \cup With(fates, "scheduler_limited"))
         /\ Cardinality((1 .. n) \ With(fates, "unclaimed")) =
              n - Cardinality(With(fates, "unclaimed"))
         /\ n - Cardinality(With(fates, "unclaimed")) =
              Cardinality(With(fates, "started")) + Cardinality(With(fates, "client_limited"))
              + Cardinality(With(fates, "scheduler_limited"))
         /\ ~OpenLoopRun => /\ With(fates, "client_limited") = {}
                            /\ With(fates, "scheduler_limited") = {}
         /\ ~measured => With(fates, "scheduler_limited") = {}
<1> DEFINE U == With(fates, "unclaimed")
           S == With(fates, "started")
           C == With(fates, "client_limited")
           L == With(fates, "scheduler_limited")
           D == (1 .. n) \ U
<1>0. \A s \in 1 .. n : FateOK(fates[s], measured)
  BY DEF FatesOK
<1>1. DOMAIN fates = 1 .. n /\ Len(fates) = n
  <2>1. PICK F : fates \in [1 .. n -> F]
    BY DEF FatesOK
  <2>2. fates \in Seq(F)
    BY <2>1
  <2> QED
    BY <2>1, <2>2
<1>2. \A s \in 1 .. n : fates[s].disposition \in Dispositions
  BY <1>0 DEF FateOK
<1>3. U \subseteq 1 .. n /\ S \subseteq 1 .. n /\ C \subseteq 1 .. n /\ L \subseteq 1 .. n
  BY <1>1 DEF With
<1>4. /\ D = S \cup (C \cup L) /\ S \cap (C \cup L) = {} /\ C \cap L = {}
      /\ U \cap D = {} /\ U \cup D = 1 .. n
  BY <1>1, <1>2 DEF With, Dispositions
<1>5. (~OpenLoopRun => C = {} /\ L = {}) /\ (~measured => L = {})
  BY <1>0, <1>1 DEF With, FateOK
<1> HIDE DEF U, S, C, L, D
<1>6. D \subseteq 1 .. n /\ C \cup L \subseteq 1 .. n
  BY <1>3, <1>4
<1>7. /\ Cardinality(U) \in Nat /\ Cardinality(S) \in Nat /\ Cardinality(C) \in Nat
      /\ Cardinality(L) \in Nat /\ Cardinality(D) \in Nat
  BY <1>3, <1>6, FiniteIndices
<1>8. Cardinality(U) + Cardinality(D) = n
  <2>1. Cardinality(U \cup D) = Cardinality(U) + Cardinality(D)
    BY <1>3, <1>4, <1>6, PartsAdd
  <2>2. Cardinality(1 .. n) = n
    <3>1. Cardinality(1 .. n) = n - 1 + 1
      BY IntervalSize
    <3> QED
      BY <3>1
  <2>3. Cardinality(U \cup D) = n
    BY <1>4, <2>2
  <2> QED
    BY <2>1, <2>3
<1>9. Cardinality(D) = Cardinality(S) + Cardinality(C) + Cardinality(L)
  <2>1. Cardinality(S \cup (C \cup L)) = Cardinality(S) + Cardinality(C \cup L)
    BY <1>3, <1>4, <1>6, PartsAdd
  <2>2. Cardinality(C \cup L) = Cardinality(C) + Cardinality(L)
    BY <1>3, <1>4, PartsAdd
  <2> QED
    BY <1>4, <1>7, <2>1, <2>2
<1>10. /\ Cardinality(D) = n - Cardinality(U)
       /\ n - Cardinality(U) = Cardinality(S) + Cardinality(C) + Cardinality(L)
  BY <1>7, <1>8, <1>9
<1> QED
  BY <1>1, <1>3, <1>4, <1>5, <1>7, <1>10 DEF U, S, C, L, D, Dispositions

(* the requests of a phase: those of its started fates                     *)
CompletedOf(c, S) ==
  Len(c) = Cardinality(S) /\ \A i \in 1 .. Cardinality(S) : c[i].sequence = At(S, i)

LEMMA CompletedAre ==
  ASSUME NEW n \in Nat, NEW fates, NEW measured, FatesOK(fates, n, measured),
         NEW phase \in {"warmup", "measured"},
         NEW S, S = With(fates, "started"), NEW c, c = Completed(phase, fates)
  PROVE  CompletedOK(c, phase, n) /\ CompletedOf(c, S)
<1> DEFINE x == [s \in 1 .. n |-> [sequence    |-> s,
                                   phase       |-> phase,
                                   outcome     |-> fates[s].outcome,
                                   observation |-> fates[s].observation]]
<1>1. DOMAIN fates = 1 .. n /\ \A s \in 1 .. n : FateOK(fates[s], measured)
  BY DEF FatesOK
<1>2. S \subseteq 1 .. n /\ \A s \in S : fates[s].disposition = "started"
  BY <1>1 DEF With
<1>3. c = Those(x, S)
  BY <1>1 DEF Completed
<1>4. \A s \in S : OutcomeAgrees(fates[s].outcome, fates[s].observation)
  BY <1>1, <1>2 DEF FateOK
<1>5. \A s \in 1 .. n : /\ x[s].sequence = s /\ x[s].phase = phase
                        /\ x[s].outcome = fates[s].outcome
                        /\ x[s].observation = fates[s].observation
  OBVIOUS
<1>6. ASSUME NEW s \in S PROVE x[s] \in Completion
  <2>1. s \in Nat /\ s \in 1 .. n
    BY <1>2
  <2>2. fates[s].outcome \in Outcomes /\ fates[s].observation \in Observations
    BY <1>4 DEF OutcomeAgrees
  <2> QED
    BY <2>1, <2>2 DEF Completion
<1>7. \E T : x \in Seq(T) /\ Len(x) = n /\ DOMAIN x = 1 .. n
  <2>1. x \in [1 .. n -> {x[s] : s \in 1 .. n}]
    OBVIOUS
  <2> HIDE DEF x
  <2>2. x \in Seq({x[s] : s \in 1 .. n}) /\ Len(x) = n
    BY <2>1, SequenceOn
  <2> QED
    BY <2>2
<1> HIDE DEF x
<1>8. /\ Len(c) = Cardinality(S) /\ Cardinality(S) \in Nat /\ DOMAIN c = 1 .. Cardinality(S)
      /\ \A k \in 1 .. Cardinality(S) : At(S, k) \in S /\ c[k] = x[At(S, k)]
  <2>1. PICK T : x \in Seq(T) /\ Len(x) = n /\ DOMAIN x = 1 .. n
    BY <1>7
  <2>2. S \subseteq DOMAIN x
    BY <1>2, <2>1
  <2>3. /\ Those(x, S) \in Seq(T) /\ Len(Those(x, S)) = Cardinality(S) /\ Cardinality(S) \in Nat
        /\ \A k \in 1 .. Cardinality(S) : At(S, k) \in S /\ Those(x, S)[k] = x[At(S, k)]
    BY <2>1, <2>2, ThoseAre
  <2> QED
    BY <1>3, <2>3
<1>9. Cardinality(S) <= n
  BY <1>2, FiniteIndices
<1>10. \A k \in 1 .. Cardinality(S) :
         /\ c[k] \in Completion
         /\ c[k].sequence = At(S, k)
         /\ c[k].sequence \in 1 .. n
         /\ c[k].phase = phase
         /\ OutcomeAgrees(c[k].outcome, c[k].observation)
  <2> SUFFICES ASSUME NEW k \in 1 .. Cardinality(S)
               PROVE  /\ c[k] \in Completion
                      /\ c[k].sequence = At(S, k)
                      /\ c[k].sequence \in 1 .. n
                      /\ c[k].phase = phase
                      /\ OutcomeAgrees(c[k].outcome, c[k].observation)
    OBVIOUS
  <2>1. At(S, k) \in S /\ c[k] = x[At(S, k)] /\ At(S, k) \in 1 .. n
    BY <1>2, <1>8
  <2> QED
    BY <1>4, <1>5, <1>6, <2>1
<1>11. c \in Seq(Completion)
  <2>1. c = [k \in 1 .. Cardinality(S) |-> c[k]]
    BY <1>3, <1>8 DEF Those
  <2> QED
    BY <1>8, <1>10, <2>1
<1>12. Distinct(c)
  <2> SUFFICES ASSUME NEW i \in DOMAIN c, NEW j \in DOMAIN c, c[i].sequence = c[j].sequence
               PROVE  i = j
    BY DEF Distinct
  <2>1. i \in 1 .. Cardinality(S) /\ j \in 1 .. Cardinality(S) /\ At(S, i) = At(S, j)
    BY <1>8, <1>10
  <2>2. Rank(At(S, i), S) = i /\ Rank(At(S, j), S) = j
    BY <1>2, <2>1, AtRank
  <2> QED
    BY <2>1, <2>2
<1> QED
  BY <1>8, <1>9, <1>10, <1>11, <1>12 DEF CompletedOK, CompletedOf

(* the arrivals of an open-loop phase, and its counts                      *)
LEMMA LagIs ==
  ASSUME NEW s \in Nat \ {0}
  PROVE  Lag(s) \in Nat
<1>1. Len(Lags) \in Nat \ {0} /\ Lags \in Seq(Nat)
  BY LagAssumption
<1>2. (s - 1) % Len(Lags) \in 0 .. Len(Lags) - 1
  BY <1>1
<1>3. ((s - 1) % Len(Lags)) + 1 \in 1 .. Len(Lags)
  BY <1>1, <1>2
<1> QED
  BY <1>1, <1>3 DEF Lag

ArrivalsOf(a, D, phase, fates) ==
  /\ \E T : a \in Seq(T)
  /\ Len(a) = Cardinality(D)
  /\ \A k \in 1 .. Cardinality(D) :
       /\ At(D, k) \in D
       /\ a[k].sequence = At(D, k)
       /\ a[k].phase = phase
       /\ a[k].disposition = fates[At(D, k)].disposition
       /\ a[k].disposition \in {"started", "client_limited", "scheduler_limited"}
       /\ a[k].scheduled = ArrivalOffset(plan.load.rate, At(D, k) - 1)
       /\ a[k].disposition = "started" => a[k].lag \in Nat
       /\ a[k].disposition # "started" => a[k].lag = NoTime

LEMMA ArrivalsAre ==
  ASSUME NEW n \in Nat, NEW fates, NEW measured, FatesOK(fates, n, measured),
         NEW phase \in {"warmup", "measured"},
         NEW D, D = (1 .. n) \ With(fates, "unclaimed"), NEW a, a = Arrivals(phase, fates)
  PROVE  ArrivalsOf(a, D, phase, fates)
<1> DEFINE x == [s \in 1 .. n |->
                   [sequence    |-> s,
                    phase       |-> phase,
                    disposition |-> fates[s].disposition,
                    scheduled   |-> ArrivalOffset(plan.load.rate, s - 1),
                    lag         |-> IF fates[s].disposition = "started" THEN Lag(s) ELSE NoTime]]
<1>1. DOMAIN fates = 1 .. n /\ \A s \in 1 .. n : FateOK(fates[s], measured)
  BY DEF FatesOK
<1>2. D \subseteq 1 .. n
  OBVIOUS
<1>3. a = Those(x, D)
  BY <1>1 DEF Arrivals
<1>4. ASSUME NEW s \in D
      PROVE  /\ fates[s].disposition \in {"started", "client_limited", "scheduler_limited"}
             /\ fates[s].disposition \in Dispositions
  BY <1>1, <1>2 DEF With, FateOK, Dispositions
<1>5. \A s \in 1 .. n :
        /\ x[s].sequence = s /\ x[s].phase = phase
        /\ x[s].disposition = fates[s].disposition
        /\ x[s].scheduled = ArrivalOffset(plan.load.rate, s - 1)
        /\ x[s].lag = IF fates[s].disposition = "started" THEN Lag(s) ELSE NoTime
        /\ x[s] = [sequence |-> x[s].sequence, phase |-> x[s].phase,
                   disposition |-> x[s].disposition, scheduled |-> x[s].scheduled,
                   lag |-> x[s].lag]
  OBVIOUS
<1>6. \E T : x \in Seq(T) /\ Len(x) = n /\ DOMAIN x = 1 .. n
  <2>1. x \in [1 .. n -> {x[s] : s \in 1 .. n}]
    OBVIOUS
  <2> HIDE DEF x
  <2>2. x \in Seq({x[s] : s \in 1 .. n}) /\ Len(x) = n
    BY <2>1, SequenceOn
  <2> QED
    BY <2>2
<1> HIDE DEF x
<1>7. ASSUME NEW s \in D
      PROVE  /\ x[s].disposition = "started" => x[s].lag \in Nat
             /\ x[s].disposition # "started" => x[s].lag = NoTime
  <2>1. s \in Nat \ {0} /\ s \in 1 .. n
    BY <1>2
  <2>2. Lag(s) \in Nat
    BY <2>1, LagIs
  <2> QED
    BY <1>5, <2>1, <2>2
<1>8. /\ \E T : a \in Seq(T)
      /\ Len(a) = Cardinality(D)
      /\ \A k \in 1 .. Cardinality(D) : At(D, k) \in D /\ a[k] = x[At(D, k)]
  <2>1. PICK T : x \in Seq(T) /\ Len(x) = n /\ DOMAIN x = 1 .. n
    BY <1>6
  <2>2. D \subseteq DOMAIN x
    BY <1>2, <2>1
  <2>3. /\ Those(x, D) \in Seq(T) /\ Len(Those(x, D)) = Cardinality(D)
        /\ \A k \in 1 .. Cardinality(D) : At(D, k) \in D /\ Those(x, D)[k] = x[At(D, k)]
    BY <2>1, <2>2, ThoseAre
  <2> QED
    BY <1>3, <2>3
<1>9. \A k \in 1 .. Cardinality(D) :
        /\ At(D, k) \in D
        /\ a[k].sequence = At(D, k)
        /\ a[k].phase = phase
        /\ a[k].disposition = fates[At(D, k)].disposition
        /\ a[k].disposition \in {"started", "client_limited", "scheduler_limited"}
        /\ a[k].scheduled = ArrivalOffset(plan.load.rate, At(D, k) - 1)
        /\ a[k].disposition = "started" => a[k].lag \in Nat
        /\ a[k].disposition # "started" => a[k].lag = NoTime
  <2> SUFFICES ASSUME NEW k \in 1 .. Cardinality(D)
               PROVE  /\ At(D, k) \in D
                      /\ a[k].sequence = At(D, k)
                      /\ a[k].phase = phase
                      /\ a[k].disposition = fates[At(D, k)].disposition
                      /\ a[k].disposition \in {"started", "client_limited", "scheduler_limited"}
                      /\ a[k].scheduled = ArrivalOffset(plan.load.rate, At(D, k) - 1)
                      /\ a[k].disposition = "started" => a[k].lag \in Nat
                      /\ a[k].disposition # "started" => a[k].lag = NoTime
    OBVIOUS
  <2> DEFINE t == At(D, k)
  <2>1. t \in D /\ a[k] = x[t]
    BY <1>8
  <2>2. t \in 1 .. n
    BY <1>2, <2>1
  <2> HIDE DEF t
  <2>3. /\ a[k].sequence = t
        /\ a[k].phase = phase
        /\ a[k].disposition = fates[t].disposition
        /\ a[k].scheduled = ArrivalOffset(plan.load.rate, t - 1)
    BY <1>5, <2>1, <2>2
  <2>4. a[k].disposition \in {"started", "client_limited", "scheduler_limited"}
    BY <1>4, <2>1, <2>3
  <2>5. /\ a[k].disposition = "started" => a[k].lag \in Nat
        /\ a[k].disposition # "started" => a[k].lag = NoTime
    BY <1>7, <2>1
  <2> QED
    BY <2>1, <2>3, <2>4, <2>5 DEF t
<1> QED
  BY <1>8, <1>9 DEF ArrivalsOf

(* how many of the arrivals have each disposition                          *)
LEMMA ArrivalsCounted ==
  ASSUME NEW n \in Nat, NEW fates, NEW measured, FatesOK(fates, n, measured),
         NEW phase \in {"warmup", "measured"}, NEW a, a = Arrivals(phase, fates),
         NEW d \in {"started", "client_limited", "scheduler_limited"}
  PROVE  Number(LAMBDA x : x.disposition = d, a) = Cardinality(With(fates, d))
<1>0. PICK D : D = (1 .. n) \ With(fates, "unclaimed")
  OBVIOUS
<1> DEFINE W == With(fates, d)
<1>1. DOMAIN fates = 1 .. n /\ \A s \in 1 .. n : FateOK(fates[s], measured)
  BY DEF FatesOK
<1>2. W \subseteq D /\ D \subseteq 1 .. n /\ \A s \in D : (fates[s].disposition = d) = (s \in W)
  BY <1>0, <1>1 DEF With
<1> HIDE DEF W
<1>3. /\ \E T : a \in Seq(T)
      /\ Len(a) = Cardinality(D)
      /\ \A k \in 1 .. Cardinality(D) :
           At(D, k) \in D /\ a[k].disposition = fates[At(D, k)].disposition
  BY <1>0, ArrivalsAre DEF ArrivalsOf
<1>4. DOMAIN a = 1 .. Cardinality(D)
  BY <1>3
<1>6. {k \in DOMAIN a : a[k].disposition = d} = Picked(D, W)
  <2>1. \A k \in 1 .. Cardinality(D) : (a[k].disposition = d) = (At(D, k) \in W)
    BY <1>2, <1>3
  <2> QED
    BY <1>4, <2>1 DEF Picked
<1>7. Cardinality(Picked(D, W)) = Cardinality(W)
  BY <1>2, ThoseCounted
<1>8. Number(LAMBDA x : x.disposition = d, a) = Cardinality({k \in DOMAIN a : a[k].disposition = d})
  BY DEF Number, Passing
<1> QED
  BY <1>6, <1>7, <1>8 DEF W

(* an arrival has a request exactly when it started                        *)
LEMMA ArrivalsHaveRequests ==
  ASSUME NEW n \in Nat, NEW fates, NEW measured, FatesOK(fates, n, measured),
         NEW phase \in {"warmup", "measured"}, NEW a, a = Arrivals(phase, fates),
         NEW c, c = Completed(phase, fates)
  PROVE  /\ \A k \in DOMAIN a : RequestMatches(a[k], c)
         /\ Distinct(a)
<1>0. PICK D : D = (1 .. n) \ With(fates, "unclaimed")
  OBVIOUS
<1>00. PICK S : S = With(fates, "started")
  OBVIOUS
<1>1. DOMAIN fates = 1 .. n /\ \A s \in 1 .. n : FateOK(fates[s], measured)
  BY DEF FatesOK
<1>2. /\ D \subseteq 1 .. n /\ S \subseteq 1 .. n
      /\ \A s \in D : (fates[s].disposition = "started") = (s \in S)
      /\ \A s \in S : s \in D
  BY <1>0, <1>00, <1>1 DEF With
<1>3. /\ \E T : a \in Seq(T)
      /\ Len(a) = Cardinality(D)
      /\ \A k \in 1 .. Cardinality(D) :
           /\ At(D, k) \in D
           /\ a[k].sequence = At(D, k)
           /\ a[k].disposition = fates[At(D, k)].disposition
  <2>1. ArrivalsOf(a, D, phase, fates)
    BY <1>0, ArrivalsAre
  <2> QED
    BY <2>1 DEF ArrivalsOf
<1>4. DOMAIN a = 1 .. Cardinality(D)
  BY <1>3
<1>5. /\ c \in Seq(Completion) /\ Len(c) = Cardinality(S)
      /\ \A i \in 1 .. Cardinality(S) : c[i].sequence = At(S, i)
  BY <1>00, CompletedAre DEF CompletedOK, CompletedOf
<1>6. DOMAIN c = 1 .. Cardinality(S)
  BY <1>5
<1>7. ASSUME NEW k \in DOMAIN a PROVE RequestMatches(a[k], c)
  <2> DEFINE s == At(D, k)
  <2>1. s \in D /\ a[k].sequence = s /\ a[k].disposition = fates[s].disposition
    BY <1>3, <1>4
  <2> HIDE DEF s
  <2>2. (a[k].disposition = "started") = (s \in S)
    BY <1>2, <2>1
  <2>3. ASSUME s \in S PROVE \E i \in DOMAIN c : c[i].sequence = s
    <3>1. Rank(s, S) \in 1 .. Cardinality(S) /\ At(S, Rank(s, S)) = s
      BY <1>2, <2>3, RankBounds, AtRank
    <3> QED
      BY <1>5, <1>6, <3>1
  <2>4. ASSUME NEW i \in DOMAIN c, c[i].sequence = s PROVE s \in S
    <3>1. c[i].sequence = At(S, i) /\ i \in 1 .. Cardinality(S)
      BY <1>5, <1>6
    <3>2. At(S, i) \in S
      BY <1>2, <3>1, AtRank
    <3> QED
      BY <2>4, <3>1, <3>2
  <2> QED
    BY <2>1, <2>2, <2>3, <2>4 DEF RequestMatches
<1>8. Distinct(a)
  <2> SUFFICES ASSUME NEW i \in DOMAIN a, NEW j \in DOMAIN a, a[i].sequence = a[j].sequence
               PROVE  i = j
    BY DEF Distinct
  <2>1. i \in 1 .. Cardinality(D) /\ j \in 1 .. Cardinality(D) /\ At(D, i) = At(D, j)
    BY <1>3, <1>4
  <2>2. Rank(At(D, i), D) = i /\ Rank(At(D, j), D) = j
    BY <1>2, <2>1, AtRank
  <2> QED
    BY <2>1, <2>2
<1> QED
  BY <1>7, <1>8

(* the counts of fates                                                     *)
CountsOf(k, fates, n, active) ==
  /\ k # NoCounts
  /\ k.planned = n
  /\ k.processed = Cardinality((1 .. n) \ With(fates, "unclaimed"))
  /\ k.started = Cardinality(With(fates, "started"))
  /\ k.clientLimited = Cardinality(With(fates, "client_limited"))
  /\ k.schedulerLimited = Cardinality(With(fates, "scheduler_limited"))
  /\ k.maxInFlight = active
  /\ k.processed = k.started + k.clientLimited + k.schedulerLimited
  /\ k.planned = k.processed + k.unprocessed
  /\ k.unprocessed \in Nat /\ k.clientLimited \in Nat /\ k.schedulerLimited \in Nat
  /\ (\A s \in 1 .. n : fates[s].disposition # "unclaimed") => k.unprocessed = 0

LEMMA CountsAre ==
  ASSUME NEW n \in Nat, NEW fates, NEW measured, FatesOK(fates, n, measured),
         NEW active, NEW k, k = Counts(fates, active)
  PROVE  CountsOf(k, fates, n, active)
<1> DEFINE U == With(fates, "unclaimed")
           S == With(fates, "started")
           C == With(fates, "client_limited")
           L == With(fates, "scheduler_limited")
<1>1. /\ Len(fates) = n
      /\ Cardinality((1 .. n) \ U) = n - Cardinality(U)
      /\ n - Cardinality(U) = Cardinality(S) + Cardinality(C) + Cardinality(L)
      /\ Cardinality(U) \in Nat /\ Cardinality(S) \in Nat
      /\ Cardinality(C) \in Nat /\ Cardinality(L) \in Nat
      /\ U \subseteq 1 .. n
  BY Classes, Zenon DEF Dispositions
<1>2. U = {s \in 1 .. n : fates[s].disposition = "unclaimed"}
  <2>1. DOMAIN fates = 1 .. n
    BY DEF FatesOK
  <2> QED
    BY <2>1 DEF With
<1>3. Cardinality(U) = 0 <=> U = {}
  BY <1>1, FiniteIndices, FS_EmptySet
<1>4. k = [planned          |-> n,
           processed        |-> n - Cardinality(U),
           started          |-> Cardinality(S),
           clientLimited    |-> Cardinality(C),
           schedulerLimited |-> Cardinality(L),
           unprocessed      |-> Cardinality(U),
           maxInFlight      |-> active]
  BY <1>1 DEF Counts
<1> HIDE DEF U, S, C, L
<1>5. k # NoCounts
  <2>1. DOMAIN k # {}
    BY <1>4
  <2> QED
    BY <2>1 DEF NoCounts
<1>6. /\ k.planned = n
      /\ k.processed = n - Cardinality(U)
      /\ k.started = Cardinality(S)
      /\ k.clientLimited = Cardinality(C)
      /\ k.schedulerLimited = Cardinality(L)
      /\ k.unprocessed = Cardinality(U)
      /\ k.maxInFlight = active
  BY <1>4
<1>7. U = {} <=> \A s \in 1 .. n : fates[s].disposition # "unclaimed"
  BY <1>2
<1>8. /\ k.processed = k.started + k.clientLimited + k.schedulerLimited
      /\ k.planned = k.processed + k.unprocessed
      /\ k.unprocessed \in Nat /\ k.clientLimited \in Nat /\ k.schedulerLimited \in Nat
      /\ k.started \in Nat /\ k.processed \in Nat
  BY <1>1, <1>6
<1> QED
  BY <1>1, <1>3, <1>5, <1>6, <1>7, <1>8 DEF U, S, C, L, CountsOf

(* what bounds the requests of a plan                                      *)
LoadOK ==
  IF OpenLoopRun THEN plan.load.maxInFlight \in Nat \ {0}
  ELSE plan.load.concurrency \in Nat \ {0}

LEMMA ActiveBounds ==
  ASSUME NEW n \in Nat, NEW fates, NEW measured, FatesOK(fates, n, measured), LoadOK,
         NEW active \in Active(fates)
  PROVE  /\ active \in Nat
         /\ active <= Cardinality(With(fates, "started"))
         /\ active <= IF OpenLoopRun THEN plan.load.maxInFlight ELSE Workers(n)
<1> DEFINE c == Cardinality(With(fates, "started"))
           limit == IF OpenLoopRun THEN plan.load.maxInFlight ELSE Workers(n)
<1>1. Len(fates) = n /\ c \in Nat
  BY Classes DEF Dispositions
<1>2. limit \in Nat
  BY DEF LoadOK, Workers, Least
<1>3. active \in IF c = 0 THEN {0} ELSE 1 .. Least(limit, c)
  BY <1>1 DEF Active
<1> HIDE DEF c, limit
<1>4. active \in Nat /\ active <= c /\ active <= limit
  BY <1>1, <1>2, <1>3 DEF Least
<1> QED
  BY <1>4 DEF c, limit

LEMMA PhaseArrivalsOK ==
  ASSUME NEW n \in Nat, NEW fates, NEW measured, FatesOK(fates, n, measured),
         NEW active \in Nat, active <= Cardinality(With(fates, "started")),
         active <= plan.load.maxInFlight,
         NEW phase \in {"warmup", "measured"}, NEW p,
         p.phase = phase, p.completed = Completed(phase, fates),
         p.arrivals = Arrivals(phase, fates), p.counts = Counts(fates, active)
  PROVE  ArrivalsOK(p)
<1>1. PICK D : D = (1 .. n) \ With(fates, "unclaimed")
  OBVIOUS
<1>2. PICK a, c, k : a = p.arrivals /\ c = p.completed /\ k = p.counts
  OBVIOUS
<1>3. a = Arrivals(phase, fates) /\ c = Completed(phase, fates) /\ k = Counts(fates, active)
  BY <1>2
<1>4. /\ k.planned = n /\ k.processed = Cardinality(D)
      /\ k.started = Cardinality(With(fates, "started"))
      /\ k.clientLimited = Cardinality(With(fates, "client_limited"))
      /\ k.schedulerLimited = Cardinality(With(fates, "scheduler_limited"))
      /\ k.maxInFlight = active
      /\ k.processed = k.started + k.clientLimited + k.schedulerLimited
      /\ k.planned = k.processed + k.unprocessed
  <2>1. CountsOf(k, fates, n, active)
    BY <1>3, CountsAre
  <2> QED
    BY <1>1, <2>1 DEF CountsOf
<1>5. ArrivalsOf(a, D, phase, fates)
  BY <1>1, <1>3, ArrivalsAre
<1>6. Len(c) = Cardinality(With(fates, "started"))
  <2>1. PICK S : S = With(fates, "started")
    OBVIOUS
  <2>2. CompletedOf(c, S)
    BY <1>3, <2>1, CompletedAre
  <2> QED
    BY <2>1, <2>2 DEF CompletedOf
<1>7. (\A i \in DOMAIN a : RequestMatches(a[i], c)) /\ Distinct(a)
  BY <1>3, ArrivalsHaveRequests
<1>8. /\ Number(LAMBDA x : x.disposition = "started", a) = k.started
      /\ Number(LAMBDA x : x.disposition = "client_limited", a) = k.clientLimited
      /\ Number(LAMBDA x : x.disposition = "scheduler_limited", a) = k.schedulerLimited
  <2>1. \A d \in {"started", "client_limited", "scheduler_limited"} :
          Number(LAMBDA x : x.disposition = d, a) = Cardinality(With(fates, d))
    BY <1>3, ArrivalsCounted
  <2> QED
    BY <1>4, <2>1
<1>9. DOMAIN a = 1 .. Cardinality(D) /\ Len(a) = Cardinality(D) /\ \E T : a \in Seq(T)
  BY <1>5 DEF ArrivalsOf
<1>10. ASSUME NEW i \in DOMAIN a
       PROVE  /\ a[i].phase = phase
              /\ a[i].disposition = "started" => a[i].lag \in Nat /\ a[i].lag >= 0
              /\ a[i].disposition # "started" => a[i].lag = NoTime
              /\ a[i].sequence \in 1 .. k.planned
              /\ a[i].disposition \in {"started", "client_limited", "scheduler_limited"}
              /\ a[i].scheduled = ArrivalOffset(plan.load.rate, a[i].sequence - 1)
  <2>1. i \in 1 .. Cardinality(D)
    BY <1>9
  <2>2. /\ a[i].phase = phase
        /\ a[i].disposition = "started" => a[i].lag \in Nat
        /\ a[i].disposition # "started" => a[i].lag = NoTime
        /\ a[i].sequence = At(D, i) /\ At(D, i) \in D
        /\ a[i].disposition \in {"started", "client_limited", "scheduler_limited"}
        /\ a[i].scheduled = ArrivalOffset(plan.load.rate, At(D, i) - 1)
    BY <1>5, <2>1 DEF ArrivalsOf
  <2>3. a[i].sequence \in 1 .. n
    BY <1>1, <2>2
  <2> QED
    BY <1>4, <2>2, <2>3
<1>11. ArrivalsMatch(k, a, c)
  BY <1>7, <1>8, <1>10 DEF ArrivalsMatch
<1>12. CountsAddUp(k, a, Len(c), plan.load.maxInFlight)
  <2>1. k.processed = Len(a) /\ k.started = Len(c)
    BY <1>4, <1>6, <1>9
  <2>2. /\ k.maxInFlight >= 0
        /\ k.maxInFlight <= plan.load.maxInFlight
        /\ k.maxInFlight <= k.started
    BY <1>4
  <2> QED
    BY <1>4, <2>1, <2>2, Zenon DEF CountsAddUp
<1>13. OnSchedule(plan.load, a)
  BY <1>10 DEF OnSchedule
<1>14. \A i \in DOMAIN a : /\ a[i].phase = p.phase
                           /\ a[i].disposition = "started" => a[i].lag \in Nat
  BY <1>10
<1>15. \E T : p.arrivals \in Seq(T)
  BY <1>2, <1>9
<1> QED
  BY <1>2, <1>11, <1>12, <1>13, <1>14, <1>15, Zenon DEF ArrivalsOK

(* a phase that was run                                                    *)
LEMMA PhaseResultOK ==
  ASSUME NEW n \in Nat, NEW measured \in BOOLEAN, NEW fates \in Fates(n, measured), LoadOK,
         NEW active \in Active(fates), NEW error,
         NEW phase, phase = IF measured THEN "measured" ELSE "warmup",
         NEW p, p = PhaseResult(phase, fates, error, active)
  PROVE  /\ PhaseOK(p, phase, n)
         /\ OpenLoopRun /\ (\A s \in DOMAIN fates : fates[s].disposition # "unclaimed") =>
              p.counts.unprocessed = 0
<1>1. FatesOK(fates, n, measured)
  BY FatesAreOK
<1>2. Len(fates) = n /\ DOMAIN fates = 1 .. n
  BY <1>1, Classes
<1>3. /\ active \in Nat
      /\ active <= Cardinality(With(fates, "started"))
      /\ active <= IF OpenLoopRun THEN plan.load.maxInFlight ELSE Workers(n)
  BY <1>1, ActiveBounds
<1>4. /\ p.phase = phase /\ p.status = PhaseStatus(fates, error) /\ p.requested = n
      /\ p.elapsed = 4 /\ p.completed = Completed(phase, fates) /\ p.maxActive = active
      /\ p.concurrency = IF OpenLoopRun THEN 0 ELSE plan.load.concurrency
      /\ p.workers = IF OpenLoopRun THEN 0 ELSE Workers(n)
      /\ p.arrivals = IF OpenLoopRun THEN Arrivals(phase, fates) ELSE <<>>
      /\ p.counts = IF OpenLoopRun THEN Counts(fates, active) ELSE NoCounts
  BY <1>2 DEF PhaseResult
<1>5. p.status \in RunStatuses
  BY <1>4 DEF PhaseStatus, RunStatuses
<1>6. phase \in {"warmup", "measured"}
  OBVIOUS
<1>7. CompletedOK(p.completed, phase, n)
  <2>1. PICK S : S = With(fates, "started")
    OBVIOUS
  <2> QED
    BY <1>1, <1>4, <1>6, <2>1, CompletedAre
<1>8. CASE OpenLoopRun
  <2>1. ArrivalsOK(p)
    BY <1>1, <1>3, <1>4, <1>6, <1>8, PhaseArrivalsOK
  <2>2. PICK k : k = p.counts
    OBVIOUS
  <2>3. k = Counts(fates, active)
    BY <1>4, <1>8, <2>2
  <2>4. /\ k # NoCounts /\ k.planned = n
        /\ k.unprocessed \in Nat /\ k.clientLimited \in Nat /\ k.schedulerLimited \in Nat
        /\ k.schedulerLimited = Cardinality(With(fates, "scheduler_limited"))
        /\ (\A s \in 1 .. n : fates[s].disposition # "unclaimed") => k.unprocessed = 0
    <3>1. CountsOf(k, fates, n, active)
      BY <1>1, <2>3, CountsAre
    <3> QED
      BY <3>1 DEF CountsOf
  <2>5. ASSUME ~measured PROVE k.schedulerLimited = 0
    <3>1. With(fates, "scheduler_limited") = {}
      BY <1>1, <2>5, Classes
    <3> QED
      BY <2>4, <3>1, FS_EmptySet
  <2>6. p.phase = "warmup" => k.schedulerLimited = 0
    BY <1>4, <2>5
  <2>7. OpenPhaseOK(p)
    BY <1>4, <1>5, <2>1, <2>2, <2>4, <2>6 DEF OpenPhaseOK
  <2>8. PhaseOK(p, phase, n)
    BY <1>4, <1>7, <1>8, <2>7 DEF PhaseOK
  <2>9. (\A s \in DOMAIN fates : fates[s].disposition # "unclaimed") => p.counts.unprocessed = 0
    BY <1>2, <2>2, <2>4
  <2> QED
    BY <2>8, <2>9
<1>9. CASE ~OpenLoopRun
  <2>1. Workers(n) \in Nat
    BY <1>9 DEF LoadOK, Workers, Least
  <2>2. ClosedPhaseOK(p)
    BY <1>3, <1>4, <1>5, <1>9, <2>1 DEF ClosedPhaseOK
  <2> QED
    BY <1>4, <1>7, <1>9, <2>2 DEF PhaseOK
<1> QED
  BY <1>8, <1>9

(* a phase that was not                                                    *)
LEMMA SkippedCounts ==
  ASSUME NEW n \in Nat, NEW fates, fates = [s \in 1 .. n |-> Unclaimed]
  PROVE  FatesOK(fates, n, FALSE)
<1>1. \A s \in 1 .. n : fates[s].disposition = "unclaimed"
  BY DEF Unclaimed, Fate
<1>2. \A s \in 1 .. n : FateOK(fates[s], FALSE)
  BY <1>1 DEF FateOK, Dispositions
<1>3. fates \in [1 .. n -> {Unclaimed}]
  OBVIOUS
<1> QED
  BY <1>2, <1>3 DEF FatesOK

LEMMA SkippedPhaseOK ==
  ASSUME NEW n \in Nat, NEW phase \in {"warmup", "measured"}, LoadOK,
         NEW p, p = SkippedPhase(phase, n)
  PROVE  PhaseOK(p, phase, n)
<1>1. PICK fates : fates = [s \in 1 .. n |-> Unclaimed]
  OBVIOUS
<1>2. /\ p.phase = phase /\ p.status = "skipped" /\ p.requested = n
      /\ p.elapsed = 0 /\ p.completed = <<>> /\ p.maxActive = 0
      /\ p.concurrency = IF OpenLoopRun THEN 0 ELSE plan.load.concurrency
      /\ p.workers = 0 /\ p.arrivals = <<>>
      /\ p.counts = IF OpenLoopRun THEN Counts(fates, 0) ELSE NoCounts
  BY <1>1 DEF SkippedPhase
<1>3. FatesOK(fates, n, FALSE)
  BY <1>1, SkippedCounts
<1>4. CompletedOK(<<>>, phase, n)
  <2>1. <<>> \in Seq(Completion) /\ Len(<<>>) = 0 /\ DOMAIN <<>> = {}
    OBVIOUS
  <2> QED
    BY <2>1 DEF CompletedOK, Distinct
<1>5. CASE OpenLoopRun
  <2>1. PICK k : k = Counts(fates, 0)
    OBVIOUS
  <2>2. p.counts = k
    BY <1>2, <1>5, <2>1
  <2>3. /\ With(fates, "started") = {} /\ With(fates, "client_limited") = {}
        /\ With(fates, "scheduler_limited") = {}
        /\ (1 .. n) \ With(fates, "unclaimed") = {}
    <3>1. \A s \in 1 .. n : fates[s].disposition = "unclaimed"
      BY <1>1 DEF Unclaimed, Fate
    <3>2. DOMAIN fates = 1 .. n
      BY <1>1
    <3> QED
      BY <3>1, <3>2 DEF With
  <2>4. /\ k # NoCounts /\ k.planned = n
        /\ k.processed = 0 /\ k.started = 0 /\ k.clientLimited = 0 /\ k.schedulerLimited = 0
        /\ k.unprocessed \in Nat /\ k.maxInFlight = 0
        /\ k.planned = k.processed + k.unprocessed
    <3>1. Cardinality({}) = 0
      BY FS_EmptySet
    <3>2. /\ k # NoCounts /\ k.planned = n
          /\ k.processed = Cardinality((1 .. n) \ With(fates, "unclaimed"))
          /\ k.started = Cardinality(With(fates, "started"))
          /\ k.clientLimited = Cardinality(With(fates, "client_limited"))
          /\ k.schedulerLimited = Cardinality(With(fates, "scheduler_limited"))
          /\ k.maxInFlight = 0
          /\ k.unprocessed \in Nat
          /\ k.planned = k.processed + k.unprocessed
      <4>1. CountsOf(k, fates, n, 0)
        BY <1>3, <2>1, CountsAre
      <4> QED
        BY <4>1 DEF CountsOf
    <3> QED
      BY <2>3, <3>1, <3>2
  <2>5. k.unprocessed = n
    BY <2>4
  <2>6. plan.load.maxInFlight \in Nat
    BY <1>5 DEF LoadOK
  <2>7. <<>> \in Seq({}) /\ Len(<<>>) = 0 /\ DOMAIN <<>> = {}
    OBVIOUS
  <2>8. CountsAddUp(k, <<>>, 0, plan.load.maxInFlight)
    BY <2>4, <2>6, <2>7 DEF CountsAddUp
  <2>9. \A d \in {"started", "client_limited", "scheduler_limited"} :
          Number(LAMBDA x : x.disposition = d, <<>>) = 0
    <3>1. ASSUME NEW d \in {"started", "client_limited", "scheduler_limited"} PROVE Number(LAMBDA x : x.disposition = d, <<>>) = 0
      <4>1. {i \in DOMAIN <<>> : <<>>[i].disposition = d} = {}
        BY <2>7
      <4>2. Number(LAMBDA x : x.disposition = d, <<>>)
              = Cardinality({i \in DOMAIN <<>> : <<>>[i].disposition = d})
        BY DEF Number, Passing
      <4> QED
        BY <4>1, <4>2, FS_EmptySet
    <3> QED
      BY <3>1
  <2>10. ArrivalsMatch(k, <<>>, <<>>)
    <3>1. Distinct(<<>>)
      BY <2>7 DEF Distinct
    <3>2. /\ Number(LAMBDA x : x.disposition = "started", <<>>) = 0
          /\ Number(LAMBDA x : x.disposition = "client_limited", <<>>) = 0
          /\ Number(LAMBDA x : x.disposition = "scheduler_limited", <<>>) = 0
      BY <2>9
    <3>3. \A i \in DOMAIN <<>> : FALSE
      BY <2>7
    <3> QED
      BY <2>4, <3>1, <3>2, <3>3 DEF ArrivalsMatch
  <2>11. ArrivalsOK(p)
    <3>1. Len(p.completed) = 0 /\ p.completed = <<>> /\ p.arrivals = <<>>
      BY <1>2, <2>7
    <3>2. OnSchedule(plan.load, <<>>)
      BY <2>7 DEF OnSchedule
    <3>3. \E T : p.arrivals \in Seq(T)
      BY <2>7, <3>1
    <3> QED
      BY <2>2, <2>7, <2>8, <2>10, <3>1, <3>2, <3>3 DEF ArrivalsOK
  <2>12. OpenPhaseOK(p)
    <3>1. p.status = "skipped" /\ p.requested = n
      BY <1>2
    <3>2. 0 \in Nat
      OBVIOUS
    <3> QED
      BY <2>2, <2>4, <2>5, <2>11, <3>1, <3>2, Zenon DEF OpenPhaseOK
  <2> QED
    BY <1>2, <1>4, <1>5, <2>12 DEF PhaseOK
<1>6. CASE ~OpenLoopRun
  <2>1. ClosedPhaseOK(p)
    BY <1>2, <1>6 DEF ClosedPhaseOK
  <2> QED
    BY <1>2, <1>4, <1>6, <2>1 DEF PhaseOK
<1> QED
  BY <1>5, <1>6

(***************************************************************************)
(* What Execute makes of a phase's requests                                *)
(***************************************************************************)

Artifact(q) == [sequence    |-> q.sequence,
                phase       |-> q.phase,
                outcome     |-> q.outcome,
                observation |-> q.observation,
                metrics     |-> MetricsOf(q.observation)]

Artifacts(c) == [i \in DOMAIN c |-> Artifact(c[i])]

(* the artifacts s of the requests c                                       *)
ArtifactsOf(s, c) ==
  /\ \E T : s \in Seq(T)
  /\ Len(s) = Len(c) /\ DOMAIN s = DOMAIN c
  /\ \A i \in DOMAIN c : /\ s[i].sequence = c[i].sequence
                         /\ s[i].phase = c[i].phase
                         /\ s[i].outcome = c[i].outcome
                         /\ s[i].observation = c[i].observation
                         /\ s[i].metrics = MetricsOf(c[i].observation)

LEMMA ArtifactsAre ==
  ASSUME NEW T, NEW c \in Seq(T), NEW s, s = Artifacts(c)
  PROVE  ArtifactsOf(s, c)
<1>1. Len(c) \in Nat /\ DOMAIN c = 1 .. Len(c)
  OBVIOUS
<1>2. s = [i \in 1 .. Len(c) |-> Artifact(c[i])]
  BY <1>1 DEF Artifacts
<1>3. s \in [1 .. Len(c) -> {Artifact(c[i]) : i \in 1 .. Len(c)}]
  BY <1>2
<1>4. /\ s \in Seq({Artifact(c[i]) : i \in 1 .. Len(c)})
      /\ Len(s) = Len(c) /\ DOMAIN s = 1 .. Len(c)
  BY <1>1, <1>3, SequenceOn
<1>5. \A i \in DOMAIN c : s[i] = Artifact(c[i])
  BY DEF Artifacts
<1>6. ASSUME NEW i \in DOMAIN c
      PROVE  /\ s[i].sequence = c[i].sequence
             /\ s[i].phase = c[i].phase
             /\ s[i].outcome = c[i].outcome
             /\ s[i].observation = c[i].observation
             /\ s[i].metrics = MetricsOf(c[i].observation)
  <2>1. s[i] = Artifact(c[i])
    BY <1>5
  <2> QED
    BY <2>1 DEF Artifact
<1>7. \E S : s \in Seq(S)
  BY <1>4
<1>8. Len(s) = Len(c) /\ DOMAIN s = DOMAIN c
  BY <1>1, <1>4
<1> QED
  BY <1>6, <1>7, <1>8 DEF ArtifactsOf

(* The two phases keep their requests.                                     *)
LEMMA ArtifactsJoin ==
  ASSUME NEW T, NEW a \in Seq(T), NEW b \in Seq(T), NEW result,
         result.warmup.completed = a, result.measurement.completed = b
  PROVE  LifecycleRequestArtifacts(result) = Artifacts(a) \o Artifacts(b)
<1> DEFINE n == Len(a)
           m == Len(b)
           s == [i \in DOMAIN a |-> Artifact(a[i])]
           t == [i \in DOMAIN b |-> Artifact(b[i])]
           V == {Artifact(a[i]) : i \in 1 .. n} \cup {Artifact(b[i]) : i \in 1 .. m}
<1>1. /\ n \in Nat /\ m \in Nat /\ DOMAIN a = 1 .. n /\ DOMAIN b = 1 .. m
      /\ DOMAIN (a \o b) = 1 .. n + m
      /\ \A i \in 1 .. n + m : (a \o b)[i] = IF i <= n THEN a[i] ELSE b[i - n]
  OBVIOUS
<1>2. LifecycleRequestArtifacts(result) = [i \in 1 .. n + m |-> Artifact((a \o b)[i])]
  BY <1>1 DEF LifecycleRequestArtifacts, Artifact
<1>3. /\ \A i \in 1 .. n : s[i] = Artifact(a[i])
      /\ \A i \in 1 .. m : t[i] = Artifact(b[i])
  BY <1>1
<1>4. s \in [1 .. n -> V] /\ t \in [1 .. m -> V]
  BY <1>1
<1> HIDE DEF s, t, V, n, m
<1>5. s \in Seq(V) /\ Len(s) = n /\ t \in Seq(V) /\ Len(t) = m
  BY <1>1, <1>4, SequenceOn
<1>6. s \o t = [i \in 1 .. n + m |-> IF i <= n THEN s[i] ELSE t[i - n]]
  <2> DEFINE u == s \o t
  <2>0. s \in Seq(V) /\ t \in Seq(V)
    BY <1>5
  <2>3. /\ u \in Seq(V) /\ Len(u) = Len(s) + Len(t)
        /\ \A i \in 1 .. Len(s) + Len(t) : u[i] = IF i <= Len(s) THEN s[i] ELSE t[i - Len(s)]
    BY <2>0
  <2> HIDE DEF u
  <2>1. /\ u \in Seq(V) /\ Len(u) = n + m
        /\ \A i \in 1 .. n + m : u[i] = IF i <= n THEN s[i] ELSE t[i - n]
    BY <1>5, <2>3
  <2>2. u = [i \in 1 .. n + m |-> u[i]]
    BY <2>1
  <2> QED
    BY <2>1, <2>2 DEF u
<1>7. ASSUME NEW i \in 1 .. n + m
      PROVE  Artifact((a \o b)[i]) = IF i <= n THEN s[i] ELSE t[i - n]
  <2>1. CASE i <= n
    <3>1. i \in 1 .. n
      BY <1>1, <2>1
    <3> QED
      BY <1>1, <1>3, <2>1, <3>1
  <2>2. CASE ~(i <= n)
    <3>1. i - n \in 1 .. m
      BY <1>1, <2>2
    <3> QED
      BY <1>1, <1>3, <2>2, <3>1
  <2> QED
    BY <2>1, <2>2
<1>8. LifecycleRequestArtifacts(result) = s \o t
  BY <1>2, <1>6, <1>7
<1> QED
  BY <1>8 DEF s, t, Artifacts

(* Artifacts have the outcomes of their requests.                          *)
LEMMA ArtifactsTally ==
  ASSUME NEW s, NEW c, ArtifactsOf(s, c)
  PROVE  Tally(s) = Tally(c) /\ (Distinct(c) => Distinct(s))
<1>1. \A o : {i \in DOMAIN s : s[i].outcome = o} = {i \in DOMAIN c : c[i].outcome = o}
  BY DEF ArtifactsOf
<1>2. Tally(s) = [o \in Outcomes |-> Cardinality({i \in DOMAIN s : s[i].outcome = o})]
  BY DEF Tally, Number, Passing
<1>3. Tally(c) = [o \in Outcomes |-> Cardinality({i \in DOMAIN c : c[i].outcome = o})]
  BY DEF Tally, Number, Passing
<1>4. Distinct(c) => Distinct(s)
  BY DEF ArtifactsOf, Distinct
<1> QED
  BY <1>1, <1>2, <1>3, <1>4

(* two sequences of any kind have a common kind                            *)
LEMMA CommonType ==
  ASSUME NEW S, NEW s \in Seq(S), NEW T, NEW t \in Seq(T)
  PROVE  s \in Seq(S \cup T) /\ t \in Seq(S \cup T)
<1>1. s \in [1 .. Len(s) -> S \cup T] /\ t \in [1 .. Len(t) -> S \cup T]
  OBVIOUS
<1>2. Len(s) \in Nat /\ Len(t) \in Nat
  OBVIOUS
<1> QED
  BY <1>1, <1>2, SequenceOn

(* the metrics of an observation                                           *)
LEMMA MetricsAre ==
  ASSUME NEW o \in Observations, NEW m, m = MetricsOf(o)
  PROVE  /\ \A s \in Scalars : Scalar(m[s])
         /\ m.itl \in Seq(Int) /\ m.icl \in Seq(Int)
         /\ m.itl # Unavailable => o.usage # NoUsage /\ Len(m.itl) = o.usage - 1
         /\ m.usage = o.tokens
<1>1. PICK k : k = Calculate(o)
  OBVIOUS
<1>2. TypedObservation(o)
  BY ObservationAssumption
<1>3. /\ \A s \in Scalars : Scalar(k[s])
      /\ k.itl \in Seq(Int) /\ k.icl \in Seq(Int)
      /\ k.itl # Unavailable => o.usage # NoUsage /\ Len(k.itl) = o.usage - 1
  BY <1>1, <1>2, CalculateIs
<1>4. DOMAIN k = Scalars \cup {"itl", "icl"}
  BY <1>1 DEF Calculate, Scalars
<1>5. m = [x \in {"usage"} \cup DOMAIN k |-> IF x \in {"usage"} THEN [usage |-> o.tokens][x] ELSE k[x]]
  BY <1>1 DEF MetricsOf, Overlay
<1>6. \A s \in Scalars \cup {"itl", "icl"} : m[s] = k[s]
  BY <1>4, <1>5 DEF Scalars
<1>7. m["usage"] = o.tokens
  BY <1>5
<1>8. m["itl"] = k["itl"] /\ m["icl"] = k["icl"]
  BY <1>6
<1> QED
  BY <1>3, <1>6, <1>7, <1>8

(***************************************************************************)
(* The metadata of a phase                                                 *)
(***************************************************************************)

LEMMA ArtifactsMatch ==
  ASSUME NEW s, NEW c, ArtifactsOf(s, c), NEW k, NEW a, ArrivalsMatch(k, a, c)
  PROVE  ArrivalsMatch(k, a, s)
<1>1. DOMAIN s = DOMAIN c /\ \A i \in DOMAIN c : s[i].sequence = c[i].sequence
  BY DEF ArtifactsOf
<1>2. \A x : RequestMatches(x, c) => RequestMatches(x, s)
  BY <1>1 DEF RequestMatches
<1> QED
  BY <1>2, Zenon DEF ArrivalsMatch

(* what the metadata m of the phase p says of its artifacts s              *)
MetadataOf(m, p, s) ==
  /\ m.phase = p.phase /\ m.status = p.status /\ m.requested = p.requested
  /\ m.elapsed = p.elapsed
  /\ m.attempted = Len(s) /\ m.completed = Len(s) /\ m.outcomes = Tally(s)
  /\ m.successful = Tally(s)["succeeded"] /\ m.failed = Failures(Tally(s))
  /\ m.failed \in Nat
  /\ PhaseAgrees(m, s)
  /\ OpenLoopRun => /\ m.arrivals = p.counts
                    /\ OpenLoopPhaseAgrees(m, plan.load, s, p.arrivals)
  /\ ~OpenLoopRun => /\ m.arrivals = NoCounts
                     /\ m.concurrency = plan.load.concurrency
                     /\ m.maxActive \in 0 .. m.workers
                     /\ ClosedLoopPhaseAgrees(m, s)

LEMMA MetadataIs ==
  ASSUME NEW n \in Nat, NEW phase \in {"warmup", "measured"}, NEW p, PhaseOK(p, phase, n),
         LoadOK, NEW s, ArtifactsOf(s, p.completed),
         NEW m, m = PhaseMetadata(plan.load.mode, p)
  PROVE  MetadataOf(m, p, s)
<1>1. PICK c : c = p.completed
  OBVIOUS
<1>2. /\ p.phase = phase /\ p.requested = n /\ p.elapsed \in Nat
      /\ CompletedOK(c, phase, n)
  BY <1>1 DEF PhaseOK
<1>3. c \in Seq(Completion) /\ Len(c) <= n /\ Len(c) \in Nat
  BY <1>2 DEF CompletedOK
<1>4. Len(s) = Len(c) /\ Tally(s) = Tally(c) /\ ArtifactsOf(s, c)
  BY <1>1, ArtifactsTally DEF ArtifactsOf
<1>5. \A i \in DOMAIN c : c[i].outcome \in Outcomes
  BY <1>2 DEF CompletedOK, OutcomeAgrees
<1>6. Tally(c)["succeeded"] + Failures(Tally(c)) = Len(c) /\ Failures(Tally(c)) \in Nat
  BY <1>3, <1>5, TallyAdds
<1>7. OpenLoopRun = (plan.load.mode = "open_loop")
  BY DEF OpenLoopRun
<1>8. /\ m.phase = p.phase /\ m.status = p.status /\ m.requested = p.requested
      /\ m.elapsed = p.elapsed
      /\ m.attempted = Len(c) /\ m.completed = Len(c) /\ m.outcomes = Tally(c)
      /\ m.successful = Tally(c)["succeeded"] /\ m.failed = Failures(Tally(c))
      /\ m.concurrency = IF OpenLoopRun THEN 0 ELSE p.concurrency
      /\ m.workers = IF OpenLoopRun THEN 0 ELSE p.workers
      /\ m.maxActive = IF OpenLoopRun THEN 0 ELSE p.maxActive
      /\ m.arrivals = IF OpenLoopRun THEN p.counts ELSE NoCounts
  BY <1>1, <1>7 DEF PhaseMetadata
<1>9. PhaseAgrees(m, s)
  <2>1. m.attempted <= m.requested /\ m.elapsed >= 0
    BY <1>2, <1>3, <1>8
  <2>2. /\ m.attempted = m.completed /\ m.completed = Len(s) /\ m.outcomes = Tally(s)
        /\ m.successful + m.failed = m.completed
        /\ m.outcomes["succeeded"] = m.successful /\ Failures(m.outcomes) = m.failed
    BY <1>4, <1>6, <1>8
  <2> QED
    BY <2>1, <2>2, Zenon DEF PhaseAgrees
<1>10. ASSUME OpenLoopRun
       PROVE  m.arrivals = p.counts /\ OpenLoopPhaseAgrees(m, plan.load, s, p.arrivals)
  <2>1. OpenPhaseOK(p)
    BY <1>10 DEF PhaseOK
  <2>2. PICK k, a : k = p.counts /\ a = p.arrivals
    OBVIOUS
  <2>3. /\ OnSchedule(plan.load, a)
        /\ CountsAddUp(k, a, Len(c), plan.load.maxInFlight)
        /\ ArrivalsMatch(k, a, c)
    BY <1>1, <2>1, <2>2 DEF OpenPhaseOK, ArrivalsOK
  <2>4. /\ k # NoCounts /\ k.planned = n /\ k.unprocessed \in Nat
        /\ p.phase = "warmup" => k.schedulerLimited = 0
        /\ \/ p.status = "skipped" /\ k.processed = 0 /\ k.unprocessed = n
           \/ p.status \in RunStatuses
    BY <1>2, <2>1, <2>2 DEF OpenPhaseOK
  <2>5. ArrivalsMatch(k, a, s)
    BY <1>4, <2>3, ArtifactsMatch
  <2>6. m.arrivals = k /\ m.concurrency = 0 /\ m.workers = 0
    BY <1>8, <1>10, <2>2
  <2>7. k.unprocessed >= 0 /\ m.attempted = k.started
    BY <1>8, <2>3, <2>4 DEF CountsAddUp
  <2>8. CountsAddUp(k, a, Len(s), plan.load.maxInFlight)
    BY <1>4, <2>3
  <2>9. \/ m.status = "skipped" /\ k.processed = 0 /\ k.unprocessed \in {0, k.planned}
        \/ m.status \in RunStatuses
    BY <1>8, <2>4
  <2>10. m.arrivals.planned = m.requested /\ (m.phase = "warmup" => m.arrivals.schedulerLimited = 0)
    BY <1>2, <1>8, <2>4, <2>6
  <2>11. OpenLoopPhaseAgrees(m, plan.load, s, a)
    BY <1>9, <2>3, <2>4, <2>5, <2>6, <2>7, <2>8, <2>9, <2>10, Zenon DEF OpenLoopPhaseAgrees
  <2> QED
    BY <2>2, <2>6, <2>11
<1>11. ASSUME ~OpenLoopRun
       PROVE  /\ m.arrivals = NoCounts
              /\ m.concurrency = plan.load.concurrency
              /\ m.maxActive \in 0 .. m.workers
              /\ ClosedLoopPhaseAgrees(m, s)
  <2>1. ClosedPhaseOK(p)
    BY <1>11 DEF PhaseOK
  <2>2. /\ m.arrivals = NoCounts /\ m.concurrency = plan.load.concurrency
        /\ m.workers = p.workers /\ m.maxActive = p.maxActive /\ m.concurrency > 0
    BY <1>8, <1>11, <2>1 DEF ClosedPhaseOK, LoadOK
  <2>3. CASE p.status = "skipped" /\ p.workers = 0 /\ p.maxActive = 0 /\ p.completed = <<>>
    <3>1. m.attempted = 0
      BY <1>1, <1>8, <2>3
    <3> QED
      BY <1>8, <1>9, <2>2, <2>3, <3>1 DEF ClosedLoopPhaseAgrees
  <2>4. CASE /\ p.status \in RunStatuses
             /\ p.workers = Workers(p.requested)
             /\ p.maxActive \in 0 .. p.workers
    <3>1. m.workers = Least(m.concurrency, m.requested)
      BY <1>8, <2>2, <2>4 DEF Workers
    <3> QED
      BY <1>8, <1>9, <2>2, <2>4, <3>1 DEF ClosedLoopPhaseAgrees
  <2> QED
    BY <2>1, <2>3, <2>4 DEF ClosedPhaseOK
<1> QED
  BY <1>4, <1>6, <1>8, <1>9, <1>10, <1>11 DEF MetadataOf

(***************************************************************************)
(* The evidence of a run                                                   *)
(***************************************************************************)

(* what ResolveKey makes of a valid configuration                          *)
PlanOK ==
  /\ LoadOK
  /\ plan.load.mode \in {"closed_loop", "open_loop"}
  /\ plan.requested \in Nat \ {0} /\ plan.requested \in 1 .. plan.limits.max_requests
  /\ plan.warmup \in Nat /\ plan.warmup \in 0 .. plan.limits.max_requests
  /\ plan.timing \in {"disabled", "vllm"}
  /\ DOMAIN plan.slo \subseteq {"ttft", "tpot", "e2e"}
  /\ \A k \in DOMAIN plan.slo : plan.slo[k] \in Nat \ {0}
  /\ OpenLoopRun =>
       /\ plan.load.rate > 0 /\ plan.load.rate <= plan.limits.max_request_rate
       /\ plan.load.maxInFlight <= plan.limits.max_in_flight_ceiling
       /\ plan.load.duration > 0
       /\ plan.load.planned = plan.requested
       /\ plan.load.planned = PlannedArrivalCount(plan.load.rate, plan.load.duration)
  /\ ~OpenLoopRun =>
       /\ plan.load.concurrency <= plan.limits.max_concurrency
       /\ plan.load.requests = plan.requested

(* what a lifecycle returns                                                *)
ResultOK(result) ==
  /\ result.mode = plan.load.mode
  /\ PhaseOK(result.warmup, "warmup", plan.warmup)
  /\ PhaseOK(result.measurement, "measured", plan.requested)
  /\ result.error \in {"none", "parent", "drain"}
  /\ result.drain.timedOut = (result.error = "drain")
  /\ result.drain.parentCancelled \in BOOLEAN
  /\ OpenLoopRun =>
       /\ ~result.drain.parentCancelled => result.stop = "measurement_duration_elapsed"
       /\ result.error = "none" => result.measurement.counts.unprocessed = 0

(* s and t are the artifacts of the warmup and of the measurement          *)
EvidenceOf(q, a, result, s, t) ==
  /\ ArtifactsOf(s, result.warmup.completed)
  /\ ArtifactsOf(t, result.measurement.completed)
  /\ q = s \o t
  /\ InPhase("warmup", q) = s /\ Measured(q) = t
  /\ InPhase("warmup", a) = result.warmup.arrivals
  /\ Measured(a) = result.measurement.arrivals
  /\ ~OpenLoopRun => a = <<>>
  /\ \E T : q \in Seq(T)
  /\ \E T : a \in Seq(T)

LEMMA EvidenceIs ==
  ASSUME PlanOK, NEW result, ResultOK(result),
         NEW q, q = LifecycleRequestArtifacts(result), NEW a, a = LifecycleArrivals(result)
  PROVE  \E s, t : EvidenceOf(q, a, result, s, t)
<1>1. PICK c, d : c = result.warmup.completed /\ d = result.measurement.completed
  OBVIOUS
<1>2. plan.warmup \in Nat /\ plan.requested \in Nat
  BY DEF PlanOK
<1>3. CompletedOK(c, "warmup", plan.warmup) /\ CompletedOK(d, "measured", plan.requested)
  BY <1>1 DEF ResultOK, PhaseOK
<1>4. /\ c \in Seq(Completion) /\ \A i \in DOMAIN c : c[i].phase = "warmup"
      /\ d \in Seq(Completion) /\ \A i \in DOMAIN d : d[i].phase = "measured"
  BY <1>3 DEF CompletedOK
<1>5. PICK s, t : s = Artifacts(c) /\ t = Artifacts(d)
  OBVIOUS
<1>6. ArtifactsOf(s, c) /\ ArtifactsOf(t, d)
  BY <1>4, <1>5, ArtifactsAre
<1>7. q = s \o t
  BY <1>1, <1>4, <1>5, ArtifactsJoin
<1>8. InPhase("warmup", q) = s /\ Measured(q) = t /\ \E T : q \in Seq(T)
  <2>1. PICK S : s \in Seq(S)
    BY <1>6 DEF ArtifactsOf
  <2>2. PICK T : t \in Seq(T)
    BY <1>6 DEF ArtifactsOf
  <2>3. s \in Seq(S \cup T) /\ t \in Seq(S \cup T)
    BY <2>1, <2>2, CommonType
  <2>4. /\ \A i \in DOMAIN s : s[i].phase = "warmup"
        /\ \A i \in DOMAIN t : t[i].phase = "measured"
    BY <1>4, <1>6 DEF ArtifactsOf
  <2>5. InPhase("warmup", s \o t) = s /\ InPhase("measured", s \o t) = t
    BY <2>3, <2>4, InPhases
  <2>6. s \o t \in Seq(S \cup T)
    BY <2>3
  <2> QED
    BY <1>7, <2>5, <2>6 DEF Measured
<1>9. PICK b, e : b = result.warmup.arrivals /\ e = result.measurement.arrivals
  OBVIOUS
<1>10. a = b \o e
  BY <1>9 DEF LifecycleArrivals
<1>11. /\ \E T : b \in Seq(T)
       /\ \E T : e \in Seq(T)
       /\ \A i \in DOMAIN b : b[i].phase = "warmup"
       /\ \A i \in DOMAIN e : e[i].phase = "measured"
       /\ ~OpenLoopRun => b = <<>> /\ e = <<>>
  <2>1. /\ result.warmup.phase = "warmup" /\ result.measurement.phase = "measured"
        /\ OpenLoopRun => ArrivalsOK(result.warmup) /\ ArrivalsOK(result.measurement)
        /\ ~OpenLoopRun => b = <<>> /\ e = <<>>
    BY <1>9 DEF ResultOK, PhaseOK, OpenPhaseOK, ClosedPhaseOK
  <2>2. <<>> \in Seq({}) /\ DOMAIN <<>> = {}
    OBVIOUS
  <2>3. CASE OpenLoopRun
    BY <1>9, <2>1, <2>3 DEF ArrivalsOK
  <2>4. CASE ~OpenLoopRun
    BY <2>1, <2>2, <2>4
  <2> QED
    BY <2>3, <2>4
<1>12. InPhase("warmup", a) = b /\ Measured(a) = e /\ \E T : a \in Seq(T)
  <2>1. PICK S : b \in Seq(S)
    BY <1>11
  <2>2. PICK T : e \in Seq(T)
    BY <1>11
  <2>3. b \in Seq(S \cup T) /\ e \in Seq(S \cup T)
    BY <2>1, <2>2, CommonType
  <2>5. InPhase("warmup", b \o e) = b /\ InPhase("measured", b \o e) = e
    BY <1>11, <2>3, InPhases
  <2>6. b \o e \in Seq(S \cup T)
    BY <2>3
  <2> QED
    BY <1>10, <2>5, <2>6 DEF Measured
<1>13. ~OpenLoopRun => a = <<>>
  <2>1. <<>> \o <<>> = <<>>
    OBVIOUS
  <2> QED
    BY <1>10, <1>11, <2>1
<1>14. EvidenceOf(q, a, result, s, t)
  BY <1>1, <1>6, <1>7, <1>8, <1>9, <1>12, <1>13, Zenon DEF EvidenceOf
<1> QED
  BY <1>14

(* The writer accepts each request of a phase.                             *)
LEMMA RequestsAccepted ==
  ASSUME NEW r, r.timing = plan.timing, NEW phase \in {"warmup", "measured"}, NEW n,
         (IF phase = "warmup" THEN r.warmup ELSE r.measurement).requested = n,
         NEW c, CompletedOK(c, phase, n), NEW s, ArtifactsOf(s, c), NEW i \in DOMAIN s
  PROVE  RequestAcceptable(r, s[i])
<1>1. PICK q, o : q = s[i] /\ o = c[i].observation
  OBVIOUS
<1>2. /\ q.sequence = c[i].sequence /\ q.phase = c[i].phase /\ q.outcome = c[i].outcome
      /\ q.observation = o /\ q.metrics = MetricsOf(o) /\ i \in DOMAIN c
  BY <1>1 DEF ArtifactsOf
<1>3. c[i].phase = phase /\ c[i].sequence \in 1 .. n /\ OutcomeAgrees(c[i].outcome, o)
  BY <1>1, <1>2 DEF CompletedOK
<1>4. /\ q.outcome \in Outcomes /\ o \in Observations
      /\ o.requested = (plan.timing = "vllm")
      /\ (q.outcome = "succeeded") = (o.error = "none")
  BY <1>2, <1>3 DEF OutcomeAgrees
<1>5. PICK m : m = MetricsOf(o)
  OBVIOUS
<1>6. m.itl # Unavailable => o.usage # NoUsage /\ Len(m.itl) = o.usage - 1
  BY <1>4, <1>5, MetricsAre
<1>7. CountsConsistent(o)
  BY <1>4, ObservationAssumption
<1>8. TokenTimingAgrees(r.timing, q)
  BY <1>2, <1>4, <1>5, <1>6, <1>7 DEF TokenTimingAgrees
<1>9. q.sequence \in 1 .. (IF q.phase = "warmup" THEN r.warmup ELSE r.measurement).requested
  BY <1>2, <1>3
<1> QED
  BY <1>1, <1>2, <1>4, <1>8, <1>9 DEF RequestAcceptable

(* The metadata of a run says of its phases what they are.                 *)
RecordOf(r, result, w, m) ==
  /\ r.warmup = w /\ r.measurement = m
  /\ r.status = Classification(result, w, m).status
  /\ r.error = Classification(result, w, m).error
  /\ r.class = Classification(result, w, m).class
  /\ r.drain = result.drain /\ r.stop = result.stop
  /\ r.load = plan.load /\ r.workload = plan.workload /\ r.timing = plan.timing
  /\ r.slo = plan.slo /\ r.limits = plan.limits

LEMMA RecordIs ==
  ASSUME NEW result, result.mode = plan.load.mode, NEW w, NEW m, NEW r,
         w = PhaseMetadata(plan.load.mode, result.warmup),
         m = PhaseMetadata(plan.load.mode, result.measurement),
         r = RunMetadata(plan, result)
  PROVE  RecordOf(r, result, w, m)
<1>1. PICK v : v = Classification(result, w, m)
  OBVIOUS
<1>2. r = [warmup      |-> w,
           measurement |-> m,
           status      |-> v.status,
           error       |-> v.error,
           class       |-> v.class,
           drain       |-> result.drain,
           stop        |-> result.stop,
           load        |-> plan.load,
           workload    |-> plan.workload,
           timing      |-> plan.timing,
           slo         |-> plan.slo,
           limits      |-> plan.limits]
  BY <1>1 DEF RunMetadata
<1> QED
  BY <1>1, <1>2 DEF RecordOf

(* The verdict agrees with what it was made of, unless the parent was      *)
(* cancelled and no phase said so.                                         *)
LEMMA StatusIs ==
  ASSUME PlanOK, NEW result, ResultOK(result), NEW w, NEW m, NEW s, NEW t,
         MetadataOf(w, result.warmup, s), MetadataOf(m, result.measurement, t),
         NEW r, RecordOf(r, result, w, m)
  PROVE  /\ r.status \in RunStatuses
         /\ (r.drain.parentCancelled => r.status = "cancelled") => StatusConsistent(r)
         /\ r.status = "completed" =>
              /\ result.error = "none"
              /\ w.failed = 0 /\ m.failed = 0
              /\ ~OpenLoopRun => w.attempted = w.requested /\ m.attempted = m.requested
              /\ OpenLoopRun /\ ~r.drain.parentCancelled =>
                   /\ m.arrivals.clientLimited = 0 /\ m.arrivals.schedulerLimited = 0
                   /\ m.arrivals.unprocessed = 0
<1>1. PICK k : k = result.measurement.counts
  OBVIOUS
<1>2. PICK v : v = Classification(result, w, m)
  OBVIOUS
<1>3. /\ r.status = v.status /\ r.error = v.error /\ r.class = v.class
      /\ r.drain = result.drain /\ r.load = plan.load
      /\ r.warmup = w /\ r.measurement = m
  BY <1>2 DEF RecordOf
<1>4. /\ OpenLoopRun => /\ m.arrivals = k
                        /\ k.clientLimited \in Nat /\ k.schedulerLimited \in Nat
                        /\ result.error = "none" => k.unprocessed = 0
      /\ OpenLoopRun = (result.mode = "open_loop")
      /\ ~OpenLoopRun = (result.mode = "closed_loop")
      /\ result.mode = r.load.mode
      /\ result.error \in {"none", "parent", "drain"}
      /\ result.drain.timedOut = (result.error = "drain")
      /\ result.drain.parentCancelled \in BOOLEAN
  BY <1>1, <1>3 DEF PlanOK, ResultOK, PhaseOK, OpenPhaseOK, MetadataOf, OpenLoopRun
<1>5. w.failed \in Nat /\ m.failed \in Nat
  BY DEF MetadataOf
<1>6. CASE result.error # "none"
  <2>1. v = [status |-> IF \/ result.error = "parent"
                           \/ result.drain.parentCancelled /\ result.error # "drain"
                        THEN "cancelled" ELSE "failed",
             error |-> TRUE, class |-> "none"]
    BY <1>2, <1>6 DEF Classification
  <2>2. v.error /\ v.class = "none" /\ v.status \in {"cancelled", "failed"}
    BY <2>1
  <2> QED
    BY <1>3, <2>2 DEF StatusConsistent, RunStatuses
<1>7. CASE result.error = "none" /\ LoadLimited(result)
  <2>1. v.status = "failed" /\ v.error /\ v.class = "load_delivery_error"
    BY <1>2, <1>7 DEF Classification
  <2>2. OpenLoopRun /\ ~r.drain.parentCancelled /\ k.clientLimited + k.schedulerLimited > 0
    BY <1>1, <1>3, <1>4, <1>7 DEF LoadLimited
  <2>3. r.load.mode = "open_loop" /\ r.measurement.arrivals = k
    BY <1>3, <1>4, <2>2
  <2>4. StatusConsistent(r)
    BY <1>3, <2>1, <2>2, <2>3 DEF StatusConsistent
  <2> QED
    BY <1>3, <2>1, <2>4 DEF RunStatuses
<1>8. CASE result.error = "none" /\ ~LoadLimited(result)
  <2> DEFINE short == /\ result.mode = "closed_loop"
                      /\ w.attempted # w.requested \/ m.attempted # m.requested
             bad == WarmupFailed(w) \/ m.failed > 0 \/ short
  <2>1. v = IF bad THEN [status |-> "failed", error |-> TRUE, class |-> "none"]
            ELSE [status |-> "completed", error |-> FALSE, class |-> "none"]
    BY <1>2, <1>8 DEF Classification
  <2>2. CASE bad
    <3>1. v.status = "failed" /\ v.error /\ v.class = "none"
      BY <2>1, <2>2
    <3> QED
      BY <1>3, <3>1 DEF StatusConsistent, RunStatuses
  <2>3. CASE ~bad
    <3>1. v.status = "completed" /\ ~v.error /\ v.class = "none"
      BY <2>1, <2>3
    <3>2. w.failed = 0 /\ m.failed = 0
      BY <1>5, <2>3 DEF WarmupFailed
    <3>3. ~OpenLoopRun => w.attempted = w.requested /\ m.attempted = m.requested
      BY <1>4, <2>3
    <3>4. ASSUME OpenLoopRun, ~r.drain.parentCancelled
          PROVE  /\ m.arrivals.clientLimited = 0 /\ m.arrivals.schedulerLimited = 0
                 /\ m.arrivals.unprocessed = 0
      <4>1. ~(k.clientLimited + k.schedulerLimited > 0)
        BY <1>1, <1>3, <1>4, <1>8, <3>4 DEF LoadLimited
      <4> QED
        BY <1>4, <1>8, <3>4, <4>1
    <3>5. ASSUME r.drain.parentCancelled => r.status = "cancelled" PROVE StatusConsistent(r)
      <4>1. r.status = "completed" /\ ~r.error /\ r.class = "none" /\ ~r.drain.parentCancelled
        BY <1>3, <3>1, <3>5
      <4>2. ~r.drain.timedOut
        BY <1>3, <1>4, <1>8
      <4>3. r.load.mode = "closed_loop" <=> ~OpenLoopRun
        BY <1>4
      <4> QED
        BY <1>3, <3>2, <3>3, <3>4, <4>1, <4>2, <4>3 DEF StatusConsistent
    <3> QED
      BY <1>3, <1>8, <3>1, <3>2, <3>3, <3>4, <3>5 DEF RunStatuses
  <2> QED
    BY <2>2, <2>3
<1> QED
  BY <1>6, <1>7, <1>8

(* everything about a run at once                                          *)
RunIs(result, s, t, w, m) ==
  /\ ResultOK(result)
  /\ RecordOf(run.metadata, result, w, m)
  /\ MetadataOf(w, result.warmup, s)
  /\ MetadataOf(m, result.measurement, t)
  /\ EvidenceOf(run.requests, run.arrivals, result, s, t)

RunOK ==
  \E result : /\ ResultOK(result)
              /\ run = [metadata |-> RunMetadata(plan, result),
                        requests |-> LifecycleRequestArtifacts(result),
                        arrivals |-> LifecycleArrivals(result)]

LEMMA RunFacts ==
  ASSUME PlanOK, RunOK
  PROVE  \E result, s, t, w, m : RunIs(result, s, t, w, m)
<1>1. PICK result : /\ ResultOK(result)
                    /\ run = [metadata |-> RunMetadata(plan, result),
                              requests |-> LifecycleRequestArtifacts(result),
                              arrivals |-> LifecycleArrivals(result)]
  BY DEF RunOK
<1>2. PICK r, q, a : r = run.metadata /\ q = run.requests /\ a = run.arrivals
  OBVIOUS
<1>3. /\ r = RunMetadata(plan, result)
      /\ q = LifecycleRequestArtifacts(result)
      /\ a = LifecycleArrivals(result)
  BY <1>1, <1>2
<1>4. PICK s, t : EvidenceOf(q, a, result, s, t)
  BY <1>1, <1>3, EvidenceIs
<1>5. PICK w, m : /\ w = PhaseMetadata(plan.load.mode, result.warmup)
                  /\ m = PhaseMetadata(plan.load.mode, result.measurement)
  OBVIOUS
<1>6. RecordOf(r, result, w, m)
  <2>1. result.mode = plan.load.mode
    BY <1>1 DEF ResultOK
  <2> QED
    BY <1>3, <1>5, <2>1, RecordIs
<1>7. /\ LoadOK /\ plan.warmup \in Nat /\ plan.requested \in Nat
      /\ PhaseOK(result.warmup, "warmup", plan.warmup)
      /\ PhaseOK(result.measurement, "measured", plan.requested)
  BY <1>1 DEF PlanOK, ResultOK
<1>8. /\ ArtifactsOf(s, result.warmup.completed)
      /\ ArtifactsOf(t, result.measurement.completed)
  BY <1>4 DEF EvidenceOf
<1>9. MetadataOf(w, result.warmup, s)
  BY <1>5, <1>7, <1>8, MetadataIs
<1>10. MetadataOf(m, result.measurement, t)
  BY <1>5, <1>7, <1>8, MetadataIs
<1>11. RunIs(result, s, t, w, m)
  BY <1>1, <1>2, <1>4, <1>6, <1>9, <1>10, Zenon DEF RunIs
<1> QED
  BY <1>11

(* each request is one of a phase's                                        *)
LEMMA EitherPhase ==
  ASSUME NEW result, NEW s, NEW t, NEW q, NEW a, EvidenceOf(q, a, result, s, t), NEW i \in DOMAIN q
  PROVE  (\E j \in DOMAIN s : q[i] = s[j]) \/ (\E j \in DOMAIN t : q[i] = t[j])
<1>1. PICK S : s \in Seq(S)
  BY DEF EvidenceOf, ArtifactsOf
<1>2. PICK T : t \in Seq(T)
  BY DEF EvidenceOf, ArtifactsOf
<1>3. PICK U : s \in Seq(U) /\ t \in Seq(U)
  BY <1>1, <1>2, CommonType
<1>4. q = s \o t
  BY DEF EvidenceOf
<1>5. /\ Len(s) \in Nat /\ Len(t) \in Nat
      /\ DOMAIN s = 1 .. Len(s) /\ DOMAIN t = 1 .. Len(t) /\ i \in 1 .. Len(s) + Len(t)
      /\ q[i] = IF i <= Len(s) THEN s[i] ELSE t[i - Len(s)]
  BY <1>3, <1>4
<1>6. CASE i <= Len(s)
  <2>1. i \in 1 .. Len(s)
    BY <1>5, <1>6
  <2> QED
    BY <1>5, <1>6, <2>1
<1>7. CASE ~(i <= Len(s))
  <2>1. i - Len(s) \in 1 .. Len(t)
    BY <1>5, <1>7
  <2> QED
    BY <1>5, <1>7, <2>1
<1> QED
  BY <1>6, <1>7

(* The aggregator accepts what the lifecycle returns.                      *)
LEMMA EvidenceAggregates ==
  ASSUME PlanOK, NEW result, NEW s, NEW t, NEW w, NEW m, RunIs(result, s, t, w, m)
  PROVE  Aggregatable(run.metadata, run.requests, run.arrivals)
<1>1. PICK r, q, a : r = run.metadata /\ q = run.requests /\ a = run.arrivals
  OBVIOUS
<1>2. /\ r.measurement = m /\ r.load = plan.load /\ r.slo = plan.slo
      /\ EvidenceOf(q, a, result, s, t) /\ Measured(q) = t
      /\ Measured(a) = result.measurement.arrivals
      /\ MetadataOf(m, result.measurement, t)
      /\ ~OpenLoopRun => a = <<>>
  BY <1>1 DEF RunIs, RecordOf, EvidenceOf
<1>3. PICK c, d : c = result.warmup.completed /\ d = result.measurement.completed
  OBVIOUS
<1>4. /\ CompletedOK(c, "warmup", plan.warmup) /\ CompletedOK(d, "measured", plan.requested)
      /\ ArtifactsOf(s, c) /\ ArtifactsOf(t, d)
      /\ m.requested = plan.requested
  BY <1>2, <1>3 DEF RunIs, ResultOK, PhaseOK, EvidenceOf, MetadataOf
<1>5. ASSUME NEW i \in DOMAIN t
      PROVE  t[i].sequence \in 1 .. m.requested /\ t[i].outcome \in Outcomes /\ t[i].phase = "measured"
  BY <1>4 DEF ArtifactsOf, CompletedOK, OutcomeAgrees
<1>6. ASSUME NEW i \in DOMAIN s PROVE s[i].phase = "warmup"
  BY <1>4 DEF ArtifactsOf, CompletedOK
<1>7. ASSUME NEW i \in DOMAIN q PROVE q[i].phase \in {"warmup", "measured"}
  BY <1>2, <1>5, <1>6, EitherPhase
<1>8. Distinct(t)
  BY <1>4, ArtifactsTally DEF CompletedOK
<1>9. RequestsAgree(r, q)
  <2>1. /\ m.attempted = m.completed /\ Len(t) = m.completed /\ Tally(t) = m.outcomes
    BY <1>2 DEF MetadataOf
  <2>2. \A k \in DOMAIN r.slo : r.slo[k] > 0
    BY <1>2 DEF PlanOK
  <2>3. \A i \in DOMAIN t : WithinRequested(r, t[i]) /\ t[i].outcome \in Outcomes
    BY <1>2, <1>5 DEF WithinRequested
  <2> QED
    BY <1>2, <1>7, <1>8, <2>1, <2>2, <2>3 DEF RequestsAgree
<1>10. CASE OpenLoopRun
  <2>1. PICK k, e : k = m.arrivals /\ e = Measured(a)
    OBVIOUS
  <2>2. /\ k # NoCounts /\ k.planned = m.requested
        /\ CountsAddUp(k, e, Len(t), plan.load.maxInFlight)
        /\ ArrivalsMatch(k, e, t)
    <3>1. OpenLoopPhaseAgrees(m, plan.load, t, result.measurement.arrivals)
      BY <1>2, <1>10 DEF MetadataOf
    <3>2. OpenPhaseOK(result.measurement)
      BY <1>10 DEF RunIs, ResultOK, PhaseOK
    <3>3. k = result.measurement.counts /\ e = result.measurement.arrivals
      BY <1>2, <1>10, <2>1 DEF MetadataOf
    <3>4. ArrivalsMatch(k, e, t)
      BY <1>4, <1>3, <3>2, <3>3, ArtifactsMatch DEF OpenPhaseOK, ArrivalsOK
    <3> QED
      BY <1>2, <2>1, <3>1, <3>3, <3>4 DEF OpenLoopPhaseAgrees
  <2>3. /\ plan.load.planned = plan.requested
        /\ plan.load.planned = PlannedArrivalCount(plan.load.rate, plan.load.duration)
    BY <1>10 DEF PlanOK
  <2>4. OpenLoadAgrees(r, q, a)
    BY <1>2, <1>4, <2>1, <2>2, <2>3 DEF OpenLoadAgrees
  <2> QED
    BY <1>1, <1>2, <1>9, <1>10, <2>4 DEF Aggregatable, OpenLoopRun
<1>11. CASE ~OpenLoopRun
  <2>1. /\ m.arrivals = NoCounts /\ m.concurrency = plan.load.concurrency
        /\ m.maxActive \in 0 .. m.workers
    BY <1>2, <1>11 DEF MetadataOf
  <2>2. plan.load.concurrency > 0 /\ plan.load.requests = plan.requested
    BY <1>11 DEF PlanOK, LoadOK
  <2>3. Measured(a) = <<>>
    BY <1>2, <1>11 DEF RunIs, ResultOK, PhaseOK, ClosedPhaseOK
  <2>4. ClosedLoadAgrees(r, a)
    BY <1>2, <1>4, <2>1, <2>2, <2>3 DEF ClosedLoadAgrees
  <2> QED
    BY <1>1, <1>2, <1>9, <1>11, <2>4 DEF Aggregatable, OpenLoopRun
<1> QED
  BY <1>10, <1>11

(* and so does the writer, if the verdict knows of a cancelled parent      *)
LEMMA EvidenceAccepted ==
  ASSUME PlanOK, WorkloadAcceptable(plan.workload, plan.limits),
         NEW result, NEW s, NEW t, NEW w, NEW m, RunIs(result, s, t, w, m),
         run.metadata.drain.parentCancelled => run.metadata.status = "cancelled"
  PROVE  Acceptable(run.metadata, run.requests, run.arrivals)
<1>1. PICK r, q, a : r = run.metadata /\ q = run.requests /\ a = run.arrivals
  OBVIOUS
<1>2. /\ RecordOf(r, result, w, m) /\ EvidenceOf(q, a, result, s, t) /\ ResultOK(result)
      /\ MetadataOf(w, result.warmup, s) /\ MetadataOf(m, result.measurement, t)
  BY <1>1 DEF RunIs
<1>3. /\ r.measurement = m /\ r.warmup = w /\ r.load = plan.load /\ r.limits = plan.limits
      /\ r.timing = plan.timing /\ r.workload = plan.workload
      /\ r.drain = result.drain /\ r.stop = result.stop
  BY <1>2 DEF RecordOf
<1>4. PICK c, d : c = result.warmup.completed /\ d = result.measurement.completed
  OBVIOUS
<1>5. /\ CompletedOK(c, "warmup", plan.warmup) /\ CompletedOK(d, "measured", plan.requested)
      /\ ArtifactsOf(s, c) /\ ArtifactsOf(t, d)
      /\ w.requested = plan.warmup /\ m.requested = plan.requested
      /\ w.phase = "warmup" /\ m.phase = "measured"
  BY <1>2, <1>4 DEF ResultOK, PhaseOK, EvidenceOf, MetadataOf
<1>6. /\ InPhase("warmup", q) = s /\ InPhase("measured", q) = t
      /\ InPhase("warmup", a) = result.warmup.arrivals
      /\ InPhase("measured", a) = result.measurement.arrivals
      /\ Measured(q) = t
      /\ ~OpenLoopRun => a = <<>>
  BY <1>2 DEF EvidenceOf, Measured
<1>7. RequestsAcceptable(r, q)
  <2>1. ASSUME NEW i \in DOMAIN s PROVE RequestAcceptable(r, s[i])
    BY <1>3, <1>5, RequestsAccepted
  <2>2. ASSUME NEW i \in DOMAIN t PROVE RequestAcceptable(r, t[i])
    <3>1. (IF "measured" = "warmup" THEN r.warmup ELSE r.measurement).requested = plan.requested
      BY <1>3, <1>5
    <3> QED
      BY <1>3, <1>5, <3>1, RequestsAccepted
  <2>3. Distinct(s) /\ Distinct(t)
    BY <1>5, ArtifactsTally DEF CompletedOK
  <2>4. \A i \in DOMAIN q : RequestAcceptable(r, q[i])
    BY <1>2, <2>1, <2>2, EitherPhase
  <2> QED
    BY <1>6, <2>3, <2>4 DEF RequestsAcceptable
<1>8. ASSUME OpenLoopRun PROVE OpenLoopMetadata(r, q, a)
  <2>1. /\ OpenLoopPhaseAgrees(w, plan.load, s, result.warmup.arrivals)
        /\ OpenLoopPhaseAgrees(m, plan.load, t, result.measurement.arrivals)
    BY <1>2, <1>8 DEF MetadataOf
  <2>2. \A p \in {r.warmup, r.measurement} :
          OpenLoopPhaseAgrees(p, r.load, InPhase(p.phase, q), InPhase(p.phase, a))
    BY <1>3, <1>5, <1>6, <2>1
  <2>3. ~r.drain.parentCancelled => r.stop = "measurement_duration_elapsed"
    BY <1>2, <1>3, <1>8 DEF ResultOK
  <2>4. /\ r.load.rate > 0 /\ r.load.rate <= r.limits.max_request_rate
        /\ r.load.maxInFlight > 0 /\ r.load.maxInFlight <= r.limits.max_in_flight_ceiling
        /\ r.load.planned = r.measurement.requested
        /\ r.load.duration > 0
        /\ r.load.planned = PlannedArrivalCount(r.load.rate, r.load.duration)
    <3>1. /\ plan.load.rate > 0 /\ plan.load.rate <= plan.limits.max_request_rate
          /\ plan.load.maxInFlight > 0 /\ plan.load.maxInFlight <= plan.limits.max_in_flight_ceiling
          /\ plan.load.planned = plan.requested
          /\ plan.load.duration > 0
          /\ plan.load.planned = PlannedArrivalCount(plan.load.rate, plan.load.duration)
      BY <1>8 DEF PlanOK, LoadOK
    <3> QED
      BY <1>3, <1>5, <3>1
  <2> QED
    BY <2>2, <2>3, <2>4, Zenon DEF OpenLoopMetadata
<1>9. ASSUME ~OpenLoopRun PROVE ClosedLoopMetadata(r, q, a)
  <2>1. /\ ClosedLoopPhaseAgrees(w, s) /\ ClosedLoopPhaseAgrees(m, t)
        /\ w.arrivals = NoCounts /\ m.arrivals = NoCounts
        /\ w.concurrency = plan.load.concurrency /\ m.concurrency = plan.load.concurrency
    BY <1>2, <1>9 DEF MetadataOf
  <2>2. plan.load.concurrency <= plan.limits.max_concurrency /\ plan.load.requests = plan.requested
    BY <1>9 DEF PlanOK
  <2>3. a = <<>> /\ InPhase("warmup", q) = s /\ Measured(q) = t
    BY <1>6, <1>9
  <2>4. ClosedLoopPhaseAgrees(r.warmup, InPhase("warmup", q)) /\ ClosedLoopPhaseAgrees(r.measurement, Measured(q))
    BY <1>3, <2>1, <2>3
  <2>5. /\ r.warmup.arrivals = NoCounts /\ r.measurement.arrivals = NoCounts
        /\ r.load.concurrency = r.measurement.concurrency
        /\ r.load.requests = r.measurement.requested
        /\ r.warmup.concurrency = r.measurement.concurrency
        /\ r.measurement.concurrency <= r.limits.max_concurrency
    BY <1>3, <1>5, <2>1, <2>2
  <2> QED
    BY <2>3, <2>4, <2>5, Zenon DEF ClosedLoopMetadata
<1>10. StatusConsistent(r)
  BY <1>1, <1>2, StatusIs
<1>11. MetadataAcceptable(r, q, a)
  <2>1. r.load.mode = "open_loop" <=> OpenLoopRun
    BY <1>3 DEF OpenLoopRun
  <2>2. r.timing \in {"disabled", "vllm"} /\ WorkloadAcceptable(r.workload, r.limits)
    BY <1>3 DEF PlanOK
  <2>3. r.measurement.requested \in 1 .. r.limits.max_requests
    BY <1>3, <1>5 DEF PlanOK
  <2>4. r.warmup.requested \in 0 .. r.limits.max_requests
    BY <1>3, <1>5 DEF PlanOK
  <2> QED
    BY <1>8, <1>9, <1>10, <2>1, <2>2, <2>3, <2>4 DEF MetadataAcceptable
<1>12. Aggregatable(r, q, a)
  BY <1>1, EvidenceAggregates
<1> QED
  BY <1>1, <1>7, <1>11, <1>12 DEF Acceptable

(***************************************************************************)
(* What the lifecycle returns, step by step                                *)
(***************************************************************************)

LEMMA PlanStays ==
  ASSUME PlanOK, plan' = plan
  PROVE  PlanOK'
  BY DEF PlanOK, LoadOK, OpenLoopRun

LEMMA PhaseStays ==
  ASSUME plan' = plan, NEW p, NEW phase, NEW n, PhaseOK(p, phase, n)
  PROVE  PhaseOK(p, phase, n)'
<1>1. (plan.timing = "vllm")' = (plan.timing = "vllm") /\ OpenLoopRun' = OpenLoopRun
  BY DEF OpenLoopRun
<1>2. CompletedOK(p.completed, phase, n)'
  BY <1>1 DEF PhaseOK, CompletedOK, OutcomeAgrees
<1>3. ArrivalsOK(p) => ArrivalsOK(p)'
  BY DEF ArrivalsOK
<1>4. OpenPhaseOK(p) => OpenPhaseOK(p)'
  BY <1>3 DEF OpenPhaseOK
<1>5. ClosedPhaseOK(p) => ClosedPhaseOK(p)'
  BY DEF ClosedPhaseOK, Workers
<1> QED
  BY <1>1, <1>2, <1>4, <1>5 DEF PhaseOK

LEMMA ResultStays ==
  ASSUME plan' = plan, NEW result, ResultOK(result)
  PROVE  ResultOK(result)'
<1>1. OpenLoopRun' = OpenLoopRun
  BY DEF OpenLoopRun
<1>2. PhaseOK(result.warmup, "warmup", plan.warmup)'
  <2>1. PICK n : n = plan.warmup
    OBVIOUS
  <2>2. PhaseOK(result.warmup, "warmup", n)
    BY <2>1 DEF ResultOK
  <2>3. PhaseOK(result.warmup, "warmup", n)'
    BY <2>2, PhaseStays
  <2> QED
    BY <2>1, <2>3
<1>3. PhaseOK(result.measurement, "measured", plan.requested)'
  <2>1. PICK n : n = plan.requested
    OBVIOUS
  <2>2. PhaseOK(result.measurement, "measured", n)
    BY <2>1 DEF ResultOK
  <2>3. PhaseOK(result.measurement, "measured", n)'
    BY <2>2, PhaseStays
  <2> QED
    BY <2>1, <2>3
<1> QED
  BY <1>1, <1>2, <1>3 DEF ResultOK

LEMMA RunStays ==
  ASSUME RunOK, plan' = plan, run' = run
  PROVE  RunOK'
<1>1. PICK result : /\ ResultOK(result)
                    /\ run = [metadata |-> RunMetadata(plan, result),
                              requests |-> LifecycleRequestArtifacts(result),
                              arrivals |-> LifecycleArrivals(result)]
  BY DEF RunOK
<1>2. ResultOK(result)'
  BY <1>1, ResultStays
<1> QED
  BY <1>1, <1>2 DEF RunOK

LEMMA ReturnedOK ==
  ASSUME PlanOK, NEW w, NEW m, NEW error \in {"none", "parent", "drain"},
         NEW cancelled \in BOOLEAN, NEW stop,
         PhaseOK(w, "warmup", plan.warmup), PhaseOK(m, "measured", plan.requested),
         OpenLoopRun => /\ ~cancelled => stop = "measurement_duration_elapsed"
                        /\ error = "none" => m.counts.unprocessed = 0,
         LifecycleReturned(w, m, error, cancelled, stop)
  PROVE  RunOK' /\ run' # Absent
<1>1. PICK result : result = [mode        |-> plan.load.mode,
                              warmup      |-> w,
                              measurement |-> m,
                              drain       |-> [timedOut |-> error = "drain",
                                               parentCancelled |-> cancelled],
                              error       |-> error,
                              stop        |-> stop]
  OBVIOUS
<1>2. /\ result.mode = plan.load.mode /\ result.warmup = w /\ result.measurement = m
      /\ result.error = error /\ result.stop = stop
      /\ result.drain.timedOut = (error = "drain") /\ result.drain.parentCancelled = cancelled
  BY <1>1
<1>3. ResultOK(result)
  BY <1>2 DEF ResultOK
<1>4. ResultOK(result)'
  <2>1. plan' = plan
    BY DEF LifecycleReturned
  <2> QED
    BY <1>3, <2>1, ResultStays
<1>5. run' = [metadata |-> RunMetadata(plan, result),
              requests |-> LifecycleRequestArtifacts(result),
              arrivals |-> LifecycleArrivals(result)]
  BY <1>1 DEF LifecycleReturned, Recorded
<1>6. RunOK'
  <2>1. plan' = plan
    BY DEF LifecycleReturned
  <2> QED
    BY <1>4, <1>5, <2>1 DEF RunOK
<1>7. run' # Absent
  <2>1. DOMAIN run' # {}
    BY <1>5
  <2> QED
    BY <2>1 DEF Absent
<1> QED
  BY <1>6, <1>7

LEMMA WarmupOK ==
  ASSUME PlanOK, NEW fates \in Fates(plan.warmup, FALSE), NEW active \in Active(fates), NEW error
  PROVE  PhaseOK(WarmupResult(fates, error, active), "warmup", plan.warmup)
<1>1. LoadOK /\ plan.warmup \in Nat
  BY DEF PlanOK
<1>2. PICK n : n = plan.warmup
  OBVIOUS
<1>3. PICK p : p = WarmupResult(fates, error, active)
  OBVIOUS
<1>4. CASE n = 0
  <2>1. p = SkippedPhase("warmup", n)
    BY <1>2, <1>3, <1>4 DEF WarmupResult
  <2>2. PhaseOK(p, "warmup", n)
    BY <1>1, <1>2, <2>1, SkippedPhaseOK
  <2> QED
    BY <1>2, <1>3, <2>2
<1>5. CASE n # 0
  <2>1. p = PhaseResult("warmup", fates, error, active)
    BY <1>2, <1>3, <1>5 DEF WarmupResult
  <2>2. PhaseOK(p, "warmup", n)
    <3>1. "warmup" = IF FALSE THEN "measured" ELSE "warmup"
      OBVIOUS
    <3> QED
      BY <1>1, <1>2, <2>1, <3>1, PhaseResultOK
  <2> QED
    BY <1>2, <1>3, <2>2
<1> QED
  BY <1>4, <1>5

(* However a run ends, its result is one that the evidence can be made of. *)
LEMMA SetupReturns ==
  ASSUME PlanOK, CancelledInSetup
  PROVE  RunOK' /\ run' # Absent
<1>1. LoadOK /\ plan.warmup \in Nat /\ plan.requested \in Nat
  BY DEF PlanOK
<1>2. PICK w, m : w = SkippedPhase("warmup", plan.warmup) /\ m = SkippedPhase("measured", plan.requested)
  OBVIOUS
<1>3. PhaseOK(w, "warmup", plan.warmup) /\ PhaseOK(m, "measured", plan.requested)
  BY <1>1, <1>2, SkippedPhaseOK
<1>4. LifecycleReturned(w, m, "parent", TRUE, "parent_cancelled_during_setup")
  BY <1>2 DEF CancelledInSetup
<1> QED
  BY <1>3, <1>4, ReturnedOK

LEMMA WarmupReturns ==
  ASSUME PlanOK, CancelledInWarmup
  PROVE  RunOK' /\ run' # Absent
<1>1. LoadOK /\ plan.requested \in Nat
  BY DEF PlanOK
<1>0. PICK fates \in Fates(plan.warmup, FALSE) :
        \E active \in Active(fates) :
          LifecycleReturned(WarmupResult(fates, "parent", active),
                            SkippedPhase("measured", plan.requested),
                            "parent", TRUE, "parent_cancelled_during_warmup")
  BY DEF CancelledInWarmup
<1>2. PICK active \in Active(fates) :
        LifecycleReturned(WarmupResult(fates, "parent", active),
                          SkippedPhase("measured", plan.requested),
                          "parent", TRUE, "parent_cancelled_during_warmup")
  BY <1>0
<1>3. PICK w, m : w = WarmupResult(fates, "parent", active) /\ m = SkippedPhase("measured", plan.requested)
  OBVIOUS
<1>4. PhaseOK(w, "warmup", plan.warmup)
  BY <1>3, WarmupOK
<1>5. PhaseOK(m, "measured", plan.requested)
  BY <1>1, <1>3, SkippedPhaseOK
<1>6. LifecycleReturned(w, m, "parent", TRUE, "parent_cancelled_during_warmup")
  BY <1>2, <1>3
<1> QED
  BY <1>4, <1>5, <1>6, ReturnedOK

LEMMA RunReturns ==
  ASSUME PlanOK, MeasurementReturns
  PROVE  RunOK' /\ run' # Absent
<1>1. LoadOK /\ plan.requested \in Nat
  BY DEF PlanOK
<1>2. PICK fates \in Fates(plan.requested, TRUE), error \in {"none", "parent", "drain"},
           cancelled \in BOOLEAN :
        /\ Returns(fates, error, cancelled, TRUE)
        /\ \E warmup \in Fates(plan.warmup, FALSE) :
             /\ WarmedUp(warmup, cancelled)
             /\ \E before \in Active(warmup), active \in Active(fates),
                   stop \in StopReasons(error, cancelled) :
                  LifecycleReturned(WarmupResult(warmup, "none", before),
                                    PhaseResult("measured", fates, error, active),
                                    error, cancelled, stop)
  BY DEF MeasurementReturns
<1>3. PICK warmup \in Fates(plan.warmup, FALSE) :
         \E before \in Active(warmup), active \in Active(fates),
            stop \in StopReasons(error, cancelled) :
           LifecycleReturned(WarmupResult(warmup, "none", before),
                             PhaseResult("measured", fates, error, active),
                             error, cancelled, stop)
  BY <1>2
<1>4. PICK before \in Active(warmup), active \in Active(fates),
           stop \in StopReasons(error, cancelled) :
        LifecycleReturned(WarmupResult(warmup, "none", before),
                          PhaseResult("measured", fates, error, active),
                          error, cancelled, stop)
  BY <1>3
<1>5. PICK w, m : w = WarmupResult(warmup, "none", before) /\ m = PhaseResult("measured", fates, error, active)
  OBVIOUS
<1>6. PhaseOK(w, "warmup", plan.warmup)
  BY <1>5, WarmupOK
<1>7. /\ PhaseOK(m, "measured", plan.requested)
      /\ OpenLoopRun /\ (\A s \in DOMAIN fates : fates[s].disposition # "unclaimed") =>
           m.counts.unprocessed = 0
  <2>1. "measured" = IF TRUE THEN "measured" ELSE "warmup"
    OBVIOUS
  <2> QED
    BY <1>1, <1>5, <2>1, PhaseResultOK
<1>8. error = "none" => \A s \in DOMAIN fates : fates[s].disposition # "unclaimed"
  BY <1>2 DEF Returns
<1>9. OpenLoopRun /\ ~cancelled => stop = "measurement_duration_elapsed"
  BY <1>4 DEF StopReasons, LimitReason
<1>10. LifecycleReturned(w, m, error, cancelled, stop)
  BY <1>4, <1>5
<1> QED
  BY <1>6, <1>7, <1>8, <1>9, <1>10, ReturnedOK

(***************************************************************************)
(* The configuration of a command                                          *)
(***************************************************************************)

Names   == DOMAIN Default
Numbers == Names \ (Axes \cup Texts)

(* a value of its type for every setting                                   *)
Settled(v) ==
  /\ DOMAIN v = Names
  /\ \A s \in Axes : v[s] \in Seq(Int)
  /\ \A s \in Numbers : v[s] \in Int

LEMMA NamesAre ==
  /\ Axes \subseteq Names /\ Texts \subseteq Names
  /\ Limits \subseteq Numbers
  /\ {"max_output_tokens", "temperature", "input_tokens", "timeout", "drain_timeout",
      "concurrency", "requests", "warmup_requests", "request_rate", "duration",
      "max_in_flight", "slo_ttft", "slo_tpot", "slo_e2e", "max_points"} \subseteq Numbers
  /\ {"mode", "workload_mode", "token_timing", "prompt"} \subseteq Texts
BY DEF Names, Numbers, Axes, Texts, Limits, Default

LEMMA DefaultSettled == Settled(Default)
<1>1. Default.concurrency_values = <<>> /\ Default.request_rate_values = <<>>
      /\ Default.input_token_values = <<>> /\ Default.output_token_values = <<>>
  BY DEF Default
<1>2. <<>> \in Seq(Int)
  OBVIOUS
<1>3. \A s \in Axes : Default[s] \in Seq(Int)
  BY <1>1, <1>2 DEF Axes
<1>4. \A s \in Numbers : Default[s] \in Int
  <2>1. NoThreshold \in Int /\ 2 * RateUnit \in Int
    BY AdmissionAssumption DEF NoThreshold
  <2>2. /\ Default.max_output_tokens = 1 /\ Default.temperature = 0 /\ Default.input_tokens = 0
        /\ Default.timeout = 1 /\ Default.drain_timeout = 1 /\ Default.concurrency = 1
        /\ Default.requests = 1 /\ Default.warmup_requests = 0
    BY DEF Default
  <2>3. /\ Default.request_rate = 0 /\ Default.duration = 0 /\ Default.max_in_flight = 0
        /\ Default.slo_ttft = NoThreshold /\ Default.slo_tpot = NoThreshold
        /\ Default.slo_e2e = NoThreshold /\ Default.max_points = 2
    BY DEF Default
  <2>4. /\ Default.max_concurrency = 2 /\ Default.max_requests = 2
        /\ Default.max_request_rate = 2 * RateUnit /\ Default.max_in_flight_ceiling = 2
        /\ Default.max_input_tokens = 3 /\ Default.max_output_tokens_ceiling = 2
    BY DEF Default
  <2>5. \A s \in Limits : Default[s] \in Int
    BY <2>1, <2>4 DEF Limits
  <2>6. \A s \in {"max_output_tokens", "temperature", "input_tokens", "timeout", "drain_timeout",
                 "concurrency", "requests", "warmup_requests", "request_rate", "duration",
                 "max_in_flight", "slo_ttft", "slo_tpot", "slo_e2e", "max_points"} :
          Default[s] \in Int
    BY <2>1, <2>2, <2>3
  <2>7. Numbers = {"max_output_tokens", "temperature", "input_tokens", "timeout", "drain_timeout",
                   "concurrency", "requests", "warmup_requests", "request_rate", "duration",
                   "max_in_flight", "slo_ttft", "slo_tpot", "slo_e2e", "max_points"} \cup Limits
    BY DEF Default, Numbers, Names, Axes, Texts, Limits
  <2> QED
    BY <2>5, <2>6, <2>7
<1> QED
  BY <1>3, <1>4 DEF Settled, Names

LEMMA OverlaySettled ==
  ASSUME NEW top, TypedSettings(top), NEW base, Settled(base)
  PROVE  Settled(Overlay(top, base))
<1>1. PICK v : v = Overlay(top, base)
  OBVIOUS
<1>2. DOMAIN top \subseteq Names /\ DOMAIN base = Names
  BY DEF TypedSettings, Settled, Names
<1>3. /\ DOMAIN v = Names
      /\ \A x \in Names : v[x] = IF x \in DOMAIN top THEN top[x] ELSE base[x]
  <2>1. DOMAIN v = DOMAIN top \cup DOMAIN base
    BY <1>1 DEF Overlay
  <2>2. ASSUME NEW x \in Names PROVE v[x] = IF x \in DOMAIN top THEN top[x] ELSE base[x]
    <3>1. x \in DOMAIN top \cup DOMAIN base
      BY <1>2
    <3> QED
      BY <1>1, <3>1 DEF Overlay
  <2> QED
    BY <1>2, <2>1, <2>2
<1>4. \A s \in Axes : v[s] \in Seq(Int)
  BY <1>2, <1>3, NamesAre DEF TypedSettings, Settled
<1>5. \A s \in Numbers : v[s] \in Int
  <2>1. \A s \in Numbers : s \in Names /\ s \notin Axes \cup Texts
    BY DEF Numbers
  <2> QED
    BY <1>3, <2>1 DEF TypedSettings, Settled
<1> QED
  BY <1>1, <1>3, <1>4, <1>5 DEF Settled

Merged == Overlay(flags, Overlay(file.given, Default))

LEMMA ResolutionIs ==
  ASSUME file \in Files, flags \in Flaggings
  PROVE  /\ Settled(Merged)
         /\ Resolve(file, flags).values = Merged
         /\ Resolved.values = IF Command = "calibrate-client"
                              THEN Overlay(CalibrationValues, Merged) ELSE Merged
         /\ Settled(Resolved.values)
<1>1. TypedSettings(file.given) /\ TypedSettings(flags)
  BY InputAssumption
<1>2. Settled(Merged)
  <2>1. Settled(Overlay(file.given, Default))
    BY <1>1, DefaultSettled, OverlaySettled
  <2> QED
    BY <1>1, <2>1, OverlaySettled DEF Merged
<1>3. Resolve(file, flags).values = Merged
  <2>1. PICK c : c = Load(file)
    OBVIOUS
  <2>2. c.values = Overlay(file.given, Default)
    BY <2>1 DEF Load, Given
  <2>3. Given(c, flags).values = Overlay(flags, c.values)
    BY DEF Given
  <2> QED
    BY <2>1, <2>2, <2>3 DEF Resolve, Merged
<1>4. PICK c : c = Resolve(file, flags)
  OBVIOUS
<1>5. Resolved.values = IF Command = "calibrate-client"
                        THEN Overlay(CalibrationValues, Merged) ELSE Merged
  <2>1. c = [values |-> c.values, supplied |-> c.supplied]
    BY <1>4 DEF Resolve, Given
  <2>2. ForCalibration(c).values = Overlay(CalibrationValues, c.values)
    BY <2>1 DEF ForCalibration
  <2>3. c.values = Merged
    BY <1>3, <1>4
  <2>4. Resolved = IF Command = "calibrate-client" THEN ForCalibration(c) ELSE c
    BY <1>4 DEF Resolved
  <2> QED
    BY <2>2, <2>3, <2>4
<1>6. TypedSettings(CalibrationValues)
  <2>1. DOMAIN CalibrationValues = {"prompt", "max_output_tokens", "temperature", "token_timing",
                                    "slo_ttft", "slo_tpot", "slo_e2e"}
    BY DEF CalibrationValues
  <2>2. /\ CalibrationValues.max_output_tokens \in Int /\ CalibrationValues.temperature \in Int
        /\ CalibrationValues.slo_ttft \in Int /\ CalibrationValues.slo_tpot \in Int
        /\ CalibrationValues.slo_e2e \in Int
    BY DEF CalibrationValues, NoThreshold
  <2>3. \A s \in DOMAIN CalibrationValues : s \in Names /\ s \notin Axes
    BY <2>1, NamesAre DEF Numbers, Axes
  <2>4. \A s \in DOMAIN CalibrationValues :
          s \notin Axes \cup Texts => CalibrationValues[s] \in Int
    BY <2>1, <2>2 DEF Texts
  <2> QED
    BY <2>3, <2>4 DEF TypedSettings, Names
<1> QED
  BY <1>2, <1>3, <1>5, <1>6, OverlaySettled

(* what the builder is asked for                                           *)
WorkloadPlanned ==
  /\ plan.workload.mode \in {"prompt", "token_length"}
  /\ plan.workload.output \in Nat \ {0}
  /\ plan.workload.output <= plan.limits.max_output_tokens_ceiling
  /\ plan.workload.mode = "token_length" =>
       /\ plan.workload.target \in Nat \ {0}
       /\ plan.workload.target <= plan.limits.max_input_tokens
       /\ plan.workload.target <= MaxInt - plan.workload.output

(* A valid configuration makes a plan.                                     *)
LEMMA ValidPlan ==
  ASSUME NEW c, NEW v, v = c.values, Settled(v), ValidStatic(c), plan' = RunPlan(v)
  PROVE  PlanOK' /\ WorkloadPlanned'
<1>1. PICK p : p = RunPlan(v)
  OBVIOUS
<1>2. /\ p.load = LoadMetadata(v) /\ p.warmup = v.warmup_requests
      /\ p.requested = AdmissionDecision(v).requested
      /\ p.timing = v.token_timing /\ p.slo = SLOConfig(v)
      /\ p.workload = [mode |-> v.workload_mode, target |-> v.input_tokens,
                       output |-> v.max_output_tokens, length |-> 0]
      /\ p.limits = [l \in Limits |-> v[l]]
  BY <1>1 DEF RunPlan
<1>3. /\ p.limits.max_concurrency = v.max_concurrency
      /\ p.limits.max_requests = v.max_requests
      /\ p.limits.max_request_rate = v.max_request_rate
      /\ p.limits.max_in_flight_ceiling = v.max_in_flight_ceiling
      /\ p.limits.max_input_tokens = v.max_input_tokens
      /\ p.limits.max_output_tokens_ceiling = v.max_output_tokens_ceiling
  BY <1>2 DEF Limits
<1>4. /\ v.max_concurrency \in Int /\ v.max_requests \in Int /\ v.max_request_rate \in Int
      /\ v.max_in_flight_ceiling \in Int /\ v.max_input_tokens \in Int
      /\ v.max_output_tokens_ceiling \in Int
  BY NamesAre DEF Settled, Limits
<1>5. /\ v.max_output_tokens \in Int /\ v.input_tokens \in Int /\ v.concurrency \in Int
      /\ v.requests \in Int /\ v.warmup_requests \in Int /\ v.request_rate \in Int
      /\ v.duration \in Int /\ v.max_in_flight \in Int
      /\ v.slo_ttft \in Int /\ v.slo_tpot \in Int /\ v.slo_e2e \in Int
  BY NamesAre DEF Settled
<1>6. Valid(c) /\ Admissible(v)
  BY DEF ValidStatic
<1>7. /\ ValidTokens(v) /\ v.token_timing \in {"disabled", "vllm"} /\ ValidThresholds(v)
      /\ ValidWorkload(c) /\ ValidLoad(c)
  BY <1>6 DEF Valid
<1>8. v.mode \in {"closed_loop", "open_loop"}
  BY <1>7 DEF ValidLoad
<1>9. /\ v.warmup_requests >= 0 /\ v.max_requests > 0
      /\ v.warmup_requests <= v.max_requests
      /\ IF v.mode = "open_loop" THEN AdmissibleOpenLoop(v) ELSE AdmissibleClosedLoop(v)
  BY <1>6 DEF Admissible
<1>10. /\ DOMAIN p.slo \subseteq {"ttft", "tpot", "e2e"}
       /\ \A k \in DOMAIN p.slo : p.slo[k] \in Nat \ {0}
  <2>1. PICK threshold : threshold = [ttft |-> v.slo_ttft, tpot |-> v.slo_tpot, e2e |-> v.slo_e2e]
    OBVIOUS
  <2>2. p.slo = [k \in {m \in DOMAIN threshold : threshold[m] # NoThreshold} |-> threshold[k]]
    BY <1>2, <2>1 DEF SLOConfig
  <2>3. \A t \in {v.slo_ttft, v.slo_tpot, v.slo_e2e} : t # NoThreshold => t \in Nat \ {0}
    BY <1>5, <1>7 DEF ValidThresholds
  <2>4. /\ DOMAIN threshold = {"ttft", "tpot", "e2e"}
        /\ \A k \in DOMAIN threshold : threshold[k] \in {v.slo_ttft, v.slo_tpot, v.slo_e2e}
    BY <2>1
  <2> QED
    BY <2>2, <2>3, <2>4
<1>11. WorkloadPlanned'
  <2>1. /\ p.workload.mode = v.workload_mode /\ p.workload.target = v.input_tokens
        /\ p.workload.output = v.max_output_tokens
    BY <1>2
  <2>2. v.workload_mode \in {"prompt", "token_length"}
    BY <1>7 DEF ValidWorkload
  <2>3. v.max_output_tokens \in Nat \ {0} /\ v.max_output_tokens <= v.max_output_tokens_ceiling
    BY <1>5, <1>7 DEF ValidTokens
  <2>4. v.workload_mode = "token_length" =>
          /\ v.input_tokens \in Nat \ {0}
          /\ v.input_tokens <= v.max_input_tokens
          /\ v.input_tokens <= MaxInt - v.max_output_tokens
    BY <1>5, <1>7 DEF ValidWorkload
  <2>5. plan' = p
    BY <1>1
  <2> QED
    BY <1>3, <2>1, <2>2, <2>3, <2>4, <2>5 DEF WorkloadPlanned
<1>12. CASE v.mode = "open_loop"
  <2>1. /\ v.request_rate > 0 /\ v.request_rate <= v.max_request_rate
        /\ v.duration > 0
        /\ v.max_in_flight > 0 /\ v.max_in_flight <= v.max_in_flight_ceiling
        /\ PlannedArrivalCount(v.request_rate, v.duration) \in 1 .. v.max_requests
    BY <1>9, <1>12 DEF AdmissibleOpenLoop
  <2>2. p.requested = PlannedArrivalCount(v.request_rate, v.duration)
    BY <1>2, <1>12 DEF AdmissionDecision
  <2>3. /\ p.load.mode = "open_loop" /\ p.load.rate = v.request_rate
        /\ p.load.duration = v.duration /\ p.load.maxInFlight = v.max_in_flight
        /\ p.load.planned = p.requested
    BY <1>2, <1>12 DEF LoadMetadata
  <2>4. p.requested \in Nat \ {0} /\ p.requested \in 1 .. p.limits.max_requests
    BY <1>3, <2>1, <2>2
  <2>5. p.warmup \in Nat /\ p.warmup \in 0 .. p.limits.max_requests
    BY <1>2, <1>3, <1>4, <1>5, <1>9
  <2>6. /\ p.load.maxInFlight \in Nat \ {0}
        /\ p.load.rate > 0 /\ p.load.rate <= p.limits.max_request_rate
        /\ p.load.maxInFlight <= p.limits.max_in_flight_ceiling
        /\ p.load.duration > 0
        /\ p.load.planned = PlannedArrivalCount(p.load.rate, p.load.duration)
    BY <1>3, <1>5, <2>1, <2>2, <2>3
  <2>7. plan' = p /\ OpenLoopRun' /\ p.timing \in {"disabled", "vllm"}
    BY <1>1, <1>2, <1>7, <2>3 DEF OpenLoopRun
  <2>8. PlanOK'
    BY <1>10, <2>3, <2>4, <2>5, <2>6, <2>7 DEF PlanOK, LoadOK
  <2> QED
    BY <1>11, <2>8
<1>13. CASE v.mode = "closed_loop"
  <2>1. /\ v.concurrency > 0 /\ v.concurrency <= v.max_concurrency
        /\ v.requests > 0 /\ v.requests <= v.max_requests
    BY <1>9, <1>13 DEF AdmissibleClosedLoop
  <2>2. p.requested = v.requests
    BY <1>2, <1>13 DEF AdmissionDecision
  <2>3. /\ p.load.mode = "closed_loop" /\ p.load.concurrency = v.concurrency
        /\ p.load.requests = p.requested
    BY <1>2, <1>13, <2>2 DEF LoadMetadata
  <2>4. p.requested \in Nat \ {0} /\ p.requested \in 1 .. p.limits.max_requests
    BY <1>3, <1>4, <1>5, <2>1, <2>2
  <2>5. p.warmup \in Nat /\ p.warmup \in 0 .. p.limits.max_requests
    BY <1>2, <1>3, <1>4, <1>5, <1>9
  <2>6. p.load.concurrency \in Nat \ {0} /\ p.load.concurrency <= p.limits.max_concurrency
    BY <1>3, <1>5, <2>1, <2>3
  <2>7. plan' = p /\ ~OpenLoopRun' /\ p.timing \in {"disabled", "vllm"}
    BY <1>1, <1>2, <1>7, <2>3 DEF OpenLoopRun
  <2>8. PlanOK'
    BY <1>10, <2>3, <2>4, <2>5, <2>6, <2>7 DEF PlanOK, LoadOK
  <2> QED
    BY <1>11, <2>8
<1> QED
  BY <1>8, <1>12, <1>13

(***************************************************************************)
(* The inductive invariant of a command                                    *)
(***************************************************************************)

(* Up to the key, the configuration is what the inputs make of it, and     *)
(* what is about to run are its points.                                    *)
ConfigInv ==
  /\ invocation \in Invocations
  /\ step \in {"start", "resolved", "validated"} => file \in Files /\ flags \in Flaggings
  /\ step \in {"resolved", "validated"} => config = Resolved
  /\ step = "validated" =>
       /\ PlanOrRunAccepted
       /\ points = IF IsRun THEN <<config>> ELSE Points(config)

PlanShape ==
  /\ plan = [load      |-> plan.load,
             warmup    |-> plan.warmup,
             requested |-> plan.requested,
             workload  |-> plan.workload,
             timing    |-> plan.timing,
             slo       |-> plan.slo,
             limits    |-> plan.limits]
  /\ plan.workload = [mode   |-> plan.workload.mode,
                      target |-> plan.workload.target,
                      output |-> plan.workload.output,
                      length |-> plan.workload.length]

(* A run follows its plan, and its workload fits the model once it is      *)
(* prepared.                                                               *)
PlanInv ==
  /\ step \in {"prepare", "build", "launch"} => PlanOK /\ PlanShape /\ WorkloadPlanned
  /\ step = "build" =>
       /\ plan.workload.mode = "token_length"
       /\ spec = [target |-> plan.workload.target, output |-> plan.workload.output]
  /\ step = "launch" => WorkloadAcceptable(plan.workload, plan.limits)
  /\ BuilderInv

(* A run that ended is a result of the lifecycle.                          *)
RunInv ==
  /\ step \in {"aggregate", "write"} => run # Absent
  /\ run # Absent =>
       /\ step \in {"aggregate", "write", "done"}
       /\ PlanOK /\ RunOK
       /\ WorkloadAcceptable(plan.workload, plan.limits)

RunAcceptable == Acceptable(run.metadata, run.requests, run.arrivals)

(* A summary is one of the run's evidence, and the exit status follows     *)
(* from who refused what.                                                  *)
VerdictInv ==
  /\ summary # Absent =>
       run # Absent /\ summary = Summary(run.metadata, run.requests, run.arrivals)
  /\ step = "write" => summary # Absent
  /\ step # "done" => exit = NoExit /\ refusedBy = "nobody"
  /\ refusedBy \in {"nobody", "writer", "file system"}
  /\ refusedBy # "nobody" => run # Absent /\ exit = 1
  /\ refusedBy = "writer" => ~RunAcceptable
  /\ run # Absent /\ step = "done" /\ refusedBy = "nobody" =>
       summary # Absent /\ RunAcceptable /\ exit = ExitOfRun

CommandInv == ConfigInv /\ PlanInv /\ RunInv /\ VerdictInv

LEMMA CommandStarts == Init => CommandInv
<1> SUFFICES ASSUME Init PROVE CommandInv
  OBVIOUS
<1>1. ConfigInv
  BY DEF Init, ConfigInv
<1>2. PlanInv
  BY BuilderStarts DEF Init, PlanInv
<1>3. RunInv /\ VerdictInv
  BY DEF Init, RunInv, VerdictInv, Absent
<1> QED
  BY <1>1, <1>2, <1>3 DEF CommandInv

(* the parts of the invariant that a step leaves alone                     *)
LEMMA PlanInvStays ==
  ASSUME PlanInv, UNCHANGED <<plan, spec>>, BuilderInv',
         step' \in {"prepare", "build", "launch"} => step' = step
  PROVE  PlanInv'
<1>1. PlanOK => PlanOK'
  BY PlanStays
<1>2. (PlanShape => PlanShape') /\ (WorkloadPlanned => WorkloadPlanned')
  BY DEF PlanShape, WorkloadPlanned
<1>3. step' = step \/ step' \notin {"prepare", "build", "launch"}
  OBVIOUS
<1>4. CASE step' = step
  BY <1>1, <1>2, <1>4 DEF PlanInv
<1>5. CASE step' \notin {"prepare", "build", "launch"}
  BY <1>5 DEF PlanInv
<1> QED
  BY <1>3, <1>4, <1>5

LEMMA RunInvStays ==
  ASSUME RunInv, UNCHANGED <<plan, run>>,
         step' \in {"aggregate", "write", "done"},
         step' \in {"aggregate", "write"} => run # Absent
  PROVE  RunInv'
<1>1. (PlanOK => PlanOK') /\ (RunOK => RunOK')
  BY PlanStays, RunStays
<1> QED
  BY <1>1 DEF RunInv

LEMMA NoRunYet ==
  ASSUME run' = Absent, step' \notin {"aggregate", "write"}
  PROVE  RunInv'
BY DEF RunInv

LEMMA VerdictInvStays ==
  ASSUME VerdictInv, UNCHANGED <<run, summary, refusedBy>>, run = Absent,
         step' # "write", step' # "done" => exit' = NoExit /\ refusedBy = "nobody"
  PROVE  VerdictInv'
BY DEF VerdictInv, Absent

(* before a run has ended                                                  *)
Unbegun == {"start", "resolved", "validated", "prepare", "build", "launch", "experiment"}

LEMMA NotYetRun ==
  ASSUME CommandInv, step \in Unbegun
  PROVE  run = Absent /\ summary = Absent /\ exit = NoExit /\ refusedBy = "nobody"
BY DEF CommandInv, RunInv, VerdictInv, Unbegun

(* a step of a command that has not run anything                           *)
LEMMA UnbegunKeeps ==
  ASSUME CommandInv, step \in Unbegun,
         UNCHANGED <<run, summary, refusedBy>>,
         step' \in Unbegun \/ step' = "done", step' # "done" => exit' = exit
  PROVE  RunInv' /\ VerdictInv'
<1>1. run = Absent /\ exit = NoExit /\ refusedBy = "nobody" /\ VerdictInv
  BY NotYetRun DEF CommandInv
<1>2. RunInv'
  BY <1>1, NoRunYet DEF Unbegun
<1>3. VerdictInv'
  BY <1>1, VerdictInvStays DEF Unbegun
<1> QED
  BY <1>2, <1>3

LEMMA AnswerUsageKeeps ==
  ASSUME CommandInv, AnswerUsage
  PROVE  CommandInv'
<1>1. RunInv' /\ VerdictInv'
  BY UnbegunKeeps DEF AnswerUsage, Exit, Unbegun
<1>2. PlanInv'
  <2>1. BuilderInv'
    BY BuilderStutters DEF CommandInv, PlanInv, AnswerUsage
  <2> QED
    BY <2>1, PlanInvStays DEF CommandInv, AnswerUsage, Exit, builderVars
<1>3. ConfigInv'
  BY DEF CommandInv, ConfigInv, AnswerUsage, Exit, inputs
<1> QED
  BY <1>1, <1>2, <1>3 DEF CommandInv

LEMMA ResolveConfigKeeps ==
  ASSUME CommandInv, ResolveConfig
  PROVE  CommandInv'
<1>1. RunInv' /\ VerdictInv'
  BY UnbegunKeeps DEF ResolveConfig, Exit, Unbegun
<1>2. PlanInv'
  <2>1. BuilderInv'
    BY BuilderStutters DEF CommandInv, PlanInv, ResolveConfig
  <2> QED
    BY <2>1, PlanInvStays DEF CommandInv, ResolveConfig, Exit, builderVars
<1>3. ConfigInv'
  <2>1. /\ (step' = "resolved" /\ config' = Resolved) \/ step' = "done"
        /\ UNCHANGED inputs /\ step = "start"
    BY DEF ResolveConfig, Exit
  <2>2. Resolved' = Resolved
    BY <2>1 DEF Resolved, inputs, Command
  <2> QED
    BY <2>1, <2>2 DEF CommandInv, ConfigInv, inputs
<1> QED
  BY <1>1, <1>2, <1>3 DEF CommandInv

LEMMA ValidateKeeps ==
  ASSUME CommandInv, Validate
  PROVE  CommandInv'
<1>1. RunInv' /\ VerdictInv'
  BY UnbegunKeeps DEF Validate, Exit, Unbegun
<1>2. PlanInv'
  <2>1. BuilderInv'
    BY BuilderStutters DEF CommandInv, PlanInv, Validate
  <2> QED
    BY <2>1, PlanInvStays DEF CommandInv, Validate, Exit, builderVars
<1>3. ConfigInv'
  <2>1. UNCHANGED <<inputs, config>> /\ step = "resolved"
    BY DEF Validate
  <2>2. CASE PlanOrRunAccepted
    <3>1. /\ step' = "validated"
          /\ points' = IF IsRun THEN <<config>> ELSE Points(config)
      BY <2>2 DEF Validate
    <3>2. Resolved' = Resolved /\ PlanOrRunAccepted' /\ IsRun' = IsRun
      BY <2>1, <2>2 DEF Resolved, inputs, Command, PlanOrRunAccepted, IsRun
    <3>3. config' = config /\ config = Resolved /\ file' = file /\ flags' = flags
      BY <2>1 DEF CommandInv, ConfigInv, inputs
    <3> QED
      BY <2>1, <3>1, <3>2, <3>3 DEF CommandInv, ConfigInv, inputs
  <2>3. CASE ~PlanOrRunAccepted
    <3>1. step' = "done"
      BY <2>3 DEF Validate, Exit
    <3> QED
      BY <2>1, <3>1 DEF CommandInv, ConfigInv, inputs
  <2> QED
    BY <2>2, <2>3
<1> QED
  BY <1>1, <1>2, <1>3 DEF CommandInv

(* The key is resolved for a valid run: the plan follows.                  *)
LEMMA ResolveKeyKeeps ==
  ASSUME CommandInv, ResolveKey
  PROVE  CommandInv'
<1>1. RunInv' /\ VerdictInv'
  BY UnbegunKeeps DEF ResolveKey, Exit, Unbegun
<1>2. /\ UNCHANGED <<invocation, builderVars>> /\ step = "validated"
      /\ step' \in {"prepare", "experiment", "done"}
  BY DEF ResolveKey, Exit
<1>3. ConfigInv'
  BY <1>2 DEF CommandInv, ConfigInv
<1>4. BuilderInv'
  BY <1>2, BuilderStutters DEF CommandInv, PlanInv
<1>5. step' \in {"experiment", "done"} => PlanInv'
  BY <1>4 DEF PlanInv
<1>6. ASSUME step' = "prepare" PROVE PlanInv'
  <2>1. IsRun /\ plan' = RunPlan(config.values)
    BY <1>6 DEF ResolveKey, Exit
  <2>2. config = Resolved /\ PlanOrRunAccepted /\ file \in Files /\ flags \in Flaggings
    BY <1>2 DEF CommandInv, ConfigInv
  <2>3. PICK c, v : c = config /\ v = c.values
    OBVIOUS
  <2>4. ValidStatic(c)
    BY <2>1, <2>2, <2>3 DEF PlanOrRunAccepted, IsRun
  <2>5. Settled(v)
    BY <2>2, <2>3, ResolutionIs
  <2>6. plan' = RunPlan(v)
    BY <2>1, <2>3
  <2>7. PlanOK' /\ WorkloadPlanned'
    BY <2>3, <2>4, <2>5, <2>6, ValidPlan
  <2>8. PlanShape'
    BY <2>6 DEF PlanShape, RunPlan
  <2> QED
    BY <1>4, <1>6, <2>7, <2>8 DEF PlanInv
<1> QED
  BY <1>1, <1>2, <1>3, <1>5, <1>6 DEF CommandInv

LEMMA ExperimentReturnsKeeps ==
  ASSUME CommandInv, ExperimentReturns
  PROVE  CommandInv'
<1>1. RunInv' /\ VerdictInv'
  BY UnbegunKeeps DEF ExperimentReturns, Exit, Unbegun
<1>2. PlanInv'
  <2>1. BuilderInv'
    BY BuilderStutters DEF CommandInv, PlanInv, ExperimentReturns
  <2> QED
    BY <2>1, PlanInvStays DEF CommandInv, ExperimentReturns, Exit, builderVars
<1>3. ConfigInv'
  BY DEF CommandInv, ConfigInv, ExperimentReturns, Exit, inputs
<1> QED
  BY <1>1, <1>2, <1>3 DEF CommandInv

(* what a plan keeps when only the step changes                            *)
LEMMA PlannedStays ==
  ASSUME PlanOK, PlanShape, WorkloadPlanned, plan' = plan
  PROVE  PlanOK' /\ PlanShape' /\ WorkloadPlanned'
<1>1. PlanOK'
  BY PlanStays
<1>2. PlanShape' /\ WorkloadPlanned'
  BY DEF PlanShape, WorkloadPlanned
<1> QED
  BY <1>1, <1>2

LEMMA PreparePromptKeeps ==
  ASSUME CommandInv, PreparePrompt
  PROVE  CommandInv'
<1>1. RunInv' /\ VerdictInv'
  BY UnbegunKeeps DEF PreparePrompt, Unbegun
<1>2. PlanOK /\ PlanShape /\ WorkloadPlanned /\ plan' = plan /\ step' = "launch"
  BY DEF CommandInv, PlanInv, PreparePrompt
<1>3. PlanOK' /\ PlanShape' /\ WorkloadPlanned'
  BY <1>2, PlannedStays
<1>4. WorkloadAcceptable(plan.workload, plan.limits)'
  BY <1>2 DEF PreparePrompt, WorkloadPlanned, WorkloadAcceptable
<1>5. BuilderInv'
  BY BuilderStutters DEF CommandInv, PlanInv, PreparePrompt
<1>6. PlanInv'
  BY <1>2, <1>3, <1>4, <1>5 DEF PlanInv
<1>7. ConfigInv'
  BY DEF CommandInv, ConfigInv, PreparePrompt, inputs
<1> QED
  BY <1>1, <1>6, <1>7 DEF CommandInv

LEMMA PrepareTokensKeeps ==
  ASSUME CommandInv, PrepareTokens
  PROVE  CommandInv'
<1>1. RunInv' /\ VerdictInv'
  BY UnbegunKeeps DEF PrepareTokens, Unbegun
<1>2. /\ PlanOK /\ PlanShape /\ WorkloadPlanned /\ plan' = plan /\ step' = "build"
      /\ plan.workload.mode = "token_length"
      /\ StartBuild(plan.workload.target, plan.workload.output)
  BY DEF CommandInv, PlanInv, PrepareTokens
<1>3. PlanOK' /\ PlanShape' /\ WorkloadPlanned'
  BY <1>2, PlannedStays
<1>4. PICK t, o : t = plan.workload.target /\ o = plan.workload.output
  OBVIOUS
<1>5. StartBuild(t, o) /\ spec' = [target |-> t, output |-> o]
  BY <1>2, <1>4 DEF StartBuild
<1>6. BuilderInv'
  BY <1>5, StartKeeps DEF CommandInv, PlanInv
<1>7. PlanInv'
  BY <1>2, <1>3, <1>4, <1>5, <1>6 DEF PlanInv
<1>8. ConfigInv'
  BY DEF CommandInv, ConfigInv, PrepareTokens, inputs
<1> QED
  BY <1>1, <1>7, <1>8 DEF CommandInv

LEMMA BuildKeeps ==
  ASSUME CommandInv, Build
  PROVE  CommandInv'
<1>1. RunInv' /\ VerdictInv'
  BY UnbegunKeeps DEF Build, Unbegun
<1>2. BuilderInv'
  BY BuilderStepKeeps DEF CommandInv, PlanInv, Build
<1>3. spec' = spec
  BY DEF Build, BuilderStep, Probe, CountMinimum, TryCandidate, CallFails, Refuse, Prepare
<1>4. PlanInv'
  BY <1>2, <1>3, PlanInvStays DEF CommandInv, Build
<1>5. ConfigInv'
  BY DEF CommandInv, ConfigInv, Build, inputs
<1> QED
  BY <1>1, <1>4, <1>5 DEF CommandInv

(* A built workload is one that the writer will accept.                    *)
LEMMA BuiltWorkload ==
  ASSUME PlanOK, PlanShape, WorkloadPlanned, BuilderInv, bStep = "prepared",
         plan.workload.mode = "token_length",
         spec = [target |-> plan.workload.target, output |-> plan.workload.output],
         plan' = [plan EXCEPT !.workload.length = maxLength]
  PROVE  /\ PlanOK' /\ PlanShape' /\ WorkloadPlanned'
         /\ WorkloadAcceptable(plan.workload, plan.limits)'
<1>1. PICK p, w : p = plan /\ w = p.workload
  OBVIOUS
<1>2. /\ p = [load |-> p.load, warmup |-> p.warmup, requested |-> p.requested, workload |-> w,
              timing |-> p.timing, slo |-> p.slo, limits |-> p.limits]
      /\ w = [mode |-> w.mode, target |-> w.target, output |-> w.output, length |-> w.length]
  BY <1>1 DEF PlanShape
<1>3. PICK x : x = [w EXCEPT !.length = maxLength]
  OBVIOUS
<1>4. x = [mode |-> w.mode, target |-> w.target, output |-> w.output, length |-> maxLength]
  BY <1>2, <1>3
<1>5. plan' = [p EXCEPT !.workload = x]
  BY <1>1, <1>3
<1>6. plan' = [load |-> p.load, warmup |-> p.warmup, requested |-> p.requested, workload |-> x,
               timing |-> p.timing, slo |-> p.slo, limits |-> p.limits]
  BY <1>2, <1>5
<1>7. /\ plan'.load = p.load /\ plan'.warmup = p.warmup /\ plan'.requested = p.requested
      /\ plan'.workload = x
      /\ plan'.timing = p.timing /\ plan'.slo = p.slo /\ plan'.limits = p.limits
  BY <1>6
<1>8. /\ x.mode = w.mode /\ x.target = w.target /\ x.output = w.output /\ x.length = maxLength
  BY <1>4
<1>9. PlanOK'
  <2>1. OpenLoopRun' = OpenLoopRun /\ LoadOK' = LoadOK
    BY <1>1, <1>7 DEF OpenLoopRun, LoadOK
  <2> QED
    BY <1>1, <1>7, <2>1 DEF PlanOK
<1>10. PlanShape'
  BY <1>4, <1>6, <1>7, <1>8 DEF PlanShape
<1>11. WorkloadPlanned'
  BY <1>1, <1>7, <1>8 DEF WorkloadPlanned
<1>12. w.target + w.output <= maxLength
  <2>1. spec.target = w.target /\ spec.output = w.output
    BY <1>1
  <2> QED
    BY <2>1 DEF BuilderInv, FitInv, FitsModel
<1>13. /\ w.target \in Nat \ {0} /\ w.output \in Nat \ {0}
       /\ w.output <= p.limits.max_output_tokens_ceiling
       /\ w.target <= p.limits.max_input_tokens
       /\ w.target <= MaxInt - w.output
  BY <1>1 DEF WorkloadPlanned
<1>14. maxLength > 0
  BY DEF BuilderInv, FitInv
<1>15. WorkloadAcceptable(x, p.limits)
  BY <1>8, <1>12, <1>13, <1>14 DEF WorkloadAcceptable
<1> QED
  BY <1>7, <1>9, <1>10, <1>11, <1>15

LEMMA BuildReturnsKeeps ==
  ASSUME CommandInv, BuildReturns
  PROVE  CommandInv'
<1>1. RunInv' /\ VerdictInv'
  BY UnbegunKeeps DEF BuildReturns, Exit, Unbegun
<1>2. ConfigInv'
  BY DEF CommandInv, ConfigInv, BuildReturns, Exit, inputs
<1>3. BuilderInv'
  BY BuilderStutters DEF CommandInv, PlanInv, BuildReturns
<1>4. CASE bStep = "prepared" /\ plan' = [plan EXCEPT !.workload.length = maxLength] /\ step' = "launch"
  <2>1. /\ PlanOK /\ PlanShape /\ WorkloadPlanned /\ BuilderInv
        /\ plan.workload.mode = "token_length"
        /\ spec = [target |-> plan.workload.target, output |-> plan.workload.output]
    BY DEF CommandInv, PlanInv, BuildReturns
  <2>2. /\ PlanOK' /\ PlanShape' /\ WorkloadPlanned'
        /\ WorkloadAcceptable(plan.workload, plan.limits)'
    BY <1>4, <2>1, BuiltWorkload
  <2>3. PlanInv'
    BY <1>3, <1>4, <2>2 DEF PlanInv
  <2> QED
    BY <1>1, <1>2, <2>3 DEF CommandInv
<1>5. CASE step' = "done"
  <2>1. PlanInv'
    BY <1>3, <1>5 DEF PlanInv
  <2> QED
    BY <1>1, <1>2, <2>1 DEF CommandInv
<1> QED
  BY <1>4, <1>5 DEF BuildReturns, Exit

LEMMA RunIDFailsKeeps ==
  ASSUME CommandInv, RunIDFails
  PROVE  CommandInv'
<1>1. RunInv' /\ VerdictInv'
  BY UnbegunKeeps DEF RunIDFails, Exit, Unbegun
<1>2. PlanInv'
  <2>1. BuilderInv'
    BY BuilderStutters DEF CommandInv, PlanInv, RunIDFails
  <2> QED
    BY <2>1, PlanInvStays DEF CommandInv, RunIDFails, Exit, builderVars
<1>3. ConfigInv'
  BY DEF CommandInv, ConfigInv, RunIDFails, Exit, inputs
<1> QED
  BY <1>1, <1>2, <1>3 DEF CommandInv

(* the lifecycle returns, one way or another                               *)
LEMMA LifecycleKeeps ==
  ASSUME CommandInv, step = "launch", NEW w, NEW m, NEW error, NEW cancelled, NEW stop,
         LifecycleReturned(w, m, error, cancelled, stop), RunOK', run' # Absent
  PROVE  CommandInv'
<1>1. /\ step' = "aggregate" /\ plan' = plan /\ inputs' = inputs /\ builderVars' = builderVars
      /\ UNCHANGED <<summary, refusedBy, exit>>
  BY DEF LifecycleReturned
<1>2. run = Absent /\ summary = Absent /\ exit = NoExit /\ refusedBy = "nobody"
  BY NotYetRun DEF Unbegun
<1>3. PlanOK' /\ WorkloadAcceptable(plan.workload, plan.limits)'
  BY <1>1, PlanStays DEF CommandInv, PlanInv
<1>4. RunInv'
  BY <1>1, <1>3 DEF RunInv
<1>5. VerdictInv'
  BY <1>1, <1>2 DEF VerdictInv
<1>6. PlanInv'
  <2>1. BuilderInv'
    BY <1>1, BuilderStutters DEF CommandInv, PlanInv
  <2> QED
    BY <1>1, <2>1 DEF PlanInv
<1>7. ConfigInv'
  BY <1>1 DEF CommandInv, ConfigInv, inputs
<1> QED
  BY <1>4, <1>5, <1>6, <1>7 DEF CommandInv

LEMMA CancelledInSetupKeeps ==
  ASSUME CommandInv, CancelledInSetup
  PROVE  CommandInv'
<1>1. PlanOK /\ step = "launch"
  BY DEF CommandInv, PlanInv, CancelledInSetup
<1>2. RunOK' /\ run' # Absent
  BY <1>1, SetupReturns
<1>3. \E w, m, error, cancelled, stop : LifecycleReturned(w, m, error, cancelled, stop)
  BY DEF CancelledInSetup
<1> QED
  BY <1>1, <1>2, <1>3, LifecycleKeeps

LEMMA CancelledInWarmupKeeps ==
  ASSUME CommandInv, CancelledInWarmup
  PROVE  CommandInv'
<1>1. PlanOK /\ step = "launch"
  BY DEF CommandInv, PlanInv, CancelledInWarmup
<1>2. RunOK' /\ run' # Absent
  BY <1>1, WarmupReturns
<1>3. \E w, m, error, cancelled, stop : LifecycleReturned(w, m, error, cancelled, stop)
  BY DEF CancelledInWarmup
<1> QED
  BY <1>1, <1>2, <1>3, LifecycleKeeps

LEMMA MeasurementReturnsKeeps ==
  ASSUME CommandInv, MeasurementReturns
  PROVE  CommandInv'
<1>1. PlanOK /\ step = "launch"
  BY DEF CommandInv, PlanInv, MeasurementReturns
<1>2. RunOK' /\ run' # Absent
  BY <1>1, RunReturns
<1>3. \E w, m, error, cancelled, stop : LifecycleReturned(w, m, error, cancelled, stop)
  BY DEF MeasurementReturns
<1> QED
  BY <1>1, <1>2, <1>3, LifecycleKeeps

(* The aggregator accepts every run, and makes its summary.                *)
LEMMA AggregateKeeps ==
  ASSUME CommandInv, Aggregate
  PROVE  CommandInv'
<1>1. /\ step = "aggregate" /\ run # Absent /\ PlanOK /\ RunOK /\ RunInv /\ PlanInv
      /\ UNCHANGED <<inputs, plan, run, builderVars>>
  BY DEF CommandInv, RunInv, Aggregate
<1>2. Aggregatable(run.metadata, run.requests, run.arrivals)
  BY <1>1, RunFacts, EvidenceAggregates
<1>3. /\ summary' = Summary(run.metadata, run.requests, run.arrivals)
      /\ step' = "write" /\ UNCHANGED <<refusedBy, exit>>
  BY <1>2 DEF Aggregate
<1>4. RunInv'
  BY <1>1, <1>3, RunInvStays
<1>5. summary' # Absent
  <2>1. DOMAIN summary' # {}
    BY <1>3 DEF Summary
  <2> QED
    BY <2>1 DEF Absent
<1>6. VerdictInv'
  BY <1>1, <1>3, <1>5 DEF CommandInv, VerdictInv
<1>7. PlanInv'
  <2>1. BuilderInv'
    BY <1>1, BuilderStutters DEF PlanInv
  <2> QED
    BY <1>3, <2>1 DEF PlanInv
<1>8. ConfigInv'
  BY <1>1, <1>3 DEF CommandInv, ConfigInv, inputs
<1> QED
  BY <1>4, <1>6, <1>7, <1>8 DEF CommandInv

LEMMA WriteArtifactsKeeps ==
  ASSUME CommandInv, WriteArtifacts
  PROVE  CommandInv'
<1>1. /\ step = "write" /\ run # Absent /\ RunInv /\ PlanInv /\ summary # Absent
      /\ summary = Summary(run.metadata, run.requests, run.arrivals)
      /\ exit = NoExit /\ refusedBy = "nobody"
      /\ UNCHANGED <<inputs, plan, run, summary, builderVars>>
  BY DEF CommandInv, RunInv, VerdictInv, WriteArtifacts
<1>2. step' = "done"
  BY DEF WriteArtifacts, Refused, Exit
<1>3. RunInv'
  BY <1>1, <1>2, RunInvStays
<1>4. RunAcceptable' = RunAcceptable /\ ExitOfRun' = ExitOfRun
  BY <1>1 DEF RunAcceptable, ExitOfRun
<1>5. \/ RunAcceptable /\ exit' = ExitOfRun /\ refusedBy' = "nobody"
      \/ ~RunAcceptable /\ refusedBy' = "writer" /\ exit' = 1
      \/ refusedBy' = "file system" /\ exit' = 1
  BY <1>1 DEF WriteArtifacts, Refused, Exit, RunAcceptable
<1>6. VerdictInv'
  BY <1>1, <1>2, <1>4, <1>5 DEF VerdictInv
<1>7. PlanInv'
  <2>1. BuilderInv'
    BY <1>1, BuilderStutters DEF PlanInv
  <2> QED
    BY <1>2, <2>1 DEF PlanInv
<1>8. ConfigInv'
  BY <1>1, <1>2 DEF CommandInv, ConfigInv, inputs
<1> QED
  BY <1>3, <1>6, <1>7, <1>8 DEF CommandInv

LEMMA NothingKeeps ==
  ASSUME CommandInv, UNCHANGED vars
  PROVE  CommandInv'
<1>1. /\ UNCHANGED <<inputs, step, config, points, plan, run, summary, refusedBy, exit, builderVars>>
      /\ UNCHANGED <<invocation, file, flags, environment>>
  BY DEF vars, inputs
<1>2. ConfigInv'
  <2>1. Resolved' = Resolved /\ PlanOrRunAccepted' = PlanOrRunAccepted /\ IsRun' = IsRun
    BY <1>1 DEF Resolved, Command, PlanOrRunAccepted, IsRun
  <2> QED
    BY <1>1, <2>1 DEF CommandInv, ConfigInv
<1>3. PlanInv'
  <2>1. BuilderInv'
    BY <1>1, BuilderStutters DEF CommandInv, PlanInv
  <2> QED
    BY <1>1, <2>1, PlanInvStays DEF CommandInv, builderVars
<1>4. RunInv'
  <2>1. (PlanOK => PlanOK') /\ (RunOK => RunOK')
    BY <1>1, PlanStays, RunStays
  <2> QED
    BY <1>1, <2>1 DEF CommandInv, RunInv
<1>5. VerdictInv'
  BY <1>1 DEF CommandInv, VerdictInv, RunAcceptable, ExitOfRun
<1> QED
  BY <1>2, <1>3, <1>4, <1>5 DEF CommandInv

(* Whatever the inputs, the tokenizer, the lifecycle and the file system   *)
(* do, a command keeps its invariant.                                      *)
THEOREM CommandInvariant == Spec => []CommandInv
<1>1. ASSUME CommandInv, [Next]_vars PROVE CommandInv'
  <2>1. CASE Next
    BY <1>1, <2>1, AnswerUsageKeeps, ResolveConfigKeeps, ValidateKeeps, ResolveKeyKeeps,
       ExperimentReturnsKeeps, PreparePromptKeeps, PrepareTokensKeeps, BuildKeeps,
       BuildReturnsKeeps, RunIDFailsKeeps, CancelledInSetupKeeps, CancelledInWarmupKeeps,
       MeasurementReturnsKeeps, AggregateKeeps, WriteArtifactsKeeps, NothingKeeps
       DEF Next, CommandStep, Terminated
  <2>2. CASE UNCHANGED vars
    BY <1>1, <2>2, NothingKeeps
  <2> QED
    BY <1>1, <2>1, <2>2
<1> QED
  BY CommandStarts, <1>1, PTL DEF Spec

(* The prompt that a command sends is exact, whatever the tokenizer says   *)
(* (builder.go:85, vllm.go:132).                                           *)
THEOREM PreparedForTheRun == Spec => []PreparedIsExact
  <1>1. CommandInv => PreparedIsExact
    BY InvMeansExact DEF CommandInv, PlanInv
  <1> QED
    BY CommandInvariant, <1>1, PTL

(***************************************************************************)
(* Whose evidence is refused                                               *)
(***************************************************************************)

LEMMA RefusalIs == CommandInv => EvidenceNeverRefused
<1> SUFFICES ASSUME CommandInv, refusedBy = "writer"
             PROVE  run.metadata.drain.parentCancelled /\ run.metadata.status # "cancelled"
  BY DEF CommandInv, VerdictInv, EvidenceNeverRefused
<1>1. run # Absent /\ ~Acceptable(run.metadata, run.requests, run.arrivals)
  BY DEF CommandInv, VerdictInv, RunAcceptable
<1>2. PlanOK /\ RunOK /\ WorkloadAcceptable(plan.workload, plan.limits)
  BY <1>1 DEF CommandInv, RunInv
<1>3. PICK result, s, t, w, m : RunIs(result, s, t, w, m)
  BY <1>2, RunFacts
<1>4. ~(run.metadata.drain.parentCancelled => run.metadata.status = "cancelled")
  BY <1>1, <1>2, <1>3, EvidenceAccepted
<1> QED
  BY <1>4

(* The aggregator refuses no run, and the writer only one whose parent was *)
(* cancelled when no phase returned an error for it (calculate.go:87-260,  *)
(* writer.go:301-463 and 569-687).                                         *)
THEOREM EvidenceNeverRefusedCorrect == Spec => []EvidenceNeverRefused
  BY CommandInvariant, RefusalIs, PTL

(***************************************************************************)
(* What an exit status means                                               *)
(***************************************************************************)

(* a run that completed, and was accepted                                  *)
LEMMA CompletedIs ==
  ASSUME PlanOK, NEW result, NEW s, NEW t, NEW w, NEW m, RunIs(result, s, t, w, m),
         run.metadata.status = "completed", RunAcceptable
  PROVE  /\ Complete(run.metadata)
         /\ ~run.metadata.drain.parentCancelled /\ ~run.metadata.drain.timedOut
         /\ m.attempted = m.requested /\ m.requested = plan.requested
         /\ m.successful = plan.requested /\ m.failed = 0
         /\ \A i \in DOMAIN run.requests : run.requests[i].outcome = "succeeded"
         /\ OpenLoopRun => /\ m.arrivals.clientLimited = 0 /\ m.arrivals.schedulerLimited = 0
                           /\ m.arrivals.unprocessed = 0
                           /\ m.arrivals.processed = m.arrivals.planned
                           /\ m.arrivals.started = m.arrivals.planned
<1>1. PICK r, q, a : r = run.metadata /\ q = run.requests /\ a = run.arrivals
  OBVIOUS
<1>2. /\ RecordOf(r, result, w, m) /\ EvidenceOf(q, a, result, s, t) /\ ResultOK(result)
      /\ MetadataOf(w, result.warmup, s) /\ MetadataOf(m, result.measurement, t)
  BY <1>1 DEF RunIs
<1>3. r.warmup = w /\ r.measurement = m /\ r.load = plan.load
  BY <1>2 DEF RecordOf
<1>4. StatusConsistent(r) /\ r.status = "completed"
  BY <1>1 DEF RunAcceptable, Acceptable, MetadataAcceptable
<1>5. /\ w.failed = 0 /\ m.failed = 0
      /\ ~r.drain.timedOut /\ ~r.drain.parentCancelled
  BY <1>3, <1>4 DEF StatusConsistent
<1>6. /\ m.requested = plan.requested /\ m.attempted = Len(t)
      /\ m.successful = Tally(t)["succeeded"] /\ m.failed = Failures(Tally(t))
      /\ w.failed = Failures(Tally(s))
  BY <1>2 DEF MetadataOf, ResultOK, PhaseOK
<1>7. PICK c, d : c = result.warmup.completed /\ d = result.measurement.completed
  OBVIOUS
<1>8. /\ CompletedOK(c, "warmup", plan.warmup) /\ CompletedOK(d, "measured", plan.requested)
      /\ ArtifactsOf(s, c) /\ ArtifactsOf(t, d)
  BY <1>2, <1>7 DEF ResultOK, PhaseOK, EvidenceOf
<1>9. /\ \A i \in DOMAIN s : s[i].outcome \in Outcomes
      /\ \A i \in DOMAIN t : t[i].outcome \in Outcomes
  BY <1>8 DEF ArtifactsOf, CompletedOK, OutcomeAgrees
<1>10. PICK S : s \in Seq(S)
  BY <1>8 DEF ArtifactsOf
<1>11. PICK T : t \in Seq(T)
  BY <1>8 DEF ArtifactsOf
<1>12. \A i \in DOMAIN s : s[i].outcome = "succeeded"
  BY <1>5, <1>6, <1>9, <1>10, TallyAdds
<1>13. /\ \A i \in DOMAIN t : t[i].outcome = "succeeded"
       /\ Tally(t)["succeeded"] + Failures(Tally(t)) = Len(t)
       /\ Tally(t)["succeeded"] \in Nat
  BY <1>5, <1>6, <1>9, <1>11, TallyAdds DEF Outcomes
<1>14. \A i \in DOMAIN q : q[i].outcome = "succeeded"
  BY <1>2, <1>12, <1>13, EitherPhase
<1>15. m.successful = Len(t)
  BY <1>5, <1>6, <1>13
<1>16. CASE OpenLoopRun
  <2>1. PICK k : k = m.arrivals
    OBVIOUS
  <2>2. r.load.mode = "open_loop"
    BY <1>3, <1>16 DEF OpenLoopRun
  <2>3. k.clientLimited = 0 /\ k.schedulerLimited = 0 /\ k.unprocessed = 0
    BY <1>3, <1>4, <2>1, <2>2 DEF StatusConsistent
  <2>4. OpenLoopPhaseAgrees(m, plan.load, t, result.measurement.arrivals)
    BY <1>2, <1>16 DEF MetadataOf
  <2>5. /\ k.planned = m.requested
        /\ CountsAddUp(k, result.measurement.arrivals, Len(t), plan.load.maxInFlight)
    BY <2>1, <2>4 DEF OpenLoopPhaseAgrees
  <2>6. /\ k.processed = k.started + k.clientLimited + k.schedulerLimited
        /\ k.planned = k.processed + k.unprocessed
        /\ k.started = Len(t)
    BY <2>5 DEF CountsAddUp
  <2>7. Len(t) \in Nat
    BY <1>11
  <2>8. k.processed = Len(t) /\ k.planned = Len(t) /\ k.started = Len(t)
    BY <2>3, <2>6, <2>7
  <2>9. m.attempted = m.requested
    BY <1>6, <2>5, <2>8
  <2>10. Complete(r)
    BY <1>3, <1>5, <2>1, <2>2, <2>3, <2>8 DEF Complete
  <2> QED
    BY <1>1, <1>5, <1>6, <1>14, <1>15, <2>1, <2>3, <2>8, <2>9, <2>10
<1>17. CASE ~OpenLoopRun
  <2>1. r.load.mode = "closed_loop"
    BY <1>3, <1>17 DEF OpenLoopRun, PlanOK
  <2>2. m.attempted = m.requested
    BY <1>3, <1>4, <2>1 DEF StatusConsistent
  <2>3. Complete(r)
    BY <1>3, <1>5, <2>1, <2>2 DEF Complete
  <2> QED
    BY <1>1, <1>5, <1>6, <1>14, <1>15, <1>17, <2>2, <2>3
<1> QED
  BY <1>16, <1>17

(* What the summary says of the phase that was measured.                   *)
LEMMA SummaryCounts ==
  ASSUME PlanOK, NEW result, NEW s, NEW t, NEW w, NEW m, RunIs(result, s, t, w, m),
         summary = Summary(run.metadata, run.requests, run.arrivals)
  PROVE  /\ summary.complete = Complete(run.metadata)
         /\ summary.requested = m.requested
         /\ summary.started = m.attempted
         /\ summary.successful = m.successful
         /\ summary.failed = m.failed
         /\ summary.load = LoadSummary(run.metadata)
         /\ summary.lag = SchedulerLag(plan.load.mode, run.arrivals)
<1>1. PICK r, q, a : r = run.metadata /\ q = run.requests /\ a = run.arrivals
  OBVIOUS
<1>2. /\ r.measurement = m /\ r.load = plan.load
      /\ Measured(q) = t
      /\ m.attempted = Len(t) /\ m.successful = Tally(t)["succeeded"]
      /\ m.failed = Failures(Tally(t))
  BY <1>1 DEF RunIs, RecordOf, EvidenceOf, MetadataOf
<1>3. /\ summary.complete = Complete(r)
      /\ summary.requested = r.measurement.requested
      /\ summary.started = Len(Measured(q))
      /\ summary.successful = Tally(Measured(q))["succeeded"]
      /\ summary.failed = Failures(Tally(Measured(q)))
      /\ summary.load = LoadSummary(r)
      /\ summary.lag = SchedulerLag(r.load.mode, a)
  BY <1>1 DEF Summary
<1> QED
  BY <1>1, <1>2, <1>3

LEMMA ExitIs == CommandInv => ExitStatusHonest
<1> SUFFICES ASSUME CommandInv PROVE ExitStatusHonest
  OBVIOUS
<1>3. NoExit # 0 /\ NoExit # 2
  BY DEF NoExit
<1>4. VerdictInv
  BY DEF CommandInv
<1>1. ASSUME exit = 2 PROVE run = Absent
  <2>1. SUFFICES ASSUME run # Absent PROVE FALSE
    OBVIOUS
  <2>2. step = "done"
    BY <1>1, <1>3, <1>4 DEF VerdictInv
  <2>3. CASE refusedBy # "nobody"
    <3>1. 1 = 2
      BY <1>1, <1>4, <2>3 DEF VerdictInv
    <3> QED
      BY <3>1
  <2>4. CASE refusedBy = "nobody"
    BY <1>1, <2>1, <2>2, <2>4 DEF CommandInv, VerdictInv, ExitOfRun
  <2> QED
    BY <2>3, <2>4
<1>2. ASSUME exit = 0, Executed
      PROVE  /\ Published
             /\ summary.complete
             /\ summary.successful = plan.requested
             /\ \A i \in DOMAIN run.requests : run.requests[i].outcome = "succeeded"
             /\ ~run.metadata.drain.parentCancelled /\ ~run.metadata.drain.timedOut
  <2>1. run # Absent /\ step = "done" /\ refusedBy = "nobody"
    <3>1. run # Absent /\ step = "done"
      BY <1>2, <1>3, <1>4 DEF VerdictInv, Executed
    <3>2. ASSUME refusedBy # "nobody" PROVE FALSE
      <4>1. 1 = 0
        BY <1>2, <1>4, <3>2 DEF VerdictInv
      <4> QED
        BY <4>1
    <3> QED
      BY <3>1, <3>2
  <2>2. /\ summary # Absent /\ RunAcceptable /\ ExitOfRun = 0
        /\ summary = Summary(run.metadata, run.requests, run.arrivals)
    BY <1>2, <2>1 DEF CommandInv, VerdictInv
  <2>3. run.metadata.status = "completed"
    BY <2>2 DEF ExitOfRun
  <2>4. PlanOK /\ RunOK
    BY <2>1 DEF CommandInv, RunInv
  <2>5. PICK result, s, t, w, m : RunIs(result, s, t, w, m)
    BY <2>4, RunFacts
  <2>6. /\ Complete(run.metadata)
        /\ ~run.metadata.drain.parentCancelled /\ ~run.metadata.drain.timedOut
        /\ m.successful = plan.requested
        /\ \A i \in DOMAIN run.requests : run.requests[i].outcome = "succeeded"
    BY <2>2, <2>3, <2>4, <2>5, CompletedIs
  <2>7. summary.complete = Complete(run.metadata) /\ summary.successful = m.successful
    BY <2>2, <2>4, <2>5, SummaryCounts
  <2> QED
    BY <1>2, <2>1, <2>6, <2>7 DEF Published
<1> QED
  BY <1>1, <1>2 DEF ExitStatusHonest

(* Exit status 0 of a run is earned in every respect, and 2 means that     *)
(* nothing was run (README.md:940-952).                                    *)
THEOREM ExitStatusHonestCorrect == Spec => []ExitStatusHonest
  BY CommandInvariant, ExitIs, PTL

(***************************************************************************)
(* What a calibration counts as delivered cleanly                          *)
(***************************************************************************)

LEMMA ReasonsAre ==
  ASSUME NEW v, NEW r, NEW budget, NEW loaded, loaded = LoadRefuted(v, r, budget)
  PROVE  DeliveryReasons(v, r, budget) = {} <=>
           /\ r.status = "completed" /\ v.complete /\ v.failed = 0
           /\ \A reason \in (DOMAIN loaded) \ {"run_not_completed", "request_failures_present"} :
                ~loaded[reason]
<1>1. PICK general : general = [run_not_completed        |-> r.status # "completed" \/ ~v.complete,
                                request_failures_present |-> v.failed # 0]
  OBVIOUS
<1>2. /\ DOMAIN general = {"run_not_completed", "request_failures_present"}
      /\ general["run_not_completed"] <=> r.status # "completed" \/ ~v.complete
      /\ general["request_failures_present"] <=> v.failed # 0
  BY <1>1
<1>3. PICK refuted : refuted = Overlay(general, loaded)
  OBVIOUS
<1>4. DeliveryReasons(v, r, budget) = {reason \in DOMAIN refuted : refuted[reason]}
  BY <1>1, <1>3 DEF DeliveryReasons
<1>5. /\ DOMAIN refuted = (DOMAIN general) \cup DOMAIN loaded
      /\ \A x \in DOMAIN general : refuted[x] = general[x]
      /\ \A x \in (DOMAIN loaded) \ DOMAIN general : refuted[x] = loaded[x]
  BY <1>3 DEF Overlay
<1>6. DeliveryReasons(v, r, budget) = {} <=>
        /\ \A x \in DOMAIN general : ~general[x]
        /\ \A x \in (DOMAIN loaded) \ DOMAIN general : ~loaded[x]
  BY <1>4, <1>5
<1> QED
  BY <1>2, <1>6

(* the lags of the arrivals that were started                              *)
Started(a) == Selected(LAMBDA x : x.disposition = "started", Measured(a))

InTime(s, budget) == {i \in DOMAIN s : s[i].lag <= budget}

LEMMA LagsWithin ==
  ASSUME NEW T, NEW s \in Seq(T), \A i \in DOMAIN s : s[i].lag \in Nat, s # <<>>,
         NEW budget \in Nat,
         NEW lag, lag = Distribution(Fractions([i \in DOMAIN s |-> s[i].lag]), 0)
  PROVE  /\ lag.count = Len(s)
         /\ LagExceeds(lag, budget) <=> ~(100 * Cardinality(InTime(s, budget)) >= 95 * Len(s))
<1>1. PICK n : n = Len(s)
  OBVIOUS
<1>2. n \in Nat /\ n # 0 /\ DOMAIN s = 1 .. n
  BY <1>1
<1>3. PICK f : f = Fractions([i \in DOMAIN s |-> s[i].lag])
  OBVIOUS
<1>4. f = [i \in 1 .. n |-> <<s[i].lag, 1>>]
  BY <1>2, <1>3 DEF Fractions
<1>5. f \in [1 .. n -> Fraction]
  <2>1. \A i \in 1 .. n : <<s[i].lag, 1>> \in Fraction
    BY <1>2 DEF Fraction
  <2> QED
    BY <1>4, <2>1
<1>6. f \in Seq(Fraction) /\ Len(f) = n /\ DOMAIN f = 1 .. n
  BY <1>2, <1>5, SequenceOn
<1>7. f # <<>> /\ lag = Distribution(f, 0)
  BY <1>2, <1>3, <1>6
<1>8. PICK w, p : w = <<budget, 1>> /\ p = lag.percentile[95]
  OBVIOUS
<1>9. w \in Fraction /\ 95 \in Percentiles
  BY <1>8 DEF Fraction, Percentiles
<1>10. lag.count = n /\ p \in Fraction /\ AtMostWhen(w, p, 95, f)
  BY <1>6, <1>7, <1>8, <1>9, DistributionIs
<1>11. UpTo(w, f) = InTime(s, budget)
  <2>1. ASSUME NEW i \in 1 .. n PROVE ~Below(w, f[i]) <=> s[i].lag <= budget
    <3>1. s[i].lag \in Nat /\ f[i] = <<s[i].lag, 1>>
      BY <1>2, <1>4
    <3> QED
      BY <1>8, <3>1 DEF Below
  <2> QED
    BY <1>2, <1>6, <2>1 DEF UpTo, InTime
<1>12. LagExceeds(lag, budget) <=> Below(w, p)
  <2>1. p[1] \in Int /\ p[2] \in Int
    BY <1>10 DEF Fraction
  <2>2. Below(w, p) <=> budget * p[2] < p[1] * 1
    BY <1>8 DEF Below
  <2> QED
    BY <1>8, <2>1, <2>2 DEF LagExceeds
<1>13. ~Below(w, p) <=> 100 * Cardinality(InTime(s, budget)) >= 95 * n
  BY <1>6, <1>10, <1>11 DEF AtMostWhen
<1> QED
  BY <1>1, <1>10, <1>12, <1>13

(* the arrivals that a completed open-loop run started                     *)
LEMMA StartedAre ==
  ASSUME PlanOK, NEW result, NEW s, NEW t, NEW w, NEW m, RunIs(result, s, t, w, m),
         NEW e, e = Started(run.arrivals)
  PROVE  /\ ~OpenLoopRun => e = <<>>
         /\ \E T : e \in Seq(T)
         /\ \A i \in DOMAIN e : e[i].lag \in Nat
         /\ OpenLoopRun => Len(e) = m.arrivals.started
<1>1. PICK a : a = Measured(run.arrivals)
  OBVIOUS
<1>2. a = result.measurement.arrivals
  BY <1>1 DEF RunIs, EvidenceOf
<1>3. PICK I : I = {i \in DOMAIN a : a[i].disposition = "started"}
  OBVIOUS
<1>4. e = Those(a, I) /\ I \subseteq DOMAIN a
  BY <1>1, <1>3 DEF Started, Selected, Passing
<1>5. CASE OpenLoopRun
  <2>1. OpenPhaseOK(result.measurement)
    BY <1>5 DEF RunIs, ResultOK, PhaseOK
  <2>2. /\ \E T : a \in Seq(T)
        /\ \A i \in DOMAIN a : a[i].disposition = "started" => a[i].lag \in Nat
        /\ ArrivalsMatch(result.measurement.counts, a, result.measurement.completed)
    BY <1>2, <2>1 DEF OpenPhaseOK, ArrivalsOK
  <2>3. PICK T : a \in Seq(T)
    BY <2>2
  <2>4. /\ e \in Seq(T) /\ Len(e) = Cardinality(I) /\ Cardinality(I) \in Nat
        /\ \A k \in 1 .. Cardinality(I) : At(I, k) \in I /\ e[k] = a[At(I, k)]
    BY <1>4, <2>3, ThoseAre
  <2>5. DOMAIN e = 1 .. Cardinality(I)
    BY <2>4
  <2>6. \A i \in DOMAIN e : e[i].lag \in Nat
    BY <1>3, <2>2, <2>4, <2>5
  <2>7. Number(LAMBDA x : x.disposition = "started", a) = Cardinality(I)
    BY <1>3 DEF Number, Passing
  <2>8. Number(LAMBDA x : x.disposition = "started", a) = result.measurement.counts.started
    BY <2>2 DEF ArrivalsMatch
  <2>9. m.arrivals = result.measurement.counts
    BY <1>5 DEF RunIs, MetadataOf
  <2> QED
    BY <1>5, <2>4, <2>6, <2>7, <2>8, <2>9
<1>6. CASE ~OpenLoopRun
  <2>1. a = <<>>
    BY <1>2, <1>6 DEF RunIs, ResultOK, PhaseOK, ClosedPhaseOK
  <2>2. PICK T : T = {}
    OBVIOUS
  <2>3. a \in Seq(T) /\ DOMAIN a = {}
    BY <2>1, <2>2
  <2>4. I = {}
    BY <1>3, <2>3
  <2>5. Cardinality(I) = 0
    BY <2>4, FS_EmptySet
  <2>6. PICK f : f = [k \in 1 .. Cardinality(I) |-> a[At(I, k)]]
    OBVIOUS
  <2>7. f = <<>>
    BY <2>5, <2>6
  <2>8. e = <<>>
    BY <1>4, <2>6, <2>7 DEF Those
  <2>9. DOMAIN e = {} /\ e \in Seq(T)
    BY <2>2, <2>8
  <2> QED
    BY <1>6, <2>8, <2>9
<1> QED
  BY <1>5, <1>6

(* the budgets that a calibration may have                                 *)
Budgets == {NoBudget} \cup Nat

LEMMA CleanOpenLoop ==
  ASSUME PlanOK, NEW result, NEW s, NEW t, NEW w, NEW m, RunIs(result, s, t, w, m),
         run.metadata.status = "completed", RunAcceptable, OpenLoopRun,
         summary = Summary(run.metadata, run.requests, run.arrivals), NEW budget \in Budgets
  PROVE  CleanWithin(budget)
<1>1. PICK e, k, r : e = Started(run.arrivals) /\ k = m.arrivals /\ r = run.metadata
  OBVIOUS
<1>2. /\ Complete(r) /\ m.failed = 0 /\ m.requested = plan.requested
      /\ k.clientLimited = 0 /\ k.schedulerLimited = 0 /\ k.unprocessed = 0
      /\ k.processed = k.planned /\ k.started = k.planned
  BY <1>1, CompletedIs
<1>3. /\ summary.complete = Complete(r) /\ summary.failed = m.failed
      /\ summary.load = LoadSummary(r)
      /\ summary.lag = SchedulerLag(plan.load.mode, run.arrivals)
  BY <1>1, SummaryCounts
<1>4. r.load.mode = "open_loop" /\ plan.load.mode = "open_loop" /\ r.measurement = m
  BY <1>1 DEF RunIs, RecordOf, OpenLoopRun
<1>5. summary.load.counts = k
  BY <1>1, <1>3, <1>4 DEF LoadSummary
<1>6. PICK lag : lag = summary.lag
  OBVIOUS
<1>7. lag = Distribution(Fractions([i \in DOMAIN e |-> e[i].lag]), 0)
  BY <1>1, <1>3, <1>4, <1>6 DEF SchedulerLag, Started
<1>8. (\A i \in DOMAIN e : e[i].lag \in Nat) /\ Len(e) = k.started
  BY <1>1, StartedAre
<1>9. PICK T : e \in Seq(T)
  BY <1>1, StartedAre
<1>10. k.planned = plan.requested /\ plan.requested \in Nat \ {0}
  <2>1. OpenLoopPhaseAgrees(m, plan.load, t, result.measurement.arrivals)
    BY DEF RunIs, MetadataOf
  <2> QED
    BY <1>1, <1>2, <2>1 DEF OpenLoopPhaseAgrees, PlanOK
<1>11. Len(e) \in Nat /\ Len(e) # 0 /\ e # <<>>
  BY <1>2, <1>8, <1>9, <1>10
<1>12. budget \in Nat =>
         /\ lag.count = Len(e)
         /\ LagExceeds(lag, budget) <=> ~(100 * Cardinality(InTime(e, budget)) >= 95 * Len(e))
  BY <1>7, <1>8, <1>9, <1>11, LagsWithin
<1>13. PICK loaded : loaded = LoadRefuted(summary, r, budget)
  OBVIOUS
<1>14. loaded = [planned_arrivals_not_processed |-> k.processed # k.planned,
                 delivery_ratio_below_one       |-> k.started # k.planned,
                 client_limited                 |-> k.clientLimited # 0,
                 scheduler_limited              |-> k.schedulerLimited # 0,
                 cancellation_unprocessed       |-> k.unprocessed # 0,
                 lag_unavailable                |-> budget # NoBudget /\ lag.count = 0,
                 lag_exceeded                   |-> /\ budget # NoBudget
                                                    /\ lag.count > 0
                                                    /\ LagExceeds(lag, budget)]
  BY <1>4, <1>5, <1>6, <1>13 DEF LoadRefuted
<1>15. (\A reason \in (DOMAIN loaded) \ {"run_not_completed", "request_failures_present"} :
          ~loaded[reason])
       <=> /\ ~(budget # NoBudget /\ lag.count = 0)
           /\ ~(budget # NoBudget /\ lag.count > 0 /\ LagExceeds(lag, budget))
  <2>1. /\ loaded["planned_arrivals_not_processed"] = (k.processed # k.planned)
        /\ loaded["delivery_ratio_below_one"] = (k.started # k.planned)
        /\ loaded["client_limited"] = (k.clientLimited # 0)
        /\ loaded["scheduler_limited"] = (k.schedulerLimited # 0)
        /\ loaded["cancellation_unprocessed"] = (k.unprocessed # 0)
        /\ loaded["lag_unavailable"] = (budget # NoBudget /\ lag.count = 0)
        /\ loaded["lag_exceeded"] =
             (budget # NoBudget /\ lag.count > 0 /\ LagExceeds(lag, budget))
    BY <1>14
  <2>2. (DOMAIN loaded) \ {"run_not_completed", "request_failures_present"} =
          {"planned_arrivals_not_processed", "delivery_ratio_below_one", "client_limited",
           "scheduler_limited", "cancellation_unprocessed", "lag_unavailable", "lag_exceeded"}
    BY <1>14
  <2> QED
    BY <1>2, <2>1, <2>2
<1>16. budget # NoBudget => budget \in Nat
  BY DEF Budgets
<1>17. DeliveryReasons(summary, r, budget) = {} <=>
         (budget # NoBudget => 100 * Cardinality(InTime(e, budget)) >= 95 * Len(e))
  <2>1. DeliveryReasons(summary, r, budget) = {} <=>
          /\ ~(budget # NoBudget /\ lag.count = 0)
          /\ ~(budget # NoBudget /\ lag.count > 0 /\ LagExceeds(lag, budget))
    <3>1. r.status = "completed" /\ summary.complete /\ summary.failed = 0
      BY <1>1, <1>2, <1>3
    <3> QED
      BY <1>13, <1>15, <3>1, ReasonsAre
  <2>2. CASE budget = NoBudget
    BY <2>1, <2>2
  <2>3. CASE budget # NoBudget
    <3>1. lag.count > 0 /\ lag.count # 0
      BY <1>11, <1>12, <1>16, <2>3
    <3> QED
      BY <1>12, <1>16, <2>1, <2>3, <3>1
  <2> QED
    BY <2>2, <2>3
<1>18. Number(LAMBDA x : x.lag <= budget, e) = Cardinality(InTime(e, budget))
  BY DEF Number, Passing, InTime
<1> QED
  BY <1>1, <1>17, <1>18 DEF CleanWithin, Started

LEMMA CleanClosedLoop ==
  ASSUME PlanOK, NEW result, NEW s, NEW t, NEW w, NEW m, RunIs(result, s, t, w, m),
         run.metadata.status = "completed", RunAcceptable, ~OpenLoopRun,
         summary = Summary(run.metadata, run.requests, run.arrivals), NEW budget \in Budgets
  PROVE  CleanWithin(budget)
<1>1. PICK e, r : e = Started(run.arrivals) /\ r = run.metadata
  OBVIOUS
<1>2. /\ Complete(r) /\ m.failed = 0 /\ m.requested = plan.requested
      /\ m.successful = plan.requested /\ m.attempted = m.requested
  BY <1>1, CompletedIs
<1>3. /\ summary.complete = Complete(r) /\ summary.failed = m.failed
      /\ summary.requested = m.requested /\ summary.started = m.attempted
      /\ summary.successful = m.successful
  BY <1>1, SummaryCounts
<1>4. r.load.mode = "closed_loop" /\ r.measurement = m
  BY <1>1 DEF RunIs, RecordOf, OpenLoopRun, PlanOK
<1>5. e = <<>>
  BY <1>1, StartedAre
<1>6. PICK loaded : loaded = LoadRefuted(summary, r, budget)
  OBVIOUS
<1>7. loaded = [requests_not_fully_attempted |->
                  {m.attempted, summary.started, summary.successful} # {summary.requested}]
  BY <1>4, <1>6 DEF LoadRefuted
<1>8. {m.attempted, summary.started, summary.successful} = {summary.requested}
  BY <1>2, <1>3
<1>9. \A reason \in (DOMAIN loaded) \ {"run_not_completed", "request_failures_present"} :
        ~loaded[reason]
  <2>1. /\ DOMAIN loaded = {"requests_not_fully_attempted"}
        /\ loaded["requests_not_fully_attempted"] =
             ({m.attempted, summary.started, summary.successful} # {summary.requested})
    BY <1>7
  <2> QED
    BY <1>8, <2>1
<1>10. DeliveryReasons(summary, r, budget) = {}
  <2>1. r.status = "completed" /\ summary.complete /\ summary.failed = 0
    BY <1>1, <1>2, <1>3
  <2> QED
    BY <1>6, <1>9, <2>1, ReasonsAre
<1>11. Number(LAMBDA x : x.lag <= budget, e) = 0 /\ Len(e) = 0
  <2>1. {i \in DOMAIN e : e[i].lag <= budget} = {} /\ Len(e) = 0
    BY <1>5
  <2> QED
    BY <2>1, FS_EmptySet DEF Number, Passing
<1> QED
  BY <1>1, <1>10, <1>11 DEF CleanWithin, Started

LEMMA DeliveryIs ==
  ASSUME CommandInv, Published, NEW budget \in Budgets
  PROVE  CleanWithin(budget)
<1>1. run # Absent /\ step = "done" /\ refusedBy = "nobody"
  BY DEF Published, Executed
<1>2. RunAcceptable /\ summary = Summary(run.metadata, run.requests, run.arrivals)
  BY <1>1 DEF CommandInv, VerdictInv
<1>3. PlanOK /\ RunOK
  BY <1>1 DEF CommandInv, RunInv
<1>4. PICK result, s, t, w, m : RunIs(result, s, t, w, m)
  BY <1>3, RunFacts
<1>5. CASE run.metadata.status = "completed"
  BY <1>2, <1>3, <1>4, <1>5, CleanOpenLoop, CleanClosedLoop
<1>6. CASE run.metadata.status # "completed"
  <2>1. PICK r, v : r = run.metadata /\ v = summary
    OBVIOUS
  <2>2. PICK loaded : loaded = LoadRefuted(v, r, budget)
    OBVIOUS
  <2>3. DeliveryReasons(v, r, budget) # {}
    BY <1>6, <2>1, <2>2, ReasonsAre
  <2> QED
    BY <1>6, <2>1, <2>3 DEF CleanWithin
<1> QED
  BY <1>5, <1>6

LEMMA DeliveryMeans == CommandInv => DeliveryAgrees
<1>1. \A budget \in {NoBudget} \cup 1 .. 2 : budget \in Budgets
  BY DEF Budgets
<1> QED
  BY <1>1, DeliveryIs DEF DeliveryAgrees

(* A run that was written counts as delivered cleanly exactly when it      *)
(* completed and its arrivals started in time (evaluate.go:18-64) ...      *)
THEOREM DeliveryAgreesCorrect == Spec => []DeliveryAgrees
  BY CommandInvariant, DeliveryMeans, PTL

(* ... whatever the lag that the calibration allows.                       *)
THEOREM DeliveryAgreesOnEveryBudget ==
  Spec => [](Published => \A budget \in Budgets : CleanWithin(budget))
<1>1. CommandInv => (Published => \A budget \in Budgets : CleanWithin(budget))
  BY DeliveryIs
<1> QED
  BY CommandInvariant, <1>1, PTL

(***************************************************************************)
(* What a summary says of the successful requests                          *)
(***************************************************************************)

(* The metrics of a request are fractions and gaps, or missing, and its    *)
(* usage the server's.                                                     *)
Gauged(q) ==
  /\ \A k \in Scalars : Scalar(q.metrics[k])
  /\ q.metrics.itl \in Seq(Int) /\ q.metrics.icl \in Seq(Int)
  /\ Metered(q)

LEMMA ObservationsGauged ==
  ASSUME NEW q, NEW o \in Observations, q.metrics = MetricsOf(o)
  PROVE  Gauged(q)
<1>1. PICK m : m = MetricsOf(o)
  OBVIOUS
<1>2. /\ \A k \in Scalars : Scalar(m[k])
      /\ m.itl \in Seq(Int) /\ m.icl \in Seq(Int)
      /\ m.usage = o.tokens
  BY <1>1, MetricsAre
<1>3. o.tokens = NoTokens \/ o.tokens \in TokenCounts
  BY ObservationAssumption DEF TokenCounts
<1>4. q.metrics = m
  BY <1>1
<1>5. Metered(q)
  BY <1>2, <1>3, <1>4 DEF Metered
<1> QED
  BY <1>2, <1>4, <1>5 DEF Gauged

(* the parts of the summary v of the successful requests s                 *)
Summarises(v, s) ==
  /\ v.successful = Len(s)
  /\ v.metrics = [k \in Scalars |-> ScalarDistribution(k, s)]
  /\ v.icl = IntervalSummary("icl", s)
  /\ v.itl = IntervalSummary("itl", s)
  /\ v.slo = SLOSummary(plan.slo, s)
  /\ \E elapsed \in Int : v.tokens = Tokens(s, elapsed) /\ (s # <<>> => elapsed > 0)

LEMMA MeasuredGauged ==
  ASSUME NEW result, NEW s, NEW t, NEW w, NEW m, RunIs(result, s, t, w, m),
         NEW i \in DOMAIN t
  PROVE  Gauged(t[i])
<1>1. PICK c : c = result.measurement.completed
  OBVIOUS
<1>2. ArtifactsOf(t, c)
  BY <1>1 DEF RunIs, EvidenceOf
<1>3. CompletedOK(c, "measured", plan.requested)
  BY <1>1 DEF RunIs, ResultOK, PhaseOK
<1>4. i \in DOMAIN c /\ t[i].metrics = MetricsOf(c[i].observation)
  BY <1>2 DEF ArtifactsOf
<1>5. c \in Seq(Completion)
  BY <1>3 DEF CompletedOK
<1>6. c[i] \in Completion
  BY <1>4, <1>5
<1>7. c[i].observation \in Observations
  BY <1>6 DEF Completion
<1> QED
  BY <1>4, <1>7, ObservationsGauged

LEMMA SummaryFacts ==
  ASSUME CommandInv, summary # Absent, NEW s, s = Successful(run.requests)
  PROVE  /\ PlanOK
         /\ Summarises(summary, s)
         /\ s \in Seq({s[i] : i \in DOMAIN s}) /\ \A i \in DOMAIN s : Gauged(s[i])
<1>1. PICK v, r, q, a : v = summary /\ r = run.metadata /\ q = run.requests /\ a = run.arrivals
  OBVIOUS
<1>2. run # Absent /\ v = Summary(r, q, a)
  BY <1>1 DEF CommandInv, VerdictInv
<1>3. PlanOK /\ RunOK
  BY <1>2 DEF CommandInv, RunInv
<1>4. PICK result, z, t, w, m : RunIs(result, z, t, w, m)
  BY <1>3, RunFacts
<1>5. Measured(q) = t /\ r.measurement = m /\ r.slo = plan.slo
  BY <1>1, <1>4 DEF RunIs, EvidenceOf, RecordOf
<1>6. PICK T : q \in Seq(T)
  BY <1>1, <1>4 DEF RunIs, EvidenceOf
<1>7. /\ s \in Seq(T)
      /\ Len(s) = Tally(t)["succeeded"]
      /\ \A i \in DOMAIN s : \E j \in DOMAIN t : s[i] = t[j]
  BY <1>1, <1>5, <1>6, SuccessfulAre
<1>8. \A i \in DOMAIN s : Gauged(s[i])
  BY <1>4, <1>7, MeasuredGauged
<1>9. PICK p : p = result.measurement
  OBVIOUS
<1>10. m.elapsed = p.elapsed /\ p.elapsed \in Int /\ (p.completed # <<>> => p.elapsed > 0)
  BY <1>4, <1>9 DEF RunIs, MetadataOf, ResultOK, PhaseOK
<1>11. s # <<>> => p.completed # <<>>
  <2>1. DOMAIN t = DOMAIN p.completed
    BY <1>4, <1>9 DEF RunIs, EvidenceOf, ArtifactsOf
  <2>2. s # <<>> => 1 \in DOMAIN s
    BY <1>7
  <2>3. s # <<>> => DOMAIN t # {}
    BY <1>7, <2>2
  <2>4. DOMAIN <<>> = {}
    OBVIOUS
  <2> QED
    BY <2>1, <2>3, <2>4
<1>12. /\ v.successful = Tally(Measured(q))["succeeded"]
       /\ v.metrics = [k \in Scalars |-> ScalarDistribution(k, s)]
       /\ v.icl = IntervalSummary("icl", s)
       /\ v.itl = IntervalSummary("itl", s)
       /\ v.tokens = Tokens(s, r.measurement.elapsed)
       /\ v.slo = SLOSummary(r.slo, s)
  <2>1. s = Successful(q)
    BY <1>1
  <2>2. PICK f : f = [k \in Scalars |-> ScalarDistribution(k, Successful(q))]
    OBVIOUS
  <2>3. /\ v.successful = Tally(Measured(q))["succeeded"]
        /\ v.metrics = f
        /\ v.icl = IntervalSummary("icl", Successful(q))
        /\ v.itl = IntervalSummary("itl", Successful(q))
        /\ v.tokens = Tokens(Successful(q), r.measurement.elapsed)
        /\ v.slo = SLOSummary(r.slo, Successful(q))
    BY <1>2, <2>2 DEF Summary
  <2> QED
    BY <2>1, <2>2, <2>3, Zenon
<1>13. Summarises(v, s)
  <2>1. v.tokens = Tokens(s, m.elapsed) /\ m.elapsed \in Int /\ (s # <<>> => m.elapsed > 0)
    BY <1>5, <1>10, <1>11, <1>12
  <2>2. v.successful = Len(s) /\ v.slo = SLOSummary(plan.slo, s)
    BY <1>5, <1>7, <1>12
  <2> QED
    BY <1>12, <2>1, <2>2 DEF Summarises
<1>14. s \in Seq({s[i] : i \in DOMAIN s})
  BY <1>7
<1> QED
  BY <1>1, <1>3, <1>8, <1>13, <1>14

(* a column of the successful requests' metrics                            *)
MetricColumn(s, k) == [i \in DOMAIN s |-> s[i].metrics[k]]

LEMMA SuccessfulColumns ==
  ASSUME NEW s, s = Successful(run.requests)
  PROVE  /\ DOMAIN SuccessfulMetrics = DOMAIN s
         /\ \A i \in DOMAIN s : SuccessfulMetrics[i] = s[i].metrics
         /\ \A k : [i \in DOMAIN SuccessfulMetrics |-> SuccessfulMetrics[i][k]] = MetricColumn(s, k)
<1>1. SuccessfulMetrics = [i \in DOMAIN s |-> s[i].metrics]
  BY DEF SuccessfulMetrics
<1>2. /\ DOMAIN SuccessfulMetrics = DOMAIN s
      /\ \A i \in DOMAIN s : SuccessfulMetrics[i] = s[i].metrics
  BY <1>1
<1> QED
  BY <1>2 DEF MetricColumn

(***************************************************************************)
(* Objectives                                                              *)
(***************************************************************************)

LEMMA ObjectivesMet ==
  ASSUME CommandInv, summary # Absent, NEW s, s = Successful(run.requests)
  PROVE  {i \in DOMAIN SuccessfulMetrics : MeetsEverySLO(SuccessfulMetrics[i])}
           = MeetingAll(s, plan.slo)
<1>1. \A k \in DOMAIN plan.slo : k \in Scalars /\ plan.slo[k] \in Int
  <2>1. PlanOK
    BY SummaryFacts
  <2> QED
    BY <2>1 DEF PlanOK, Scalars
<1>2. \A i \in DOMAIN s : Gauged(s[i])
  BY SummaryFacts
<1>3. ASSUME NEW i \in DOMAIN s, NEW k \in DOMAIN plan.slo, s[i].metrics[k] # Unavailable
      PROVE  AtMost(s[i].metrics[k], <<plan.slo[k], 1>>) <=> Passes(s[i].metrics[k], plan.slo[k])
  <2>1. PICK x, y : x = s[i].metrics[k] /\ y = plan.slo[k]
    OBVIOUS
  <2>2. x \in Fraction /\ y \in Int
    BY <1>1, <1>2, <1>3, <2>1 DEF Gauged, Scalar
  <2>3. x[1] \in Int /\ x[2] \in Int
    BY <2>2 DEF Fraction
  <2>4. x[1] * 1 <= y * x[2] <=> x[1] <= y * x[2]
    BY <2>2, <2>3
  <2> QED
    BY <2>1, <2>4 DEF AtMost, Passes
<1>4. /\ DOMAIN SuccessfulMetrics = DOMAIN s
      /\ \A i \in DOMAIN s : SuccessfulMetrics[i] = s[i].metrics
  BY SuccessfulColumns
<1>5. ASSUME NEW i \in DOMAIN s
      PROVE  MeetsEverySLO(SuccessfulMetrics[i]) <=>
               \A k \in DOMAIN plan.slo : s[i].metrics[k] # Unavailable
                                          /\ Passes(s[i].metrics[k], plan.slo[k])
  BY <1>3, <1>4 DEF MeetsEverySLO
<1> QED
  BY <1>4, <1>5 DEF MeetingAll

LEMMA ObjectivesHold == CommandInv => SLOPartition
<1> SUFFICES ASSUME CommandInv, summary # Absent, summary.slo.configured
             PROVE  LET slo == summary.slo
                    IN  /\ slo.good + slo.bad + slo.unevaluable = summary.successful
                        /\ slo.good = Number(MeetsEverySLO, SuccessfulMetrics)
                        /\ slo.unevaluable =
                             Number(LAMBDA m : \E k \in DOMAIN plan.slo : m[k] = Unavailable,
                                    SuccessfulMetrics)
                        /\ \A k \in DOMAIN plan.slo : slo.metrics[k].passing >= slo.good
  BY DEF SLOPartition
<1>1. PICK s, v : s = Successful(run.requests) /\ v = summary.slo
  OBVIOUS
<1>2. /\ s \in Seq({s[i] : i \in DOMAIN s})
      /\ Summarises(summary, s)
  BY <1>1, SummaryFacts
<1>3. v = SLOSummary(plan.slo, s) /\ summary.successful = Len(s)
  BY <1>1, <1>2 DEF Summarises
<1>4. plan.slo # <<>>
  <2>1. SUFFICES ASSUME plan.slo = <<>> PROVE FALSE
    OBVIOUS
  <2>2. v = [configured |-> FALSE]
    BY <1>3, <2>1 DEF SLOSummary
  <2> QED
    BY <1>1, <2>2
<1>5. Partitioned(s, plan.slo, v)
  BY <1>2, <1>3, <1>4, ObjectivesAre
<1>6. Number(MeetsEverySLO, SuccessfulMetrics) = Cardinality(MeetingAll(s, plan.slo))
  BY <1>1, ObjectivesMet DEF Number, Passing
<1>7. Number(LAMBDA m : \E k \in DOMAIN plan.slo : m[k] = Unavailable, SuccessfulMetrics)
        = Cardinality(LackingOne(s, plan.slo))
  <2>1. /\ DOMAIN SuccessfulMetrics = DOMAIN s
        /\ \A i \in DOMAIN s : SuccessfulMetrics[i] = s[i].metrics
    BY <1>1, SuccessfulColumns
  <2>2. {i \in DOMAIN SuccessfulMetrics :
           \E k \in DOMAIN plan.slo : SuccessfulMetrics[i][k] = Unavailable}
          = LackingOne(s, plan.slo)
    BY <2>1 DEF LackingOne
  <2> QED
    BY <2>2 DEF Number, Passing
<1> QED
  BY <1>1, <1>3, <1>5, <1>6, <1>7 DEF Partitioned

(* The good requests are those that meet every objective, and a request    *)
(* that lacks a metric of one is neither good nor bad (calculate.go).      *)
THEOREM SLOPartitionCorrect == Spec => []SLOPartition
  BY CommandInvariant, ObjectivesHold, PTL

(***************************************************************************)
(* Tokens                                                                  *)
(***************************************************************************)

LEMMA SumOfIs ==
  ASSUME NEW s, s = Successful(run.requests), NEW field
  PROVE  SumOf(field) = Total(Column(s, field))
<1>1. /\ DOMAIN SuccessfulMetrics = DOMAIN s
      /\ \A i \in DOMAIN s : SuccessfulMetrics[i] = s[i].metrics
  BY SuccessfulColumns
<1>2. [i \in DOMAIN SuccessfulMetrics |-> SuccessfulMetrics[i].usage[field]] = Column(s, field)
  BY <1>1 DEF Column
<1> QED
  BY <1>2 DEF SumOf

LEMMA TotalsHold == CommandInv => TotalsAreExact
<1> SUFFICES ASSUME CommandInv, summary # Absent PROVE TotalsAreExact
  BY DEF TotalsAreExact
<1>1. PICK s, v : s = Successful(run.requests) /\ v = summary.tokens
  OBVIOUS
<1>2. /\ s \in Seq({s[i] : i \in DOMAIN s})
      /\ \A i \in DOMAIN s : Gauged(s[i])
      /\ Summarises(summary, s)
  BY <1>1, SummaryFacts
<1>3. PICK elapsed \in Int : v = Tokens(s, elapsed) /\ (s # <<>> => elapsed > 0)
  BY <1>1, <1>2 DEF Summarises
<1>4. TotalsOf(s, v)
  <2>1. PICK Q : Q = {s[i] : i \in DOMAIN s}
    OBVIOUS
  <2>2. s \in Seq(Q) /\ \A q \in Q : Metered(q)
    BY <1>2, <2>1 DEF Gauged
  <2> QED
    BY <1>3, <2>2, TokensAre
<1>5. /\ DOMAIN SuccessfulMetrics = DOMAIN s
      /\ \A i \in DOMAIN s : SuccessfulMetrics[i] = s[i].metrics
  BY <1>1, SuccessfulColumns
<1>6. \A field : SumOf(field) = Total(Column(s, field))
  BY <1>1, SumOfIs
<1>7. ASSUME v.available
      PROVE  /\ \A i \in DOMAIN SuccessfulMetrics : SuccessfulMetrics[i].usage # NoTokens
             /\ \A field \in {"input", "output", "total"} :
                  /\ v[field] = SumOf(field)
                  /\ SumOf(field) <= MaxInt
             /\ v.input + v.output = v.total
  <2>1. /\ AllCounted(s)
        /\ \A field \in {"input", "output", "total"} :
             v[field] = Total(Column(s, field)) /\ Total(Column(s, field)) <= MaxInt
        /\ v.input + v.output = v.total
    BY <1>4, <1>7 DEF TotalsOf
  <2>2. \A i \in DOMAIN SuccessfulMetrics : SuccessfulMetrics[i].usage # NoTokens
    BY <1>5, <2>1 DEF AllCounted
  <2> QED
    BY <1>6, <2>1, <2>2
<1>8. ASSUME ~v.available, SuccessfulMetrics # <<>>
      PROVE  \/ \E i \in DOMAIN SuccessfulMetrics :
                  LET usage == SuccessfulMetrics[i].usage
                  IN  usage = NoTokens \/ usage.input + usage.output # usage.total
             \/ SumOf("total") > MaxInt
  <2>1. s # <<>>
    <3>1. SUFFICES ASSUME s = <<>> PROVE FALSE
      OBVIOUS
    <3>2. SuccessfulMetrics = [i \in {} |-> s[i].metrics]
      BY <1>1, <3>1 DEF SuccessfulMetrics
    <3>3. SuccessfulMetrics = <<>>
      BY <3>2
    <3> QED
      BY <1>8, <3>3
  <2>2. ~AllCounted(s) \/ ~AllConsistent(s) \/ Total(Column(s, "total")) > MaxInt
    BY <1>4, <1>8, <2>1 DEF TotalsOf
  <2>3. CASE Total(Column(s, "total")) > MaxInt
    BY <1>6, <2>3
  <2>4. CASE ~AllCounted(s)
    BY <1>5, <2>4 DEF AllCounted
  <2>5. CASE ~AllConsistent(s)
    <3>1. PICK i \in DOMAIN s : s[i].metrics.usage.input + s[i].metrics.usage.output
                                  # s[i].metrics.usage.total
      BY <2>5 DEF AllConsistent
    <3> QED
      BY <1>5, <3>1
  <2> QED
    BY <2>2, <2>3, <2>4, <2>5
<1> QED
  BY <1>1, <1>7, <1>8 DEF TotalsAreExact

(* Token totals are published only when they are exact sums over every     *)
(* successful request, and they are when they can be (calculate.go).       *)
THEOREM TotalsAreExactCorrect == Spec => []TotalsAreExact
  BY CommandInvariant, TotalsHold, PTL

(***************************************************************************)
(* Percentiles                                                             *)
(***************************************************************************)

(* A distribution describes its samples.                                   *)
LEMMA DistributionDescribes ==
  ASSUME NEW z \in Seq(Fraction), NEW unavailable, NEW d, d = Distribution(z, unavailable)
  PROVE  Describes(d, z)
<1>1. /\ d.count = Len(z)
      /\ z # <<>> =>
           \A p \in Percentiles : d.percentile[p] \in Fraction /\ Nearest(d.percentile[p], p, z)
  BY DistributionIs
<1>2. ASSUME NEW p, NEW v \in Fraction, Nearest(v, p, z)
      PROVE  IsNearestRank(v, p, z)
  <2>1. \A x \in Fraction : AtMost(x, v) <=> ~Below(v, x)
    <3> SUFFICES ASSUME NEW x \in Fraction PROVE AtMost(x, v) <=> ~Below(v, x)
      OBVIOUS
    <3>1. x[1] \in Int /\ x[2] \in Int /\ v[1] \in Int /\ v[2] \in Int
      BY DEF Fraction
    <3>2. PICK m, n : m = x[1] * v[2] /\ n = v[1] * x[2]
      OBVIOUS
    <3>3. m \in Int /\ n \in Int
      BY <3>1, <3>2
    <3>4. m <= n <=> ~(n < m)
      BY <3>3
    <3> QED
      BY <3>2, <3>4 DEF AtMost, Below
  <2>2. \A i \in DOMAIN z : z[i] \in Fraction
    OBVIOUS
  <2>3. {i \in DOMAIN z : AtMost(z[i], v)} = UpTo(v, z)
    BY <2>1, <2>2 DEF UpTo
  <2>4. Number(LAMBDA x : AtMost(x, v), z) = Cardinality(UpTo(v, z))
    BY <2>3 DEF Number, Passing
  <2>5. Number(LAMBDA x : Below(x, v), z) = Cardinality(Under(v, z))
    BY DEF Number, Passing, Under
  <2> QED
    BY <1>2, <2>4, <2>5 DEF Nearest, IsNearestRank
<1> QED
  BY <1>1, <1>2 DEF Describes

(* The values of a metric that are there are fractions.                    *)
LEMMA ValuesThere ==
  ASSUME NEW n \in Nat, NEW x, x = [i \in 1 .. n |-> x[i]], \A i \in 1 .. n : Scalar(x[i]),
         NEW y, y = Selected(LAMBDA v : v # Unavailable, x)
  PROVE  y \in Seq(Fraction)
<1>1. PICK R : R = {Unavailable} \cup Fraction
  OBVIOUS
<1>2. PICK I : I = {i \in DOMAIN x : x[i] # Unavailable}
  OBVIOUS
<1>3. x \in [1 .. n -> R]
  BY <1>1 DEF Scalar
<1>4. x \in Seq(R) /\ DOMAIN x = 1 .. n
  BY <1>3, SequenceOn
<1>5. y = Those(x, I) /\ I \subseteq DOMAIN x
  BY <1>2 DEF Selected, Passing
<1>6. /\ Cardinality(I) \in Nat
      /\ \A k \in 1 .. Cardinality(I) : At(I, k) \in I
  BY <1>4, <1>5, ThoseAre
<1>7. y = [k \in 1 .. Cardinality(I) |-> x[At(I, k)]]
  BY <1>5 DEF Those
<1>8. \A i \in I : x[i] \in Fraction
  BY <1>2, <1>4 DEF Scalar
<1>9. y \in [1 .. Cardinality(I) -> Fraction]
  BY <1>6, <1>7, <1>8
<1> QED
  BY <1>6, <1>9, SequenceOn

LEMMA ScalarDescribed ==
  ASSUME NEW T, NEW s \in Seq(T), \A i \in DOMAIN s : Gauged(s[i]), NEW k \in Scalars
  PROVE  Describes(ScalarDistribution(k, s),
                   Selected(LAMBDA v : v # Unavailable, MetricColumn(s, k)))
<1>1. PICK x : x = MetricColumn(s, k)
  OBVIOUS
<1>2. PICK y : y = Selected(LAMBDA v : v # Unavailable, x)
  OBVIOUS
<1>3. PICK n : n = Len(s)
  OBVIOUS
<1>4. n \in Nat /\ DOMAIN s = 1 .. n
  BY <1>3
<1>5. x = [i \in 1 .. n |-> s[i].metrics[k]]
  BY <1>1, <1>4 DEF MetricColumn
<1>6. x = [i \in 1 .. n |-> x[i]]
  BY <1>5
<1>7. \A i \in 1 .. n : Scalar(x[i])
  BY <1>4, <1>5 DEF Gauged
<1>8. y \in Seq(Fraction)
  BY <1>2, <1>4, <1>6, <1>7, ValuesThere
<1>9. ScalarDistribution(k, s) = Distribution(y, Len(s) - Len(y))
  BY <1>1, <1>2 DEF ScalarDistribution, MetricColumn
<1>10. Describes(ScalarDistribution(k, s), y)
  BY <1>8, <1>9, DistributionDescribes
<1> QED
  BY <1>1, <1>2, <1>10

LEMMA IntervalsDescribed ==
  ASSUME NEW T, NEW s \in Seq(T), \A i \in DOMAIN s : Gauged(s[i]), NEW kind \in {"icl", "itl"}
  PROVE  Describes(IntervalSummary(kind, s).intervals, Fractions(Joined(MetricColumn(s, kind))))
<1>1. PICK x : x = MetricColumn(s, kind)
  OBVIOUS
<1>2. PICK n : n = Len(s)
  OBVIOUS
<1>3. n \in Nat /\ DOMAIN s = 1 .. n
  BY <1>2
<1>4. x = [i \in 1 .. n |-> s[i].metrics[kind]]
  BY <1>1, <1>3 DEF MetricColumn
<1>5. \A i \in 1 .. n : s[i].metrics[kind] \in Seq(Int)
  BY <1>3 DEF Gauged
<1>6. PICK V : V = Seq(Int)
  OBVIOUS
<1>7. x \in [1 .. n -> V]
  BY <1>4, <1>5, <1>6
<1>8. x \in Seq(V)
  BY <1>3, <1>7, SequenceOn
<1>9. Joined(Those(x, Filled(x))) = Joined(x) /\ Joined(x) \in Seq(Int)
  BY <1>6, <1>8, JoinedFilled
<1>10. Selected(LAMBDA g : g # Unavailable, x) = Those(x, Filled(x))
  BY DEF Selected, Passing, Filled, Unavailable
<1>11. PICK z : z = Fractions(Joined(x))
  OBVIOUS
<1>12. z \in Seq(Fraction)
  <2>1. PICK j : j = Joined(x)
    OBVIOUS
  <2>2. j \in Seq(Int)
    BY <1>9, <2>1
  <2>3. Len(j) \in Nat /\ DOMAIN j = 1 .. Len(j) /\ \A i \in 1 .. Len(j) : j[i] \in Int
    BY <2>2
  <2>4. z = [i \in 1 .. Len(j) |-> <<j[i], 1>>]
    BY <1>11, <2>1, <2>3 DEF Fractions
  <2>5. \A i \in 1 .. Len(j) : <<j[i], 1>> \in Fraction
    BY <2>3 DEF Fraction
  <2>6. z \in [1 .. Len(j) -> Fraction]
    BY <2>4, <2>5
  <2> QED
    BY <2>3, <2>6, SequenceOn
<1>13. IntervalSummary(kind, s).intervals
         = Distribution(Fractions(Joined(Selected(LAMBDA g : g # Unavailable, x))), 0)
  BY <1>1 DEF IntervalSummary, MetricColumn
<1>14. IntervalSummary(kind, s).intervals = Distribution(z, 0)
  BY <1>9, <1>10, <1>11, <1>13
<1>15. Describes(IntervalSummary(kind, s).intervals, z)
  BY <1>12, <1>14, DistributionDescribes
<1> QED
  BY <1>1, <1>11, <1>15

LEMMA PercentilesHold == CommandInv => PercentilesAreNearestRanks
<1> SUFFICES ASSUME CommandInv, summary # Absent PROVE PercentilesAreNearestRanks
  BY DEF PercentilesAreNearestRanks
<1>1. PICK s : s = Successful(run.requests)
  OBVIOUS
<1>2. /\ s \in Seq({s[i] : i \in DOMAIN s})
      /\ \A i \in DOMAIN s : Gauged(s[i])
      /\ Summarises(summary, s)
  BY <1>1, SummaryFacts
<1>3. PICK T : s \in Seq(T)
  BY <1>2
<1>4. \A k : [i \in DOMAIN SuccessfulMetrics |-> SuccessfulMetrics[i][k]] = MetricColumn(s, k)
  BY <1>1, SuccessfulColumns
<1>5. ASSUME NEW k \in Scalars
      PROVE  Describes(summary.metrics[k],
                       Selected(LAMBDA v : v # Unavailable,
                                [i \in DOMAIN SuccessfulMetrics |-> SuccessfulMetrics[i][k]]))
  <2>1. summary.metrics[k] = ScalarDistribution(k, s)
    BY <1>2 DEF Summarises
  <2>2. Describes(ScalarDistribution(k, s),
                  Selected(LAMBDA v : v # Unavailable, MetricColumn(s, k)))
    BY <1>2, <1>3, ScalarDescribed
  <2> QED
    BY <1>4, <2>1, <2>2
<1>6. ASSUME NEW kind \in {"icl", "itl"}
      PROVE  Describes(summary[kind].intervals,
                       Fractions(Joined([i \in DOMAIN SuccessfulMetrics |->
                                           SuccessfulMetrics[i][kind]])))
  <2>1. summary[kind] = IntervalSummary(kind, s)
    BY <1>2 DEF Summarises
  <2>2. Describes(IntervalSummary(kind, s).intervals, Fractions(Joined(MetricColumn(s, kind))))
    BY <1>2, <1>3, IntervalsDescribed
  <2> QED
    BY <1>4, <2>1, <2>2
<1> QED
  BY <1>5, <1>6 DEF PercentilesAreNearestRanks

(* The percentiles of a run are nearest ranks of exactly the successful    *)
(* measured requests that have the metric (distribution.go:24-52).         *)
THEOREM PercentilesAreNearestRanksCorrect == Spec => []PercentilesAreNearestRanks
  BY CommandInvariant, PercentilesHold, PTL

(***************************************************************************)
(* The points of a sweep                                                   *)
(***************************************************************************)

LEMMA Divided ==
  ASSUME NEW a \in Nat, NEW b \in Nat \ {0}
  PROVE  /\ a = (a \div b) * b + (a % b)
         /\ a \div b \in Nat
         /\ a % b \in 0 .. b - 1
  OBVIOUS

(* a product of numbers in order                                           *)
LEMMA ProductOrder ==
  ASSUME NEW a \in Int, NEW b \in Int, a <= b, NEW c \in Nat
  PROVE  a * c <= b * c /\ a * c \in Int
<1>1. PICK d \in Nat : b = a + d
  <2>1. b - a \in Nat /\ b = a + (b - a)
    OBVIOUS
  <2> QED
    BY <2>1
<1>2. b * c = a * c + d * c
  BY <1>1
<1>3. d * c \in Nat /\ a * c \in Int
  BY <1>1
<1> QED
  BY <1>2, <1>3

(* A quotient and a remainder are the only ones.                           *)
LEMMA DivisionUnique ==
  ASSUME NEW b \in Nat \ {0}, NEW q \in Nat, NEW r \in 0 .. b - 1,
         NEW p \in Nat, NEW s \in 0 .. b - 1, q * b + r = p * b + s
  PROVE  q = p /\ r = s
<1>1. ASSUME NEW x \in Nat, NEW y \in Nat, NEW u \in 0 .. b - 1, NEW w \in 0 .. b - 1,
             x * b + u = y * b + w, x < y
      PROVE  FALSE
  <2>1. (x + 1) * b <= y * b
    BY <1>1, ProductOrder
  <2>2. (x + 1) * b = x * b + b
    BY <1>1
  <2>3. x * b \in Int /\ y * b \in Int
    BY <1>1
  <2> QED
    BY <1>1, <2>1, <2>2, <2>3
<1>2. ~(q < p) /\ ~(p < q)
  BY <1>1
<1>3. q = p
  BY <1>2
<1>4. q * b \in Int
  OBVIOUS
<1> QED
  BY <1>3, <1>4

(* a is q times b and r more                                               *)
Splits(a, b, q, r) == b \in Nat \ {0} /\ q \in Nat /\ r \in 0 .. b - 1 /\ a = q * b + r

LEMMA DivisionIs ==
  ASSUME NEW a, NEW b, NEW q, NEW r, Splits(a, b, q, r)
  PROVE  a \in Nat /\ a \div b = q /\ a % b = r
<1> b \in Nat \ {0} /\ q \in Nat /\ r \in 0 .. b - 1 /\ a = q * b + r
  BY DEF Splits
<1>1. a \in Nat
  OBVIOUS
<1>2. PICK p, s : p = a \div b /\ s = a % b
  OBVIOUS
<1>3. p \in Nat /\ s \in 0 .. b - 1 /\ p * b + s = q * b + r
  BY <1>1, <1>2, Divided
<1> QED
  BY <1>1, <1>2, <1>3, DivisionUnique

(* a number in mixed radix: the last digit is below l, the one before it   *)
(* below o                                                                 *)
InRadix(x, y, z, n, o, l) ==
  /\ n \in Nat \ {0} /\ o \in Nat \ {0} /\ l \in Nat \ {0}
  /\ x \in 0 .. n - 1 /\ y \in 0 .. o - 1 /\ z \in 0 .. l - 1

LEMMA DigitsOf ==
  ASSUME NEW n, NEW o, NEW l, NEW x, NEW y, NEW z, InRadix(x, y, z, n, o, l),
         NEW k, k = (x * o + y) * l + z
  PROVE  /\ k \in 0 .. (n * o) * l - 1
         /\ k \div (l * o) = x /\ (k \div l) % o = y /\ k % l = z
<1> /\ n \in Nat \ {0} /\ o \in Nat \ {0} /\ l \in Nat \ {0}
    /\ x \in 0 .. n - 1 /\ y \in 0 .. o - 1 /\ z \in 0 .. l - 1
  BY DEF InRadix
<1>1. PICK w : w = x * o + y
  OBVIOUS
<1>2. w \in Nat /\ w \div o = x /\ w % o = y
  <2>1. Splits(w, o, x, y)
    BY <1>1 DEF Splits
  <2> QED
    BY <2>1, DivisionIs
<1>3. k \in Nat /\ k \div l = w /\ k % l = z
  <2>1. k = w * l + z
    BY <1>1
  <2>2. Splits(k, l, w, z)
    BY <1>2, <2>1 DEF Splits
  <2> QED
    BY <2>2, DivisionIs
<1>4. PICK r : r = y * l + z
  OBVIOUS
<1>5. PICK m : m = l * o
  OBVIOUS
<1>6. m = o * l /\ m \in Nat \ {0}
  BY <1>5
<1>7. r \in 0 .. m - 1
  <2>1. (y + 1) * l <= o * l
    BY ProductOrder
  <2>2. (y + 1) * l = y * l + l /\ y * l \in Nat
    OBVIOUS
  <2> QED
    BY <1>4, <1>6, <2>1, <2>2
<1>8. k = x * m + r
  <2>1. (x * o + y) * l = (x * o) * l + y * l
    OBVIOUS
  <2>2. (x * o) * l = x * (o * l)
    OBVIOUS
  <2>3. x * m \in Int /\ y * l \in Int
    BY <1>6
  <2> QED
    BY <1>4, <1>6, <2>1, <2>2, <2>3
<1>9. k \div m = x
  <2>1. Splits(k, m, x, r)
    BY <1>6, <1>7, <1>8 DEF Splits
  <2> QED
    BY <2>1, DivisionIs
<1>10. w + 1 <= n * o
  <2>1. (x + 1) * o <= n * o
    BY ProductOrder
  <2>2. (x + 1) * o = x * o + o /\ x * o \in Nat /\ n * o \in Nat
    OBVIOUS
  <2> QED
    BY <1>1, <2>1, <2>2
<1>11. k <= (n * o) * l - 1
  <2>1. PICK t : t = n * o
    OBVIOUS
  <2>2. t \in Nat /\ w + 1 <= t
    BY <1>10, <2>1
  <2>3. (w + 1) * l <= t * l
    BY <1>2, <2>2, ProductOrder
  <2>4. (w + 1) * l = w * l + l /\ w * l \in Nat /\ t * l \in Nat
    BY <1>2, <2>2
  <2>5. k = w * l + z
    BY <1>1
  <2> QED
    BY <2>1, <2>3, <2>4, <2>5
<1>12. (n * o) * l \in Int
  OBVIOUS
<1> QED
  BY <1>2, <1>3, <1>5, <1>9, <1>11, <1>12

LEMMA DigitsAre ==
  ASSUME NEW l \in Nat \ {0}, NEW o \in Nat \ {0}, NEW n \in Nat \ {0}, NEW k \in 0 .. (n * o) * l - 1
  PROVE  /\ k \div (l * o) \in 0 .. n - 1 /\ (k \div l) % o \in 0 .. o - 1 /\ k % l \in 0 .. l - 1
         /\ k = ((k \div (l * o)) * o + ((k \div l) % o)) * l + (k % l)
<1>1. k \in Nat
  OBVIOUS
<1>2. PICK w, z : w = k \div l /\ z = k % l
  OBVIOUS
<1>3. w \in Nat /\ z \in 0 .. l - 1 /\ k = w * l + z
  BY <1>1, <1>2, Divided
<1>4. PICK x, y : x = w \div o /\ y = w % o
  OBVIOUS
<1>5. x \in Nat /\ y \in 0 .. o - 1 /\ w = x * o + y
  BY <1>3, <1>4, Divided
<1>6. k = (x * o + y) * l + z
  BY <1>3, <1>5
<1>7. InRadix(x, y, z, x + 1, o, l)
  BY <1>3, <1>5 DEF InRadix
<1>8. k \div (l * o) = x
  BY <1>6, <1>7, DigitsOf
<1>9. x < n
  <2>1. SUFFICES ASSUME n <= x PROVE FALSE
    BY <1>5
  <2>2. n * o <= x * o /\ n * o \in Int
    BY <1>5, <2>1, ProductOrder
  <2>3. x * o <= w
    BY <1>5
  <2>4. PICK t : t = n * o
    OBVIOUS
  <2>5. t \in Int /\ t <= w
    BY <1>3, <1>5, <2>2, <2>3, <2>4
  <2>6. t * l <= w * l /\ t * l \in Int
    BY <1>3, <2>5, ProductOrder
  <2>7. w * l <= k /\ w * l \in Int
    BY <1>3
  <2> QED
    BY <2>4, <2>6, <2>7
<1> QED
  BY <1>2, <1>3, <1>4, <1>5, <1>6, <1>8, <1>9

(* the settings that a sweep varies                                        *)
Swept(v) == {s \in DOMAIN AxisOf : v[AxisOf[s]] # <<>>}

(* where on the axis of a setting the k-th point lies                      *)
Position(v, k, s) ==
  CASE s = "input_tokens"      -> ((k - 1) \div (Len(Loads(v)) * Len(Outputs(v)))) + 1
    [] s = "max_output_tokens" -> (((k - 1) \div Len(Loads(v))) % Len(Outputs(v))) + 1
    [] OTHER                   -> ((k - 1) % Len(Loads(v))) + 1

LEMMA AxisNames ==
  /\ DOMAIN AxisOf = {"concurrency", "request_rate", "input_tokens", "max_output_tokens"}
  /\ AxisOf["concurrency"] = "concurrency_values"
  /\ AxisOf["request_rate"] = "request_rate_values"
  /\ AxisOf["input_tokens"] = "input_token_values"
  /\ AxisOf["max_output_tokens"] = "output_token_values"
  /\ \A s \in DOMAIN AxisOf : AxisOf[s] \in Axes /\ s \in Names /\ s \in Numbers
<1>1. /\ DOMAIN AxisOf = {"concurrency", "request_rate", "input_tokens", "max_output_tokens"}
      /\ AxisOf["concurrency"] = "concurrency_values"
      /\ AxisOf["request_rate"] = "request_rate_values"
      /\ AxisOf["input_tokens"] = "input_token_values"
      /\ AxisOf["max_output_tokens"] = "output_token_values"
  BY DEF AxisOf
<1>2. \A s \in {"concurrency", "request_rate", "input_tokens", "max_output_tokens"} :
        s \in Numbers
  BY NamesAre
<1>3. Numbers \subseteq Names
  BY DEF Numbers
<1> QED
  BY <1>1, <1>2, <1>3 DEF Axes

LEMMA AxisOrIs ==
  ASSUME NEW axis \in Seq(Int), NEW scalar, NEW a, a = AxisOr(axis, scalar)
  PROVE  /\ Len(a) \in Nat \ {0}
         /\ axis = <<>> => Len(a) = 1 /\ a[1] = scalar
         /\ axis # <<>> => a = axis
<1>1. CASE axis = <<>>
  <2>1. a = <<scalar>>
    BY <1>1 DEF AxisOr
  <2>2. Len(a) = 1 /\ a[1] = scalar
    BY <2>1
  <2> QED
    BY <1>1, <2>2
<1>2. CASE axis # <<>>
  <2>1. a = axis /\ Len(axis) # 0 /\ Len(axis) \in Nat
    BY <1>2 DEF AxisOr
  <2> QED
    BY <1>2, <2>1
<1> QED
  BY <1>1, <1>2

(* the three lists that a point takes its values from                      *)
LEMMA ListsAre ==
  ASSUME NEW v, Settled(v), Applicable(v)
  PROVE  /\ Len(Inputs(v)) \in Nat \ {0} /\ Len(Outputs(v)) \in Nat \ {0}
         /\ Len(Loads(v)) \in Nat \ {0}
         /\ IF "input_tokens" \in Swept(v)
            THEN Inputs(v) = v[AxisOf["input_tokens"]] /\ v.workload_mode = "token_length"
            ELSE Len(Inputs(v)) = 1 /\ Inputs(v)[1] = v.input_tokens
         /\ IF "max_output_tokens" \in Swept(v)
            THEN Outputs(v) = v[AxisOf["max_output_tokens"]]
            ELSE Len(Outputs(v)) = 1 /\ Outputs(v)[1] = v.max_output_tokens
         /\ IF LoadSetting(v) \in Swept(v)
            THEN Loads(v) = v[AxisOf[LoadSetting(v)]]
            ELSE Len(Loads(v)) = 1 /\ Loads(v)[1] = v[LoadSetting(v)]
         /\ LoadSetting(v) \in {"concurrency", "request_rate"}
         /\ \A s \in {"concurrency", "request_rate"} : s \in Swept(v) => s = LoadSetting(v)
<1>1. LoadSetting(v) \in {"concurrency", "request_rate"}
  BY DEF LoadSetting
<1>2. ASSUME NEW s \in DOMAIN AxisOf, NEW a, a = AxisOr(v[AxisOf[s]], v[s])
      PROVE  /\ Len(a) \in Nat \ {0}
             /\ IF s \in Swept(v) THEN a = v[AxisOf[s]] ELSE Len(a) = 1 /\ a[1] = v[s]
  <2>1. v[AxisOf[s]] \in Seq(Int)
    BY AxisNames DEF Settled
  <2>2. s \in Swept(v) <=> v[AxisOf[s]] # <<>>
    BY DEF Swept
  <2> QED
    BY <1>2, <2>1, <2>2, AxisOrIs
<1>3. /\ Len(Inputs(v)) \in Nat \ {0}
      /\ IF "input_tokens" \in Swept(v) THEN Inputs(v) = v[AxisOf["input_tokens"]]
         ELSE Len(Inputs(v)) = 1 /\ Inputs(v)[1] = v.input_tokens
  BY <1>2, AxisNames DEF Inputs
<1>4. /\ Len(Outputs(v)) \in Nat \ {0}
      /\ IF "max_output_tokens" \in Swept(v) THEN Outputs(v) = v[AxisOf["max_output_tokens"]]
         ELSE Len(Outputs(v)) = 1 /\ Outputs(v)[1] = v.max_output_tokens
  BY <1>2, AxisNames DEF Outputs
<1>5. /\ Len(Loads(v)) \in Nat \ {0}
      /\ IF LoadSetting(v) \in Swept(v) THEN Loads(v) = v[AxisOf[LoadSetting(v)]]
         ELSE Len(Loads(v)) = 1 /\ Loads(v)[1] = v[LoadSetting(v)]
  BY <1>1, <1>2, AxisNames DEF Loads
<1>6. "input_tokens" \in Swept(v) => v.workload_mode = "token_length"
  BY AxisNames DEF Swept, Applicable
<1>7. \A s \in {"concurrency", "request_rate"} : s \in Swept(v) => s = LoadSetting(v)
  BY AxisNames DEF Swept, Applicable, LoadSetting
<1> QED
  BY <1>1, <1>3, <1>4, <1>5, <1>6, <1>7

(* the three digits of a point                                             *)
LEMMA PointDigits ==
  ASSUME NEW v, Settled(v), Applicable(v), NEW k \in 1 .. PointCount(v)
  PROVE  /\ Position(v, k, "input_tokens") \in 1 .. Len(Inputs(v))
         /\ Position(v, k, "max_output_tokens") \in 1 .. Len(Outputs(v))
         /\ Position(v, k, LoadSetting(v)) \in 1 .. Len(Loads(v))
         /\ k = ((Position(v, k, "input_tokens") - 1) * Len(Outputs(v))
                 + (Position(v, k, "max_output_tokens") - 1)) * Len(Loads(v))
                + Position(v, k, LoadSetting(v))
<1>1. PICK n, o, l : n = Len(Inputs(v)) /\ o = Len(Outputs(v)) /\ l = Len(Loads(v))
  OBVIOUS
<1>2. n \in Nat \ {0} /\ o \in Nat \ {0} /\ l \in Nat \ {0}
  BY <1>1, ListsAre
<1>3. PointCount(v) = (n * o) * l
  BY <1>1 DEF PointCount
<1>4. (n * o) * l \in Int
  BY <1>2
<1>5. k - 1 \in 0 .. (n * o) * l - 1 /\ k \in Int
  BY <1>3, <1>4
<1>6. PICK x, y, z : x = (k - 1) \div (l * o) /\ y = ((k - 1) \div l) % o /\ z = (k - 1) % l
  OBVIOUS
<1>7. x \in 0 .. n - 1 /\ y \in 0 .. o - 1 /\ z \in 0 .. l - 1 /\ k - 1 = (x * o + y) * l + z
  <2>1. PICK j : j = k - 1
    OBVIOUS
  <2>2. j \in 0 .. (n * o) * l - 1
    BY <1>5, <2>1
  <2>3. x = j \div (l * o) /\ y = (j \div l) % o /\ z = j % l
    BY <1>6, <2>1
  <2>4. /\ x \in 0 .. n - 1 /\ y \in 0 .. o - 1 /\ z \in 0 .. l - 1
        /\ j = (x * o + y) * l + z
    <3>1. /\ j \div (l * o) \in 0 .. n - 1 /\ (j \div l) % o \in 0 .. o - 1 /\ j % l \in 0 .. l - 1
          /\ j = ((j \div (l * o)) * o + ((j \div l) % o)) * l + (j % l)
      BY <1>2, <2>2, DigitsAre
    <3> QED
      BY <2>3, <3>1, Zenon
  <2> QED
    BY <2>1, <2>4
<1>8. /\ Position(v, k, "input_tokens") = x + 1
      /\ Position(v, k, "max_output_tokens") = y + 1
      /\ Position(v, k, LoadSetting(v)) = z + 1
  BY <1>1, <1>6 DEF Position, LoadSetting
<1>9. k = (x * o + y) * l + (z + 1)
  <2>1. PICK w : w = (x * o + y) * l
    OBVIOUS
  <2>2. w \in Int
    BY <1>2, <1>7, <2>1
  <2> QED
    BY <1>5, <1>7, <2>1, <2>2
<1>10. PICK a, b, c : /\ a = Position(v, k, "input_tokens")
                      /\ b = Position(v, k, "max_output_tokens")
                      /\ c = Position(v, k, LoadSetting(v))
  OBVIOUS
<1>11. a - 1 = x /\ b - 1 = y /\ c = z + 1
  BY <1>7, <1>8, <1>10
<1>12. k = ((a - 1) * o + (b - 1)) * l + c
  BY <1>9, <1>11
<1>13. a \in 1 .. n /\ b \in 1 .. o /\ c \in 1 .. l
  BY <1>2, <1>7, <1>8, <1>10
<1> QED
  BY <1>1, <1>10, <1>12, <1>13

Configured(c, v) == c = [values |-> v, supplied |-> c.supplied]

(* what the k-th point takes from the base, and what from the axes         *)
LEMMA PointIs ==
  ASSUME NEW c, NEW v, Configured(c, v), Settled(v), Applicable(v),
         NEW k \in 1 .. PointCount(v), NEW u, u = Points(c)[k].values
  PROVE  /\ \A s \in Names \ Swept(v) : u[s] = v[s]
         /\ \A s \in Swept(v) : /\ Position(v, k, s) \in DOMAIN v[AxisOf[s]]
                                /\ u[s] = v[AxisOf[s]][Position(v, k, s)]
         /\ Points(c)[k].supplied = c.supplied
<1>1. PICK x, y, z, g : /\ x = Position(v, k, "input_tokens")
                        /\ y = Position(v, k, "max_output_tokens")
                        /\ g = LoadSetting(v) /\ z = Position(v, k, LoadSetting(v))
  OBVIOUS
<1>2. PICK input, output, load : input = Inputs(v)[x] /\ output = Outputs(v)[y] /\ load = Loads(v)[z]
  OBVIOUS
<1>3. PICK p : p = PointConfig(c, input, output, load)
  OBVIOUS
<1>4. c = [values |-> v, supplied |-> c.supplied] /\ c.values = v
  BY DEF Configured
<1>5. Points(c)[k] = p
  <2>1. /\ x = ((k - 1) \div (Len(Loads(v)) * Len(Outputs(v)))) + 1
        /\ y = (((k - 1) \div Len(Loads(v))) % Len(Outputs(v))) + 1
        /\ z = ((k - 1) % Len(Loads(v))) + 1
    BY <1>1 DEF Position, LoadSetting
  <2>2. Points(c)[k] =
          PointConfig(c, Inputs(v)[((k - 1) \div (Len(Loads(v)) * Len(Outputs(v)))) + 1],
                         Outputs(v)[(((k - 1) \div Len(Loads(v))) % Len(Outputs(v))) + 1],
                         Loads(v)[((k - 1) % Len(Loads(v))) + 1])
    BY <1>4 DEF Points
  <2> QED
    BY <1>2, <1>3, <2>1, <2>2
<1>6. DOMAIN v = Names /\ g \in Names
      /\ "max_output_tokens" \in Names /\ "input_tokens" \in Names
  BY <1>1, AxisNames DEF Settled, LoadSetting
<1>7. PICK given : given = IF v.workload_mode = "token_length" THEN input ELSE v.input_tokens
  OBVIOUS
<1>8. p.supplied = c.supplied
      /\ p.values = [v EXCEPT !.max_output_tokens = output,
                              !.input_tokens = given,
                              ![LoadSetting(v)] = load]
  <2>1. PICK w : w = [c.values EXCEPT !.max_output_tokens = output,
                                      !.input_tokens = IF c.values.workload_mode = "token_length"
                                                       THEN input ELSE c.values.input_tokens,
                                      ![LoadSetting(c.values)] = load]
    OBVIOUS
  <2>2. p = [c EXCEPT !.values = w]
    BY <1>3, <2>1 DEF PointConfig
  <2>3. p.supplied = c.supplied /\ p.values = w
    BY <1>4, <2>2
  <2> QED
    BY <1>4, <1>7, <2>1, <2>3
<1>9. u = [v EXCEPT !.max_output_tokens = output, !.input_tokens = given, ![g] = load]
  BY <1>1, <1>5, <1>7, <1>8
<1>10. g \in {"concurrency", "request_rate"}
  BY <1>1 DEF LoadSetting
<1>11. /\ u["max_output_tokens"] = output /\ u["input_tokens"] = given /\ u[g] = load
       /\ \A s \in Names \ {"max_output_tokens", "input_tokens", g} : u[s] = v[s]
  BY <1>6, <1>9, <1>10
<1>12. /\ x \in 1 .. Len(Inputs(v)) /\ y \in 1 .. Len(Outputs(v)) /\ z \in 1 .. Len(Loads(v))
  BY <1>1, PointDigits
<1>13. /\ IF "input_tokens" \in Swept(v)
          THEN Inputs(v) = v[AxisOf["input_tokens"]] /\ v.workload_mode = "token_length"
          ELSE Len(Inputs(v)) = 1 /\ Inputs(v)[1] = v.input_tokens
       /\ IF "max_output_tokens" \in Swept(v)
          THEN Outputs(v) = v[AxisOf["max_output_tokens"]]
          ELSE Len(Outputs(v)) = 1 /\ Outputs(v)[1] = v.max_output_tokens
       /\ IF g \in Swept(v) THEN Loads(v) = v[AxisOf[g]]
          ELSE Len(Loads(v)) = 1 /\ Loads(v)[1] = v[g]
       /\ \A s \in {"concurrency", "request_rate"} : s \in Swept(v) => s = g
  BY <1>1, ListsAre
<1>14. ASSUME NEW s \in Swept(v), NEW a, a = v[AxisOf[s]]
       PROVE  1 .. Len(a) = DOMAIN a
  <2>1. s \in DOMAIN AxisOf
    BY DEF Swept
  <2>2. a \in Seq(Int)
    BY <1>14, <2>1, AxisNames DEF Settled
  <2> QED
    BY <2>2
<1>15. ASSUME "input_tokens" \in Swept(v)
       PROVE  x \in DOMAIN v[AxisOf["input_tokens"]] /\ given = v[AxisOf["input_tokens"]][x]
  BY <1>2, <1>7, <1>12, <1>13, <1>14, <1>15
<1>16. ASSUME "max_output_tokens" \in Swept(v)
       PROVE  y \in DOMAIN v[AxisOf["max_output_tokens"]] /\ output = v[AxisOf["max_output_tokens"]][y]
  BY <1>2, <1>12, <1>13, <1>14, <1>16
<1>17. ASSUME g \in Swept(v)
       PROVE  z \in DOMAIN v[AxisOf[g]] /\ load = v[AxisOf[g]][z]
  BY <1>2, <1>12, <1>13, <1>14, <1>17
<1>18. ASSUME "input_tokens" \notin Swept(v) PROVE given = v["input_tokens"]
  <2>1. x = 1
    <3>1. Len(Inputs(v)) = 1
      BY <1>13, <1>18
    <3> QED
      BY <1>12, <3>1
  <2> QED
    BY <1>2, <1>7, <1>13, <1>18, <2>1
<1>19. ASSUME "max_output_tokens" \notin Swept(v) PROVE output = v["max_output_tokens"]
  <2>1. y = 1
    <3>1. Len(Outputs(v)) = 1
      BY <1>13, <1>19
    <3> QED
      BY <1>12, <3>1
  <2> QED
    BY <1>2, <1>13, <1>19, <2>1
<1>20. ASSUME g \notin Swept(v) PROVE load = v[g]
  <2>1. z = 1
    <3>1. Len(Loads(v)) = 1
      BY <1>13, <1>20
    <3> QED
      BY <1>12, <3>1
  <2> QED
    BY <1>2, <1>13, <1>20, <2>1
<1>21. \A s \in Names \ Swept(v) : u[s] = v[s]
  BY <1>11, <1>18, <1>19, <1>20
<1>22. \A s \in Swept(v) : s \in {"input_tokens", "max_output_tokens", g}
  BY <1>13, AxisNames DEF Swept
<1>23. \A s \in Swept(v) : /\ Position(v, k, s) \in DOMAIN v[AxisOf[s]]
                           /\ u[s] = v[AxisOf[s]][Position(v, k, s)]
  BY <1>1, <1>11, <1>15, <1>16, <1>17, <1>22
<1> QED
  BY <1>5, <1>8, <1>21, <1>23

(* the positions along all three lists, of which those that are no axis    *)
(* have one element                                                        *)
LEMMA PositionsEqual ==
  ASSUME NEW v, Settled(v), Applicable(v), NEW j \in 1 .. PointCount(v), NEW k \in 1 .. PointCount(v),
         \A s \in Swept(v) : Position(v, j, s) = Position(v, k, s)
  PROVE  j = k
<1>1. PICK n, o, l, g : /\ n = Len(Inputs(v)) /\ o = Len(Outputs(v)) /\ l = Len(Loads(v))
                        /\ g = LoadSetting(v)
  OBVIOUS
<1>2. PICK x, y, z, a, b, d :
        /\ x = Position(v, j, "input_tokens") /\ a = Position(v, k, "input_tokens")
        /\ y = Position(v, j, "max_output_tokens") /\ b = Position(v, k, "max_output_tokens")
        /\ z = Position(v, j, g) /\ d = Position(v, k, g)
  OBVIOUS
<1>3. /\ x \in 1 .. n /\ y \in 1 .. o /\ z \in 1 .. l
      /\ j = ((x - 1) * o + (y - 1)) * l + z
  BY <1>1, <1>2, PointDigits
<1>4. /\ a \in 1 .. n /\ b \in 1 .. o /\ d \in 1 .. l
      /\ k = ((a - 1) * o + (b - 1)) * l + d
  BY <1>1, <1>2, PointDigits
<1>5. /\ "input_tokens" \notin Swept(v) => n = 1
      /\ "max_output_tokens" \notin Swept(v) => o = 1
      /\ g \notin Swept(v) => l = 1
  BY <1>1, ListsAre
<1>6. x = a
  BY <1>2, <1>3, <1>4, <1>5
<1>7. y = b
  BY <1>2, <1>3, <1>4, <1>5
<1>8. z = d
  BY <1>2, <1>3, <1>4, <1>5
<1> QED
  BY <1>3, <1>4, <1>6, <1>7, <1>8

LEMMA PositionsReached ==
  ASSUME NEW v, Settled(v), Applicable(v), NEW f,
         \A s \in Swept(v) : f[s] \in DOMAIN v[AxisOf[s]]
  PROVE  \E k \in 1 .. PointCount(v) : \A s \in Swept(v) : Position(v, k, s) = f[s]
<1>1. PICK n, o, l, g : /\ n = Len(Inputs(v)) /\ o = Len(Outputs(v)) /\ l = Len(Loads(v))
                        /\ g = LoadSetting(v)
  OBVIOUS
<1>2. /\ n \in Nat \ {0} /\ o \in Nat \ {0} /\ l \in Nat \ {0}
      /\ g \in {"concurrency", "request_rate"}
      /\ "input_tokens" \in Swept(v) => Inputs(v) = v[AxisOf["input_tokens"]]
      /\ "max_output_tokens" \in Swept(v) => Outputs(v) = v[AxisOf["max_output_tokens"]]
      /\ g \in Swept(v) => Loads(v) = v[AxisOf[g]]
      /\ \A s \in {"concurrency", "request_rate"} : s \in Swept(v) => s = g
  BY <1>1, ListsAre
<1>3. \A s \in Swept(v) : s \in {"input_tokens", "max_output_tokens", g}
  BY <1>2, AxisNames DEF Swept
<1>4. ASSUME NEW s \in Swept(v), NEW a, a = v[AxisOf[s]]
      PROVE  f[s] \in 1 .. Len(a)
  <2>1. s \in DOMAIN AxisOf
    BY DEF Swept
  <2>2. a \in Seq(Int)
    BY <1>4, <2>1, AxisNames DEF Settled
  <2> QED
    BY <1>4, <2>2
<1>5. PICK x \in 0 .. n - 1 : "input_tokens" \in Swept(v) => f["input_tokens"] = x + 1
  <2>1. CASE "input_tokens" \in Swept(v)
    <3>1. f["input_tokens"] \in 1 .. n
      BY <1>1, <1>2, <1>4, <2>1
    <3>2. f["input_tokens"] - 1 \in 0 .. n - 1 /\ f["input_tokens"] = (f["input_tokens"] - 1) + 1
      BY <1>2, <3>1
    <3> QED
      BY <3>2
  <2>2. CASE "input_tokens" \notin Swept(v)
    <3>1. 0 \in 0 .. n - 1
      BY <1>2
    <3> QED
      BY <2>2, <3>1
  <2> QED
    BY <2>1, <2>2
<1>6. PICK y \in 0 .. o - 1 : "max_output_tokens" \in Swept(v) => f["max_output_tokens"] = y + 1
  <2>1. CASE "max_output_tokens" \in Swept(v)
    <3>1. f["max_output_tokens"] \in 1 .. o
      BY <1>1, <1>2, <1>4, <2>1
    <3>2. /\ f["max_output_tokens"] - 1 \in 0 .. o - 1
          /\ f["max_output_tokens"] = (f["max_output_tokens"] - 1) + 1
      BY <1>2, <3>1
    <3> QED
      BY <3>2
  <2>2. CASE "max_output_tokens" \notin Swept(v)
    <3>1. 0 \in 0 .. o - 1
      BY <1>2
    <3> QED
      BY <2>2, <3>1
  <2> QED
    BY <2>1, <2>2
<1>7. PICK z \in 0 .. l - 1 : g \in Swept(v) => f[g] = z + 1
  <2>1. CASE g \in Swept(v)
    <3>1. f[g] \in 1 .. l
      BY <1>1, <1>2, <1>4, <2>1
    <3>2. f[g] - 1 \in 0 .. l - 1 /\ f[g] = (f[g] - 1) + 1
      BY <1>2, <3>1
    <3> QED
      BY <3>2
  <2>2. CASE g \notin Swept(v)
    <3>1. 0 \in 0 .. l - 1
      BY <1>2
    <3> QED
      BY <2>2, <3>1
  <2> QED
    BY <2>1, <2>2
<1>8. PICK i : i = (x * o + y) * l + z
  OBVIOUS
<1>9. /\ i \in 0 .. (n * o) * l - 1
      /\ i \div (l * o) = x /\ (i \div l) % o = y /\ i % l = z
  <2>1. InRadix(x, y, z, n, o, l)
    BY <1>2, <1>5, <1>6, <1>7 DEF InRadix
  <2> QED
    BY <1>8, <2>1, DigitsOf
<1>10. PICK k : k = i + 1
  OBVIOUS
<1>11. k \in 1 .. PointCount(v)
  <2>1. PICK t : t = (n * o) * l
    OBVIOUS
  <2>2. t \in Int /\ PointCount(v) = t /\ i \in 0 .. t - 1
    BY <1>1, <1>2, <1>9, <2>1 DEF PointCount
  <2> QED
    BY <1>10, <2>2
<1>12. k - 1 = i
  BY <1>9, <1>10
<1>13. /\ Position(v, k, "input_tokens") = x + 1
       /\ Position(v, k, "max_output_tokens") = y + 1
       /\ Position(v, k, g) = z + 1
  BY <1>1, <1>2, <1>9, <1>12 DEF Position
<1> QED
  BY <1>3, <1>5, <1>6, <1>7, <1>11, <1>13

(***************************************************************************)
(* Precedence                                                              *)
(***************************************************************************)

Fixed == IF Command = "calibrate-client" THEN CalibrationValues ELSE <<>>

(* Where the values come from, and what they leave alone.                  *)
LEMMA ValuesAre ==
  ASSUME file \in Files, flags \in Flaggings, NEW v, v = Resolved.values
  PROVE  /\ Settled(v) /\ Settled(Merged)
         /\ \A s \in Names : v[s] = Overlay(Fixed, Merged)[s]
         /\ \A s \in Axes \cup {"mode"} : v[s] = Merged[s]
<1>1. /\ Settled(Merged) /\ Settled(v)
      /\ v = IF Command = "calibrate-client" THEN Overlay(CalibrationValues, Merged) ELSE Merged
  BY ResolutionIs
<1>2. DOMAIN Merged = Names
  BY <1>1 DEF Settled
<1>3. DOMAIN CalibrationValues \cap (Axes \cup {"mode"}) = {}
      /\ Axes \cup {"mode"} \subseteq Names
  <2>1. DOMAIN CalibrationValues = {"prompt", "max_output_tokens", "temperature", "token_timing",
                                    "slo_ttft", "slo_tpot", "slo_e2e"}
    BY DEF CalibrationValues
  <2>2. DOMAIN CalibrationValues \cap (Axes \cup {"mode"}) = {}
    BY <2>1 DEF Axes
  <2> QED
    BY <2>2, NamesAre
<1>4. \A top, s : s \in Names =>
        Overlay(top, Merged)[s] = IF s \in DOMAIN top THEN top[s] ELSE Merged[s]
  BY <1>2 DEF Overlay
<1>5. CASE Command = "calibrate-client"
  <2>1. Fixed = CalibrationValues /\ v = Overlay(CalibrationValues, Merged)
    BY <1>1, <1>5 DEF Fixed
  <2>2. \A s \in Axes \cup {"mode"} : v[s] = Merged[s]
    BY <1>3, <1>4, <2>1
  <2> QED
    BY <1>1, <2>1, <2>2
<1>6. CASE Command # "calibrate-client"
  <2>1. Fixed = <<>> /\ DOMAIN Fixed = {} /\ v = Merged
    BY <1>1, <1>6 DEF Fixed
  <2>2. \A s \in Names : Overlay(Fixed, Merged)[s] = Merged[s]
    BY <1>4, <2>1
  <2> QED
    BY <1>1, <2>1, <2>2
<1> QED
  BY <1>5, <1>6

(* What somebody gave is known to be given.                                *)
LEMMA SuppliedAre ==
  ASSUME NEW c, c = Resolved
  PROVE  /\ c = [values |-> c.values, supplied |-> c.supplied]
         /\ \A s \in DOMAIN flags \cup DOMAIN file.given :
              /\ s \in Tracked => s \in c.supplied
              /\ s \in OpenLoopSettings => "open_loop" \in c.supplied
<1>1. PICK d, e, b : /\ d = Given([values |-> Default, supplied |-> {}], file.given)
                     /\ e = Load(file) /\ b = Resolve(file, flags)
  OBVIOUS
<1>2. /\ \A s \in DOMAIN file.given \cap Tracked : s \in d.supplied
      /\ DOMAIN file.given \cap OpenLoopSettings # {} => "open_loop" \in d.supplied
      /\ d = [values |-> d.values, supplied |-> d.supplied]
  BY <1>1 DEF Given
<1>3. d.supplied \subseteq e.supplied
  <2>1. e = IF file.openLoopBlock THEN [d EXCEPT !.supplied = d.supplied \cup {"open_loop"}] ELSE d
    BY <1>1 DEF Load
  <2> QED
    BY <1>2, <2>1
<1>4. /\ e.supplied \subseteq b.supplied
      /\ \A s \in DOMAIN flags \cap Tracked : s \in b.supplied
      /\ DOMAIN flags \cap OpenLoopSettings # {} => "open_loop" \in b.supplied
      /\ b = [values |-> b.values, supplied |-> b.supplied]
  BY <1>1 DEF Resolve, Given
<1>5. c.supplied = b.supplied /\ c = [values |-> c.values, supplied |-> c.supplied]
  <2>1. c = IF Command = "calibrate-client" THEN ForCalibration(b) ELSE b
    BY <1>1 DEF Resolved
  <2>2. PICK w : w = Overlay(CalibrationValues, b.values)
    OBVIOUS
  <2>3. ForCalibration(b) = [b EXCEPT !.values = w]
    BY <2>2 DEF ForCalibration
  <2>4. ForCalibration(b) = [values |-> w, supplied |-> b.supplied]
    BY <1>4, <2>3
  <2> QED
    BY <1>4, <2>1, <2>4
<1> QED
  BY <1>2, <1>3, <1>4, <1>5

(* A valid configuration has no setting of the other mode given.           *)
LEMMA OthersMissing ==
  ASSUME NEW c, c.supplied = Resolved.supplied, c.values.mode = Merged.mode, ValidLoad(c),
         NEW s \in DOMAIN flags \cup DOMAIN file.given
  PROVE  /\ Merged.mode = "open_loop" => s \notin {"concurrency", "requests"}
         /\ Merged.mode # "open_loop" => s \notin OpenLoopSettings
<1>1. /\ s \in Tracked => s \in c.supplied
      /\ s \in OpenLoopSettings => "open_loop" \in c.supplied
  BY SuppliedAre
<1>2. CASE Merged.mode = "open_loop"
  <2>1. c.supplied \cap {"concurrency", "requests"} = {}
    BY <1>2 DEF ValidLoad
  <2>2. "concurrency" \in Tracked /\ "requests" \in Tracked
    BY DEF Tracked
  <2> QED
    BY <1>1, <1>2, <2>1, <2>2
<1>3. CASE Merged.mode # "open_loop"
  <2>1. "open_loop" \notin c.supplied
    BY <1>3 DEF ValidLoad
  <2> QED
    BY <1>1, <1>3, <2>1
<1> QED
  BY <1>2, <1>3

(* the settings of the load mode that is not chosen                        *)
Others == IF Merged.mode = "open_loop" THEN {"concurrency", "requests", "concurrency_values"}
          ELSE OpenLoopSettings \cup {"request_rate_values"}

Varied == {s \in DOMAIN AxisOf : ~IsRun /\ Merged[AxisOf[s]] # <<>>}

Choice(s) == {Merged[AxisOf[s]][i] : i \in DOMAIN Merged[AxisOf[s]]}

Chosen(k) == [s \in Varied |-> points[k].values[s]]

(* PrecedenceKept, its parts named                                         *)
SourcesKept ==
  \A k \in DOMAIN points, s \in DOMAIN Default :
    points[k].values[s] = IF s \in Varied THEN Chosen(k)[s] ELSE Overlay(Fixed, Merged)[s]

AllCombined ==
  {Chosen(k) : k \in DOMAIN points} =
    {f \in [Varied -> UNION {Choice(s) : s \in Varied}] : \A s \in Varied : f[s] \in Choice(s)}

PointsDiffer == \A j, k \in DOMAIN points : Chosen(j) = Chosen(k) => j = k

NothingIgnored ==
  \A s \in Others :
    s \in DOMAIN flags \cup DOMAIN file.given => s \in Axes /\ (IsRun \/ Merged[s] = <<>>)

LEMMA PrecedenceParts ==
  PrecedenceKept <=>
    (step = "validated" => SourcesKept /\ AllCombined /\ PointsDiffer /\ NothingIgnored)
  BY DEF PrecedenceKept, SourcesKept, AllCombined, PointsDiffer, NothingIgnored, Others, Varied,
         Choice, Chosen, Fixed, Merged

LEMMA RunPrecedence ==
  ASSUME ConfigInv, step = "validated", IsRun
  PROVE  SourcesKept /\ AllCombined /\ PointsDiffer /\ NothingIgnored
<1>1. PICK c, v : c = Resolved /\ v = Resolved.values
  OBVIOUS
<1>2. /\ file \in Files /\ flags \in Flaggings /\ config = c /\ points = <<c>>
      /\ ValidStatic(c)
  BY <1>1 DEF ConfigInv, PlanOrRunAccepted, IsRun
<1>3. DOMAIN points = {1} /\ points[1] = c
  BY <1>2
<1>4. Varied = {}
  BY DEF Varied
<1>5. /\ \A s \in Names : v[s] = Overlay(Fixed, Merged)[s]
      /\ v.mode = Merged.mode
  BY <1>1, <1>2, ValuesAre
<1>6. SourcesKept
  BY <1>1, <1>3, <1>4, <1>5 DEF SourcesKept, Names
<1>7. AllCombined
  <2>1. PICK e : e = [s \in Varied |-> points[1].values[s]]
    OBVIOUS
  <2>2. {Chosen(k) : k \in DOMAIN points} = {e}
    BY <1>3, <2>1 DEF Chosen
  <2>3. PICK U : U = UNION {Choice(s) : s \in Varied}
    OBVIOUS
  <2>4. \A f \in [Varied -> U] : f = e
    BY <1>4, <2>1
  <2>5. e \in [Varied -> U]
    BY <1>4, <2>1
  <2>6. {f \in [Varied -> U] : \A s \in Varied : f[s] \in Choice(s)} = {e}
    BY <1>4, <2>4, <2>5
  <2> QED
    BY <2>2, <2>3, <2>6 DEF AllCombined
<1>8. PointsDiffer
  BY <1>3 DEF PointsDiffer
<1>9. NothingIgnored
  <2>1. ValidLoad(c)
    BY <1>2 DEF ValidStatic, Valid
  <2>2. ASSUME NEW s \in Others, s \in DOMAIN flags \cup DOMAIN file.given
        PROVE  s \in Axes
    <3>1. /\ Merged.mode = "open_loop" => s \notin {"concurrency", "requests"}
          /\ Merged.mode # "open_loop" => s \notin OpenLoopSettings
      BY <1>1, <1>5, <2>1, <2>2, OthersMissing
    <3> QED
      BY <2>2, <3>1 DEF Others, Axes
  <2> QED
    BY <2>2 DEF NothingIgnored
<1> QED
  BY <1>6, <1>7, <1>8, <1>9

(* What is known of the points of an accepted sweep.                       *)
LEMMA SweepAccepted ==
  ASSUME ConfigInv, step = "validated", ~IsRun, NEW c, c = Resolved, NEW v, v = c.values
  PROVE  /\ file \in Files /\ flags \in Flaggings
         /\ points = Points(c) /\ DOMAIN points = 1 .. PointCount(v)
         /\ PlanAccepted(c) /\ Settled(v) /\ Applicable(v)
         /\ \A s \in Swept(v) : ValidAxis(v[AxisOf[s]])
         /\ Swept(v) = Varied /\ \A s \in Varied : v[AxisOf[s]] = Merged[AxisOf[s]]
<1>1. /\ file \in Files /\ flags \in Flaggings /\ config = c /\ points = Points(c)
      /\ PlanOrRunAccepted
  BY DEF ConfigInv
<1>2. Command \in {"sweep", "calibrate-client"}
  BY InputAssumption DEF ConfigInv, IsRun, Command
<1>3. PlanAccepted(c)
  BY <1>1, <1>2 DEF PlanOrRunAccepted
<1>4. Applicable(v) /\ \A a \in Axes : ValidAxis(v[a])
  BY <1>3 DEF PlanAccepted
<1>5. Settled(v) /\ \A a \in Axes : v[a] = Merged[a]
  BY <1>1, ValuesAre
<1>6. \A s \in DOMAIN AxisOf : AxisOf[s] \in Axes
  BY AxisNames
<1>7. DOMAIN Points(c) = 1 .. PointCount(v)
  BY DEF Points
<1>8. Swept(v) = Varied
  BY <1>5, <1>6 DEF Swept, Varied
<1> QED
  BY <1>1, <1>3, <1>4, <1>5, <1>6, <1>7, <1>8 DEF Swept

LEMMA SweepPrecedence ==
  ASSUME ConfigInv, step = "validated", ~IsRun
  PROVE  SourcesKept /\ AllCombined /\ PointsDiffer /\ NothingIgnored
<1>1. PICK c : c = Resolved
  OBVIOUS
<1>2. PICK v : v = c.values
  OBVIOUS
<1>3. /\ file \in Files /\ flags \in Flaggings
      /\ points = Points(c) /\ DOMAIN points = 1 .. PointCount(v)
      /\ PlanAccepted(c) /\ Settled(v) /\ Applicable(v)
      /\ \A s \in Swept(v) : ValidAxis(v[AxisOf[s]])
      /\ Swept(v) = Varied /\ \A s \in Varied : v[AxisOf[s]] = Merged[AxisOf[s]]
  BY <1>1, <1>2, SweepAccepted
<1>4. Configured(c, v)
  BY <1>1, <1>2, SuppliedAre DEF Configured
<1>5. ASSUME NEW k \in DOMAIN points
      PROVE  /\ \A s \in Names \ Varied : points[k].values[s] = v[s]
             /\ \A s \in Varied :
                  /\ Position(v, k, s) \in DOMAIN Merged[AxisOf[s]]
                  /\ points[k].values[s] = Merged[AxisOf[s]][Position(v, k, s)]
             /\ points[k].supplied = c.supplied
  <2>1. k \in 1 .. PointCount(v)
    BY <1>3
  <2>2. PICK u : u = Points(c)[k].values
    OBVIOUS
  <2>3. /\ \A s \in Names \ Swept(v) : u[s] = v[s]
        /\ \A s \in Swept(v) : /\ Position(v, k, s) \in DOMAIN v[AxisOf[s]]
                               /\ u[s] = v[AxisOf[s]][Position(v, k, s)]
        /\ Points(c)[k].supplied = c.supplied
    <3>1. Settled(v) /\ Applicable(v)
      BY <1>3
    <3> QED
      BY <1>4, <2>1, <2>2, <3>1, PointIs
  <2> QED
    BY <1>3, <2>2, <2>3
<1>6. /\ \A s \in Names : v[s] = Overlay(Fixed, Merged)[s]
      /\ v.mode = Merged.mode
      /\ \A a \in Axes : v[a] = Merged[a]
  BY <1>1, <1>2, <1>3, ValuesAre
<1>7. SourcesKept
  <2>1. \A k \in DOMAIN points, s \in Varied : Chosen(k)[s] = points[k].values[s]
    BY DEF Chosen
  <2> QED
    BY <1>5, <1>6, <2>1 DEF SourcesKept, Names
<1>8. PointsDiffer
  <2> SUFFICES ASSUME NEW j \in DOMAIN points, NEW k \in DOMAIN points, Chosen(j) = Chosen(k)
               PROVE  j = k
    BY DEF PointsDiffer
  <2>1. ASSUME NEW s \in Varied PROVE Position(v, j, s) = Position(v, k, s)
    <3>1. Chosen(j)[s] = points[j].values[s] /\ Chosen(k)[s] = points[k].values[s]
      BY DEF Chosen
    <3>2. PICK a, p, q : a = Merged[AxisOf[s]] /\ p = Position(v, j, s) /\ q = Position(v, k, s)
      OBVIOUS
    <3>3. p \in DOMAIN a /\ q \in DOMAIN a /\ a[p] = a[q]
      BY <1>5, <3>1, <3>2
    <3>4. ValidAxis(a)
      BY <1>3, <3>2
    <3> QED
      BY <3>2, <3>3, <3>4 DEF ValidAxis
  <2> QED
    BY <1>3, <2>1, PositionsEqual
<1>9. AllCombined
  <2>1. PICK U : U = UNION {Choice(s) : s \in Varied}
    OBVIOUS
  <2>2. PICK F : F = {f \in [Varied -> U] : \A s \in Varied : f[s] \in Choice(s)}
    OBVIOUS
  <2>3. ASSUME NEW k \in DOMAIN points PROVE Chosen(k) \in F
    <3>1. ASSUME NEW s \in Varied PROVE points[k].values[s] \in Choice(s)
      BY <1>5 DEF Choice
    <3>2. Chosen(k) = [s \in Varied |-> points[k].values[s]]
      BY DEF Chosen
    <3>3. \A s \in Varied : points[k].values[s] \in U
      BY <2>1, <3>1
    <3>4. PICK e : e = Chosen(k)
      OBVIOUS
    <3>5. e \in [Varied -> U] /\ \A s \in Varied : e[s] \in Choice(s)
      BY <3>1, <3>2, <3>3, <3>4
    <3> QED
      BY <2>2, <3>4, <3>5
  <2>4. ASSUME NEW f \in F PROVE \E k \in DOMAIN points : f = Chosen(k)
    <3>1. f \in [Varied -> U] /\ \A s \in Varied : f[s] \in Choice(s)
      BY <2>2
    <3>2. \A s \in Varied : \E i \in DOMAIN Merged[AxisOf[s]] : f[s] = Merged[AxisOf[s]][i]
      BY <3>1 DEF Choice
    <3>3. PICK g : g = [s \in Varied |->
                          CHOOSE i \in DOMAIN Merged[AxisOf[s]] : f[s] = Merged[AxisOf[s]][i]]
      OBVIOUS
    <3>4. \A s \in Varied : g[s] \in DOMAIN Merged[AxisOf[s]] /\ f[s] = Merged[AxisOf[s]][g[s]]
      BY <3>2, <3>3
    <3>5. \A s \in Swept(v) : g[s] \in DOMAIN v[AxisOf[s]]
      BY <1>3, <3>4
    <3>6. PICK k \in 1 .. PointCount(v) : \A s \in Swept(v) : Position(v, k, s) = g[s]
      BY <1>3, <3>5, PositionsReached
    <3>7. k \in DOMAIN points
      BY <1>3
    <3>8. \A s \in Varied : f[s] = points[k].values[s]
      BY <1>3, <1>5, <3>4, <3>6, <3>7
    <3>9. f = [s \in Varied |-> points[k].values[s]]
      BY <3>1, <3>8
    <3> QED
      BY <3>7, <3>9 DEF Chosen
  <2>5. {Chosen(k) : k \in DOMAIN points} = F
    BY <2>3, <2>4
  <2> QED
    BY <2>1, <2>2, <2>5 DEF AllCombined
<1>10. NothingIgnored
  <2>1. 1 \in DOMAIN points
    <3>1. PICK n, o, l : n = Len(Inputs(v)) /\ o = Len(Outputs(v)) /\ l = Len(Loads(v))
      OBVIOUS
    <3>2. n \in Nat \ {0} /\ o \in Nat \ {0} /\ l \in Nat \ {0}
      BY <1>3, <3>1, ListsAre
    <3>3. PICK m : m = n * o
      OBVIOUS
    <3>4. m \in Nat \ {0}
      BY <3>2, <3>3
    <3>5. m * l \in Nat \ {0}
      BY <3>2, <3>4
    <3>6. PointCount(v) = m * l
      BY <3>1, <3>3 DEF PointCount
    <3> QED
      BY <1>3, <3>5, <3>6
  <2>2. PICK p : p = points[1]
    OBVIOUS
  <2>3. ValidLoad(p)
    <3>1. DOMAIN Points(c) = DOMAIN points
      BY <1>3
    <3>2. ValidStatic(Points(c)[1])
      BY <1>3, <2>1, <3>1 DEF PlanAccepted
    <3> QED
      BY <1>3, <2>2, <3>2 DEF ValidStatic, Valid
  <2>4. p.supplied = c.supplied /\ p.values.mode = Merged.mode
    <3>1. "mode" \in Names \ Varied
      BY AxisNames, NamesAre DEF Varied
    <3>2. p.supplied = c.supplied /\ p.values["mode"] = v["mode"]
      BY <1>5, <2>1, <2>2, <3>1
    <3> QED
      BY <1>6, <3>2
  <2>5. /\ Merged.mode = "closed_loop" => Merged["request_rate_values"] = <<>>
        /\ Merged.mode = "open_loop" => Merged["concurrency_values"] = <<>>
        /\ Merged.mode \in {"closed_loop", "open_loop"}
    BY <1>3, <1>6 DEF Applicable, Axes
  <2>6. ASSUME NEW s \in Others, s \in DOMAIN flags \cup DOMAIN file.given
        PROVE  s \in Axes /\ Merged[s] = <<>>
    <3>1. /\ Merged.mode = "open_loop" => s \notin {"concurrency", "requests"}
          /\ Merged.mode # "open_loop" => s \notin OpenLoopSettings
      BY <1>1, <2>3, <2>4, <2>6, OthersMissing
    <3> QED
      BY <2>5, <2>6, <3>1 DEF Others, Axes
  <2> QED
    BY <2>6 DEF NothingIgnored
<1> QED
  BY <1>7, <1>8, <1>9, <1>10

LEMMA PrecedenceIs == CommandInv => PrecedenceKept
<1> SUFFICES ASSUME CommandInv PROVE PrecedenceKept
  OBVIOUS
<1>1. ConfigInv
  BY DEF CommandInv
<1>2. ASSUME step = "validated"
      PROVE  SourcesKept /\ AllCombined /\ PointsDiffer /\ NothingIgnored
  <2>1. CASE IsRun
    BY <1>1, <1>2, <2>1, RunPrecedence
  <2>2. CASE ~IsRun
    BY <1>1, <1>2, <2>2, SweepPrecedence
  <2> QED
    BY <2>1, <2>2
<1> QED
  BY <1>2, PrecedenceParts

(* Every setting of what is about to run comes from where it should, the   *)
(* points are the combinations of the axes, each once, and nothing that    *)
(* was given is ignored (README.md:109-113, 244-247, 505-508).             *)
THEOREM PrecedenceKeptCorrect == Spec => []PrecedenceKept
  BY CommandInvariant, PrecedenceIs, PTL

=============================================================================
