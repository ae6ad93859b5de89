--------------------------- MODULE WorkloadBuilder ---------------------------
(***************************************************************************)
(* The preparation of a prompt with an exact number of rendered input      *)
(* tokens: DeterministicBuilder.Build (src/internal/workload/builder.go)   *)
(* over VLLMTokenizer (src/internal/workload/vllm.go).                     *)
(*                                                                         *)
(* The tokenizer service answers every call as it likes: neither additive  *)
(* counts nor a stable max_model_len is assumed.  A prompt is the sequence *)
(* of the blocks it was put together from.  A call fails when it cannot be *)
(* sent, when its context has ended, or when its answer is refused by      *)
(* encode.                                                                 *)
(***************************************************************************)
EXTENDS Integers, Sequences

CONSTANTS
  Probes,       (* calls of Initialize                                     *)
  Atoms,        (* Len(deterministicAtoms)                                 *)
  Fragments,    (* Len(refinementFragments)                                *)
  MaxCount,     (* bound: the counts the service answers with              *)
  Lengths       (* the values of max_model_len the service answers with    *)

ASSUME BuilderAssumption ==
  /\ Probes \in Nat /\ Atoms \in Nat /\ Fragments \in Nat
  /\ MaxCount \in Nat
  /\ Lengths \subseteq Int

VARIABLES
  spec,         (* WorkloadSpec: target, output                            *)
  bStep,        (* "idle", the loop Build is in, "prepared" or "refused"   *)
  trial,        (* the calls answered within this loop                     *)
  size,         (* Build's size                                            *)
  minimum,      (* the count of the empty prompt                           *)
  best,         (* bestPrompt and bestCount                                *)
  maxLength,    (* t.maxLength, 0 before the first observation             *)
  prepared,     (* the prompt that Build returns                           *)
  (* history *)
  answered,     (* the prompt and the count of the last answer             *)
  lengths       (* every max_model_len answered                            *)

answers     == <<answered, lengths>>
builderVars == <<spec, bStep, trial, size, minimum, best, maxLength, prepared, answers>>

Empty   == <<>>
NoSpec  == [target |-> 0, output |-> 0]
Nothing == [prompt |-> Empty, count |-> 0]

BuilderInit ==
  /\ spec = NoSpec
  /\ bStep = "idle"
  /\ trial = 0
  /\ size = 0
  /\ minimum = 0
  /\ best = Nothing
  /\ maxLength = 0
  /\ prepared = Empty
  /\ answered = Nothing
  /\ lengths = {}

(* prepareWorkload, with an accepted configuration                         *)
StartBuild(target, output) ==
  /\ bStep = "idle"
  /\ spec' = [target |-> target, output |-> output]
  /\ bStep' = IF Probes = 0 THEN "minimum" ELSE "probe"
  /\ UNCHANGED <<trial, size, minimum, best, maxLength, prepared, answers>>

(***************************************************************************)
(* One call of the tokenizer                                               *)
(***************************************************************************)

(* Wrong: a changed max_model_len is taken over                            *)
LengthPositive(length) == length > 0

(* observeMaxLength                                                        *)
LengthAccepted(length) == length > 0 /\ maxLength \in {0, length}

Answer(prompt, count, length) ==
  /\ answered' = [prompt |-> prompt, count |-> count]
  /\ lengths' = lengths \cup {length}

(* Encode returns the count; the caller goes on                            *)
Counted(prompt, count, length) ==
  /\ Answer(prompt, count, length)
  /\ LengthAccepted(length)
  /\ maxLength' = length

Refuse ==
  /\ bStep' = "refused"
  /\ UNCHANGED <<spec, trial, size, minimum, best, prepared>>

(* any call may end the build                                              *)
CallFails ==
  /\ bStep \in {"probe", "minimum", "atoms", "blocks", "suffix"}
  /\ \/ UNCHANGED <<maxLength, answers>>
     \/ /\ \E length \in Lengths : ~LengthAccepted(length) /\ Answer(Empty, 0, length)
        /\ UNCHANGED maxLength
  /\ Refuse

(***************************************************************************)
(* Build                                                                   *)
(***************************************************************************)

Prepare(prompt) ==
  /\ bStep' = "prepared"
  /\ prepared' = prompt
  /\ UNCHANGED <<spec, trial, size, minimum, best>>

HighestPowerOfTwo(value) ==
  CHOOSE p \in {2 ^ k : k \in 0 .. value} : p <= value /\ value < 2 * p

(* the next loop that has a call to make                                   *)
LoopAfter(loop, rest) ==
  IF loop = "atoms" /\ rest > 0 /\ Fragments > 0 THEN "blocks"
  ELSE IF loop = "suffix" \/ Fragments = 0 THEN "refused" ELSE "suffix"

Probe ==
  /\ bStep = "probe"
  /\ \E count \in 0 .. MaxCount, length \in Lengths : Counted(Empty, count, length)
  /\ IF trial + 1 < Probes
     THEN trial' = trial + 1 /\ UNCHANGED bStep
     ELSE trial' = 0 /\ bStep' = "minimum"
  /\ UNCHANGED <<spec, size, minimum, best, prepared>>

FitsModel(length) == spec.target + spec.output <= length

(* the empty prompt: too long already, just right, or to be filled up      *)
CountMinimum ==
  /\ bStep = "minimum"
  /\ \E count \in 0 .. MaxCount, length \in Lengths :
       /\ Counted(Empty, count, length)
       /\ \/ /\ spec.target < count \/ ~FitsModel(length)
             /\ Refuse
          \/ /\ spec.target = count /\ FitsModel(length)
             /\ Prepare(Empty)
          \/ /\ count < spec.target /\ FitsModel(length)
             /\ minimum' = count
             /\ best' = [prompt |-> Empty, count |-> count]
             /\ size' = HighestPowerOfTwo(spec.target - count)
             /\ bStep' = IF Atoms > 0 THEN "atoms" ELSE LoopAfter("atoms", size')
             /\ UNCHANGED <<spec, trial, prepared>>

Improves(count) == best.count < count /\ count < spec.target

(* the prompt a trial counts, complete                                     *)
Candidate ==
  IF bStep = "atoms" THEN << <<"atom", trial + 1, spec.target - minimum>> >>
  ELSE Append(best.prompt, <<"fragment", trial + 1, IF bStep = "blocks" THEN size ELSE 1>>)

Calls == IF bStep = "atoms" THEN Atoms ELSE Fragments

(* Wrong: a block that helped nothing is tried again                       *)
SameSize == size

(* blocks halve                                                            *)
NextSize == IF bStep = "blocks" THEN size \div 2 ELSE size

(* the loops of Build: over the atoms, over halving blocks, over suffixes  *)
TryCandidate ==
  /\ bStep \in {"atoms", "blocks", "suffix"}
  /\ \E count \in 0 .. MaxCount, length \in Lengths :
       /\ Counted(Candidate, count, length)
       /\ \/ count = spec.target /\ Prepare(Candidate)
          \/ /\ count # spec.target
             /\ best' = IF Improves(count) /\ bStep # "suffix"
                        THEN [prompt |-> Candidate, count |-> count] ELSE best
             /\ IF trial + 1 < Calls
                THEN trial' = trial + 1 /\ UNCHANGED <<bStep, size>>
                ELSE /\ trial' = 0
                     /\ size' = NextSize
                     /\ bStep' = IF bStep = "blocks" /\ size' > 0 THEN "blocks"
                                 ELSE LoopAfter(bStep, size)
             /\ UNCHANGED <<spec, minimum, prepared>>

BuilderStep == Probe \/ CountMinimum \/ TryCandidate \/ CallFails

BuilderSpec == BuilderInit /\ [][\E t, o \in Nat \ {0} : StartBuild(t, o) \/ BuilderStep]_builderVars

(***************************************************************************)
(* Properties                                                              *)
(***************************************************************************)

(* The prompt that a run sends is the very prompt the tokenizer was last   *)
(* asked about, and its count was the target: no count is derived from the *)
(* counts of parts.  The model's context had one length throughout, and it *)
(* holds the input and the output (builder.go:85, vllm.go:132).            *)
PreparedIsExact ==
  bStep = "prepared" =>
    /\ answered = [prompt |-> prepared, count |-> spec.target]
    /\ lengths = {maxLength}
    /\ spec.target + spec.output <= maxLength
=============================================================================
