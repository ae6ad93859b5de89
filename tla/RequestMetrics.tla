--------------------------- MODULE RequestMetrics ---------------------------
(***************************************************************************)
(* The metrics of one request (src/internal/metrics/calculate.go) as       *)
(* functions of its observation:                                           *)
(*   firstByte, headers, firstEvent, firstContent, lastContent, completed  *)
(*            offsets from RequestStartedAt, NoTime for an absent pointer  *)
(*   events   StreamEvents: [at, content, ids, tokens]                     *)
(*   usage    the server's output token count, NoUsage when none was seen  *)
(*   requested, invalid, through    TokenTiming                            *)
(*   error    Observation.Error, "none" when empty                         *)
(* Offsets are readings of one monotonic clock, so none is negative.       *)
(***************************************************************************)
EXTENDS Integers, Sequences, SequencesExt

NoTime   == -1
NoUsage  == -1
NoWindow == 0

StreamEvent == [at : Nat, content : BOOLEAN, ids : BOOLEAN, tokens : Nat]

TypedObservation(o) ==
  /\ \A offset \in {o.firstByte, o.headers, o.firstContent, o.lastContent, o.completed} :
       offset \in Nat \cup {NoTime}
  /\ o.events \in Seq(StreamEvent)
  /\ o.usage \in Nat \cup {NoUsage}
  /\ {o.requested, o.invalid, o.through} \subseteq BOOLEAN

(* the events that carry content, and those that carry tokens, in order    *)
ContentEvents(o) ==
  FoldLeft(LAMBDA kept, e : IF e.content THEN Append(kept, e) ELSE kept, <<>>, o.events)
TokenEvents(o) ==
  FoldLeft(LAMBDA kept, e : IF e.tokens # 0 THEN Append(kept, e) ELSE kept, <<>>, o.events)

Total(numbers)    == FoldLeft(+, 0, numbers)
ObservedTokens(o) == Total([i \in DOMAIN o.events |-> o.events[i].tokens])

(* the distances between neighbours                                        *)
Gaps(events) ==
  [i \in 1 .. Len(events) - 1 |-> events[i + 1].at - events[i].at]

Ordered(events) == \A i \in 1 .. Len(events) - 1 : events[i].at <= events[i + 1].at

(***************************************************************************)
(* Inter-token latency is published only when every token's arrival was    *)
(* seen on its own                                                         *)
(***************************************************************************)

CountsConsistent(o) ==
  \A i \in DOMAIN o.events : o.events[i].tokens >= 0 /\ (o.events[i].ids \/ o.events[i].tokens = 0)

(* Wrong: a batch of tokens counts as one arrival                          *)
SomeTokenPerEvent(o) ==
  \A i \in DOMAIN TokenEvents(o) : TokenEvents(o)[i].tokens >= 1

OneTokenPerEvent(o) ==
  \A i \in DOMAIN TokenEvents(o) : TokenEvents(o)[i].tokens = 1

CompletedCleanly(o) == o.error = "none" /\ o.through

ITLAvailable(o) ==
  /\ o.requested
  /\ ~o.invalid
  /\ CompletedCleanly(o)
  /\ o.usage # NoUsage
  /\ o.usage >= 2
  /\ CountsConsistent(o)
  /\ ObservedTokens(o) = o.usage
  /\ OneTokenPerEvent(o)
  /\ Len(TokenEvents(o)) >= 2
  /\ Ordered(TokenEvents(o))

InterTokenLatency(o) == IF ITLAvailable(o) THEN Gaps(TokenEvents(o)) ELSE <<>>

(***************************************************************************)
(* Inter-chunk latency and the decode window                               *)
(***************************************************************************)

InterChunkLatency(o) ==
  IF Len(ContentEvents(o)) >= 2 /\ Ordered(ContentEvents(o)) THEN Gaps(ContentEvents(o)) ELSE <<>>

(* time per output token and the decode rate divide this window            *)
DecodeWindow(o) ==
  IF /\ o.usage # NoUsage
     /\ o.usage > 1
     /\ Len(ContentEvents(o)) >= 2
     /\ o.firstContent # NoTime
     /\ o.lastContent # NoTime
     /\ o.lastContent > o.firstContent
  THEN o.lastContent - o.firstContent
  ELSE NoWindow

(***************************************************************************)
(* Scalars: a fraction of integers, or Unavailable                         *)
(***************************************************************************)

Unavailable == <<>>

TimePerOutputToken(o) ==
  IF DecodeWindow(o) = NoWindow THEN Unavailable ELSE <<DecodeWindow(o), o.usage - 1>>

DecodeRate(o) ==
  IF DecodeWindow(o) = NoWindow THEN Unavailable ELSE <<o.usage - 1, DecodeWindow(o)>>

OutputRate(o) ==
  IF o.usage # NoUsage /\ o.completed # NoTime /\ o.completed > 0
  THEN <<o.usage, o.completed>> ELSE Unavailable

(* a duration from RequestStartedAt                                        *)
Elapsed(offset) == IF offset = NoTime THEN Unavailable ELSE <<offset, 1>>

Calculate(o) ==
  [headers |-> Elapsed(o.headers),
   ttfb    |-> Elapsed(o.firstByte),
   ttft    |-> Elapsed(o.firstContent),
   ttlt    |-> Elapsed(o.lastContent),
   e2e     |-> Elapsed(o.completed),
   tpot    |-> TimePerOutputToken(o),
   output  |-> OutputRate(o),
   decode  |-> DecodeRate(o),
   itl     |-> InterTokenLatency(o),
   icl     |-> InterChunkLatency(o)]
=============================================================================
