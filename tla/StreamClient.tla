---------------------------- MODULE StreamClient ----------------------------
(***************************************************************************)
(* One streaming request as the harness sees it: Client.Execute and        *)
(* parseSSE (src/internal/openai/client.go, stream.go) called by           *)
(* Runner.RunRequest (src/internal/benchmark/runner.go).                   *)
(*                                                                         *)
(* The response is a queue of lines that somebody else writes; the first-  *)
(* byte callback runs on the transport's goroutine, beside Execute.  Time  *)
(* is an offset from RequestStartedAt.  Sizes are in units in which the    *)
(* field name of a data line is 1.                                         *)
(***************************************************************************)
EXTENDS RequestMetrics

CONSTANTS
  MaxFrame,   (* maxSSEFrameBytes                                          *)
  Horizon     (* bound of the clock, for model checking only               *)

VARIABLES
  now,
  cancelled,  (* ctx.Err() # nil                                           *)
  (* the connection *)
  response,   (* "none" until the headers are on the wire, "ok", "error"   *)
  stream,     (* the body's end: "open", "closed" (EOF) or "broken"        *)
  sent,       (* lines written so far                                      *)
  read,       (* how many of them the scanner has taken                    *)
  heardByte,  (* firstByteAt of the httptrace callback, or NoTime          *)
  (* Execute *)
  pc,         (* "roundTrip", "reading", "discarding", "closing",          *)
              (* "leaving" or "returned"                                   *)
  frame,      (* dataLines                                                 *)
  frameBytes,
  seenDone,
  err,        (* returnErr, as the kind of error                           *)
  obs         (* the observation                                           *)

connectionVars == <<response, stream, sent>>
parserVars     == <<read, frame, frameBytes, seenDone>>
clientVars     == <<heardByte, pc, parserVars, err, obs>>

ClientInit(requested) ==
  /\ now = 0
  /\ cancelled = FALSE
  /\ read = 0
  /\ heardByte = NoTime
  /\ pc = "roundTrip"
  /\ frame = <<>>
  /\ frameBytes = 0
  /\ seenDone = FALSE
  /\ err = "none"
  /\ obs = [firstByte |-> NoTime, headers |-> NoTime, firstEvent |-> NoTime,
            firstContent |-> NoTime, lastContent |-> NoTime, completed |-> NoTime,
            events |-> <<>>, usage |-> NoUsage, requested |-> requested,
            invalid |-> FALSE, through |-> FALSE, error |-> "none"]

Tick ==
  /\ now < Horizon
  /\ pc # "returned"
  /\ now' = now + 1
  /\ UNCHANGED <<cancelled, connectionVars, clientVars>>

(* the request deadline, or the phase's cancellation; nothing asks for it  *)
(* once the body has been read                                             *)
CancelRequest ==
  /\ ~cancelled
  /\ pc \in {"roundTrip", "reading", "discarding"}
  /\ cancelled' = TRUE
  /\ UNCHANGED <<now, connectionVars, clientVars>>

(***************************************************************************)
(* The round trip                                                          *)
(***************************************************************************)

(* Wrong: the callback writes the observation itself                       *)
FirstByteIntoObservation ==
  /\ response # "none"
  /\ heardByte = NoTime
  /\ heardByte' = now
  /\ obs' = [obs EXCEPT !.firstByte = now]
  /\ UNCHANGED <<now, cancelled, connectionVars, pc, parserVars, err>>

(* may come after Execute has given up                                     *)
GotFirstResponseByte ==
  /\ response # "none"
  /\ heardByte = NoTime
  /\ heardByte' = now
  /\ UNCHANGED <<now, cancelled, connectionVars, pc, parserVars, err, obs>>

WithFirstByte(o) == [o EXCEPT !.firstByte = heardByte]

DoSucceeds ==
  /\ pc = "roundTrip"
  /\ heardByte # NoTime
  /\ obs' = [WithFirstByte(obs) EXCEPT !.headers = now]
  /\ pc' = IF response = "ok" THEN "reading" ELSE "discarding"
  /\ UNCHANGED <<now, cancelled, connectionVars, heardByte, parserVars, err>>

(* Wrong: a round trip that failed has heard nothing                       *)
DoFailsUnheard ==
  /\ pc = "roundTrip"
  /\ cancelled \/ stream = "broken"
  /\ err' = "send"
  /\ pc' = "leaving"
  /\ UNCHANGED <<now, cancelled, connectionVars, heardByte, parserVars, obs>>

DoFails ==
  /\ pc = "roundTrip"
  /\ cancelled \/ stream = "broken"
  /\ obs' = WithFirstByte(obs)
  /\ err' = "send"
  /\ pc' = "leaving"
  /\ UNCHANGED <<now, cancelled, connectionVars, heardByte, parserVars>>

(***************************************************************************)
(* parseSSE                                                                *)
(***************************************************************************)

(* the data of a frame is its lines joined with a newline: one payload and *)
(* any number of lines of white space are one JSON text                    *)
IsPadding(body) == body.type = "pad"
IsDone(f)       == Len(f) = 1 /\ f[1].type = "done"
Decodes(f)      == \E i \in DOMAIN f :
                     f[i].type = "json" /\ \A j \in DOMAIN f \ {i} : IsPadding(f[j])
EventOf(f)      == f[CHOOSE i \in DOMAIN f : ~IsPadding(f[i])].event

(* the scanner wants a line and its newline in its buffer                  *)
Scannable(body) == body.size + 1 < MaxFrame

(* Wrong: the newlines between the lines are not counted                   *)
JoinedWithoutNewlines(body) == frameBytes + body.size

JoinedBytes(body) == frameBytes + body.size + (IF frame = <<>> THEN 0 ELSE 1)

FrameFits(body) == JoinedBytes(body) <= MaxFrame

(***************************************************************************)
(* The data handler of Execute                                             *)
(***************************************************************************)

NegativeUsage == -2

(* Wrong: events without content are not recorded                          *)
AppendContentEvent(o, event) ==
  IF ~event.content THEN o
  ELSE [o EXCEPT !.firstEvent   = IF @ = NoTime THEN now ELSE @,
                 !.firstContent = IF @ = NoTime THEN now ELSE @,
                 !.lastContent  = now,
                 !.events       = Append(@, event)]

(* Wrong: every event moves the last content timestamp                     *)
AppendLastEvent(o, event) ==
  [o EXCEPT !.firstEvent   = IF @ = NoTime THEN now ELSE @,
            !.firstContent = IF event.content /\ @ = NoTime THEN now ELSE @,
            !.lastContent  = now,
            !.events       = Append(@, event)]

AppendStreamEvent(o, event) ==
  [o EXCEPT !.firstEvent   = IF @ = NoTime THEN now ELSE @,
            !.firstContent = IF event.content /\ @ = NoTime THEN now ELSE @,
            !.lastContent  = IF event.content THEN now ELSE @,
            !.events       = Append(@, event)]

DoneEvent == [at |-> now, content |-> FALSE, ids |-> FALSE, tokens |-> 0]

(* only the choice with index 0 counts                                     *)
StreamEventOf(e) ==
  IF e.index = 0
  THEN [at |-> now, content |-> e.content, ids |-> e.ids, tokens |-> e.tokens]
  ELSE DoneEvent

WithTokenIDs(o, e) == [o EXCEPT !.invalid = @ \/ (e.index = 0 /\ e.negative)]

WithUsage(o, e) == IF e.usage = NoUsage THEN o ELSE [o EXCEPT !.usage = e.usage]

UsageRejected(e) == e.usage = NegativeUsage

Handled(f) ==
  CASE f = <<>>         -> [obs |-> obs, err |-> "none", done |-> seenDone]
    [] f # <<>> /\ seenDone -> [obs |-> obs, err |-> "dataAfterDone", done |-> TRUE]
    [] ~seenDone /\ IsDone(f) -> [obs |-> AppendStreamEvent(obs, DoneEvent), err |-> "none", done |-> TRUE]
    [] f # <<>> /\ ~seenDone /\ ~IsDone(f) /\ ~Decodes(f) -> [obs |-> obs, err |-> "decode", done |-> FALSE]
    [] OTHER ->
         LET e == EventOf(f)
             o == WithTokenIDs(obs, e)
         IN  IF UsageRejected(e)
             THEN [obs |-> o, err |-> "usage", done |-> FALSE]
             ELSE [obs |-> AppendStreamEvent(WithUsage(o, e), StreamEventOf(e)),
                   err |-> "none", done |-> FALSE]

(***************************************************************************)
(* The loop over the lines                                                 *)
(***************************************************************************)

Reading == pc = "reading" /\ read < Len(sent)
Line    == sent[read + 1]

Stop(reason) == err' = reason /\ pc' = "closing"

ReadOtherLine ==
  /\ Reading
  /\ Line.kind = "other"
  /\ read' = read + 1
  /\ UNCHANGED <<now, cancelled, connectionVars, heardByte, pc, frame, frameBytes, seenDone, err, obs>>

ReadDataLine ==
  /\ Reading
  /\ Line.kind = "data"
  /\ read' = read + 1
  /\ IF Scannable(Line.body) /\ FrameFits(Line.body)
     THEN /\ frame' = Append(frame, Line.body)
          /\ frameBytes' = JoinedBytes(Line.body)
          /\ UNCHANGED <<pc, err>>
     ELSE /\ Stop("limit")
          /\ UNCHANGED <<frame, frameBytes>>
  /\ UNCHANGED <<now, cancelled, connectionVars, heardByte, seenDone, obs>>

Dispatch ==
  LET handled == Handled(frame)
  IN  /\ frame' = <<>>
      /\ frameBytes' = 0
      /\ seenDone' = handled.done

ReadBlankLine ==
  /\ Reading
  /\ Line.kind = "blank"
  /\ read' = read + 1
  /\ Dispatch
  /\ obs' = Handled(frame).obs
  /\ IF Handled(frame).err = "none" THEN UNCHANGED <<pc, err>> ELSE Stop(Handled(frame).err)
  /\ UNCHANGED <<now, cancelled, connectionVars, heardByte>>

(* Wrong: the end of the body is the end of the stream                     *)
EndAccepted(handled) == handled.err

(* the end of the body ends the last frame too; without [DONE] the stream  *)
(* is incomplete                                                           *)
EndVerdict(handled) ==
  CASE handled.err # "none" -> handled.err
    [] handled.err = "none" /\ ~handled.done -> "unexpectedEOF"
    [] OTHER -> "none"

ReadEnd ==
  /\ pc = "reading"
  /\ read = Len(sent)
  /\ stream = "closed"
  /\ Dispatch
  /\ Stop(EndVerdict(Handled(frame)))
  /\ obs' = [Handled(frame).obs EXCEPT !.through = (EndVerdict(Handled(frame)) = "none")]
  /\ UNCHANGED <<now, cancelled, connectionVars, heardByte, read>>

(* Wrong: only the connection ends a read                                  *)
ReadFailsWhenBroken ==
  /\ pc = "reading"
  /\ read = Len(sent) /\ stream = "broken"
  /\ Stop("read")
  /\ UNCHANGED <<now, cancelled, connectionVars, heardByte, parserVars, obs>>

(* a cancelled read may still return lines that have arrived               *)
ReadFails ==
  /\ pc = "reading"
  /\ cancelled \/ (read = Len(sent) /\ stream = "broken")
  /\ Stop("read")
  /\ UNCHANGED <<now, cancelled, connectionVars, heardByte, parserVars, obs>>

(* io.Copy to io.Discard                                                   *)
DiscardBody ==
  /\ pc = "discarding"
  /\ cancelled \/ stream # "open"
  /\ Stop("status")
  /\ UNCHANGED <<now, cancelled, connectionVars, heardByte, parserVars, obs>>

(***************************************************************************)
(* The deferred calls, last one first, and RunRequest                      *)
(***************************************************************************)

CloseBody(fails) ==
  /\ pc = "closing"
  /\ err' = IF fails /\ err = "none" THEN "close" ELSE err
  /\ pc' = "leaving"
  /\ UNCHANGED <<now, cancelled, connectionVars, heardByte, parserVars, obs>>

(* Wrong: a stream without content is a success                            *)
ExecuteError(o, e) == e

RunError(o, e) == IF e = "none" /\ ContentEvents(o) = <<>> THEN "noContent" ELSE e

Return ==
  /\ pc = "leaving"
  /\ err' = RunError(obs, err)
  /\ obs' = [obs EXCEPT !.completed = now, !.error = RunError(obs, err)]
  /\ pc' = "returned"
  /\ UNCHANGED <<now, cancelled, connectionVars, heardByte, parserVars>>

ExecuteStep ==
  \/ DoSucceeds \/ DoFails
  \/ ReadOtherLine \/ ReadDataLine \/ ReadBlankLine \/ ReadEnd \/ ReadFails
  \/ DiscardBody
  \/ \E fails \in BOOLEAN : CloseBody(fails)
  \/ Return

ClientStep == Tick \/ CancelRequest \/ GotFirstResponseByte \/ ExecuteStep
=============================================================================
