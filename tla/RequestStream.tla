---------------------------- MODULE RequestStream ----------------------------
(***************************************************************************)
(* A streaming request against a server: the fake server's handler         *)
(* (src/internal/fakeserver/handler.go, config.go) in every configuration  *)
(* its validation accepts, or any other server, which may send anything    *)
(* and stop anywhere.                                                      *)
(***************************************************************************)
EXTENDS StreamClient, FiniteSets

CONSTANTS
  MaxContentChunks,   (* largest -content-chunks of a fixture              *)
  MaxPeerChunks       (* pieces another server writes, at most             *)

(* the fake server's frames fit: the limit of the code is a megabyte       *)
ASSUME RequestStreamAssumption ==
  /\ MaxFrame \in Nat /\ MaxFrame >= 4
  /\ Horizon \in Nat
  /\ MaxContentChunks \in Nat
  /\ MaxPeerChunks \in Nat

VARIABLES
  server,   (* the configuration; fixed                                    *)
  served    (* frames, or pieces, written                                  *)

vars == <<now, cancelled, connectionVars, clientVars, server, served>>

(***************************************************************************)
(* Lines and events                                                        *)
(***************************************************************************)

NoEvent == [index |-> 0, content |-> FALSE, ids |-> FALSE, tokens |-> 0,
            negative |-> FALSE, usage |-> NoUsage]

Json(event) == [type |-> "json", size |-> 2, event |-> event]
Done        == [type |-> "done", size |-> 1, event |-> NoEvent]
Broken      == [type |-> "broken", size |-> 1, event |-> NoEvent]
Pad(n)      == [type |-> "pad", size |-> n, event |-> NoEvent]

Blank      == [kind |-> "blank", body |-> Pad(0)]
Other      == [kind |-> "other", body |-> Pad(0)]
Data(body) == [kind |-> "data", body |-> body]

WriteRawEvent(body) == <<Data(body), Blank>>

(***************************************************************************)
(* The fake server                                                         *)
(***************************************************************************)

ServerModes == {"normal", "noContent", "httpError", "malformedJSON", "eofBeforeDone", "dataAfterDone"}
EvidenceModes == {"disabled", "singleton", "batched", "missing", "mismatch"}

ValidFixture(config) ==
  /\ config.evidence \in {"singleton", "batched", "missing"} => config.completion = config.chunks
  /\ config.evidence = "batched" => config.chunks >= 2
  /\ config.evidence = "missing" => config.chunks >= 1

Fixtures ==
  {config \in [peer : {"fixture"}, mode : ServerModes, evidence : EvidenceModes,
               chunks : 0 .. MaxContentChunks, completion : 0 .. MaxContentChunks,
               valid : BOOLEAN] : ValidFixture(config)}

(* fixtureTokenIDs: how many IDs the chunk carries                         *)
TokenIDs(config, chunk) ==
  CASE config.evidence = "batched" /\ chunk = 1 -> 2
    [] config.evidence = "batched" /\ chunk = 2 -> 0
    [] OTHER -> 1

HasTokenIDs(config, chunk) ==
  /\ config.evidence # "disabled"
  /\ ~(config.evidence = "missing" /\ chunk = 1)

ContentEvent(config, chunk, wants) ==
  LET ids == wants /\ HasTokenIDs(config, chunk)
  IN  [NoEvent EXCEPT !.content = TRUE, !.ids = ids,
                      !.tokens = IF ids THEN TokenIDs(config, chunk) ELSE 0]

UsageEvent(config) ==
  [NoEvent EXCEPT !.usage = IF config.evidence = "mismatch" THEN config.chunks + 1
                            ELSE config.completion]

When(condition, frames) == IF condition THEN frames ELSE <<>>

(* the frames ServeHTTP writes, in order                                   *)
Script(config, wants) ==
  IF config.mode = "malformedJSON" THEN <<Broken>>
  ELSE When(wants /\ config.evidence # "disabled", <<Json(NoEvent)>>)
       \o When(config.mode # "noContent",
               [i \in 1 .. config.chunks |-> Json(ContentEvent(config, i, wants))])
       \o <<Json(NoEvent), Json(UsageEvent(config))>>
       \o When(config.mode # "eofBeforeDone", <<Done>>)
       \o When(config.mode = "dataAfterDone", <<Json(NoEvent)>>)

(* validateRequest, and the configured HTTP error                          *)
Refuses(config) == ~config.valid \/ config.mode = "httpError"

IsFixture == server.peer = "fixture"

(* the next frame is written when the client waits for it: what the client *)
(* does never depends on how far ahead the server is                       *)
Awaited == pc \in {"roundTrip", "reading", "discarding"} /\ read = Len(sent)

SendHeaders ==
  /\ IsFixture
  /\ response = "none"
  /\ stream = "open"
  /\ response' = IF Refuses(server) THEN "error" ELSE "ok"
  /\ stream' = IF Refuses(server) THEN "closed" ELSE "open"
  /\ UNCHANGED <<now, cancelled, sent, clientVars, server, served>>

SendFrame ==
  /\ IsFixture
  /\ Awaited
  /\ response = "ok"
  /\ stream = "open"
  /\ served < Len(Script(server, obs.requested))
  /\ sent' = sent \o WriteRawEvent(Script(server, obs.requested)[served + 1])
  /\ served' = served + 1
  /\ UNCHANGED <<now, cancelled, response, stream, clientVars, server>>

HandlerReturns ==
  /\ IsFixture
  /\ Awaited
  /\ response = "ok"
  /\ stream = "open"
  /\ served = Len(Script(server, obs.requested))
  /\ stream' = "closed"
  /\ UNCHANGED <<now, cancelled, response, sent, clientVars, server, served>>

(* wait: the client has closed the connection                              *)
HandlerAbandons ==
  /\ IsFixture
  /\ Awaited
  /\ cancelled
  /\ stream = "open"
  /\ stream' = "broken"
  /\ UNCHANGED <<now, cancelled, response, sent, clientVars, server, served>>

FixtureStep == SendHeaders \/ SendFrame \/ HandlerReturns \/ HandlerAbandons

(***************************************************************************)
(* Any other server                                                        *)
(***************************************************************************)

Content(tokens) == [NoEvent EXCEPT !.content = TRUE, !.ids = TRUE, !.tokens = tokens]

PeerEvents ==
  {NoEvent, Content(1), Content(2),
   [Content(1) EXCEPT !.content = FALSE, !.negative = TRUE],
   [Content(1) EXCEPT !.index = 1],
   [Content(1) EXCEPT !.usage = 2],
   [NoEvent EXCEPT !.usage = 1],
   [NoEvent EXCEPT !.usage = NegativeUsage]}

PeerPieces ==
  {WriteRawEvent(Json(e)) : e \in PeerEvents}
  \cup {WriteRawEvent(Done), <<Data(Done)>>, <<Blank>>, <<Other>>,
        <<Data(Json(Content(1))), Data(Pad(1))>>,
        <<Data(Pad(2))>>, <<Data(Pad(MaxFrame - 1)), Blank>>}

PeerResponds ==
  /\ ~IsFixture
  /\ response = "none"
  /\ stream = "open"
  /\ response' \in {"ok", "error"}
  /\ UNCHANGED <<now, cancelled, stream, sent, clientVars, server, served>>

PeerSends ==
  /\ ~IsFixture
  /\ Awaited
  /\ response = "ok"
  /\ stream = "open"
  /\ served < MaxPeerChunks
  /\ \E piece \in PeerPieces : sent' = sent \o piece
  /\ served' = served + 1
  /\ UNCHANGED <<now, cancelled, response, stream, clientVars, server>>

PeerEnds ==
  /\ ~IsFixture
  /\ stream = "open"
  /\ Awaited
  /\ stream' \in {"closed", "broken"}
  /\ response = "none" => stream' = "broken"
  /\ UNCHANGED <<now, cancelled, response, sent, clientVars, server, served>>

PeerStep == PeerResponds \/ PeerSends \/ PeerEnds

(***************************************************************************)
(* Specification                                                           *)
(***************************************************************************)

OtherServer == [peer |-> "other", mode |-> "normal", evidence |-> "disabled",
                chunks |-> 0, completion |-> 0, valid |-> TRUE]

Init ==
  /\ server \in Fixtures \cup {OtherServer}
  /\ served = 0
  /\ response = "none"
  /\ stream = "open"
  /\ sent = <<>>
  /\ \E requested \in BOOLEAN : ClientInit(requested)

Next ==
  \/ ClientStep /\ UNCHANGED <<server, served>>
  \/ FixtureStep
  \/ PeerStep

(* goroutines run, the transport reads what arrives and the fixture keeps  *)
(* writing; no other server has to                                         *)
Fairness ==
  /\ WF_vars(ExecuteStep /\ UNCHANGED <<server, served>>)
  /\ WF_vars(GotFirstResponseByte /\ UNCHANGED <<server, served>>)
  /\ WF_vars(FixtureStep)

Spec == Init /\ [][Next]_vars /\ Fairness

(***************************************************************************)
(* Reference definitions: what the lines of a stream mean                  *)
(***************************************************************************)

Ended(parsed) == IF parsed.open = <<>> THEN parsed.ended ELSE Append(parsed.ended, parsed.open)

(* what the lines so far make: the frames that have ended, and the open one *)
ParseLine(parsed, line) ==
  CASE line.kind = "data"  -> [parsed EXCEPT !.open = Append(@, line.body)]
    [] line.kind = "blank" -> [ended |-> Ended(parsed), open |-> <<>>]
    [] OTHER -> parsed

Parsed(lines) == FoldLeft(ParseLine, [ended |-> <<>>, open |-> <<>>], lines)

(* the non-empty frames; the end of the stream ends the last one           *)
Frames(lines) == Ended(Parsed(lines))

JoinedSize(f) == Total([i \in DOMAIN f |-> f[i].size]) + Len(f) - 1

(* one clean answer: events that decode, some content, then [DONE], last   *)
Complete(lines) ==
  LET f == Frames(lines)
  IN  /\ f # <<>>
      /\ IsDone(Last(f))
      /\ \A i \in 1 .. Len(f) - 1 : Decodes(f[i]) /\ EventOf(f[i]).usage # NegativeUsage
      /\ \E i \in 1 .. Len(f) - 1 : EventOf(f[i]).index = 0 /\ EventOf(f[i]).content
      /\ \A i \in DOMAIN f : JoinedSize(f[i]) <= MaxFrame /\ \A j \in DOMAIN f[i] : Scannable(f[i][j])

(***************************************************************************)
(* Properties                                                              *)
(***************************************************************************)

(* A request counts as successful exactly when the server's whole answer   *)
(* was one complete stream and nothing disturbed it: [DONE] last, no data  *)
(* after it, no end without it, every event readable, some content.        *)
StreamVerdict ==
  pc = "returned" =>
    /\ err = "none" => response = "ok" /\ stream = "closed" /\ read = Len(sent) /\ Complete(sent)
    /\ (response = "ok" /\ stream = "closed" /\ read = Len(sent)
        /\ Complete(sent) /\ ~cancelled /\ err # "close") => err = "none"

(* Inter-token latency is published only for a stream whose events, as     *)
(* they were sent, each carried at most one valid token ID and together as *)
(* many as the server says it generated; then there is one gap fewer.      *)
ITLProven ==
  LET f      == Frames(sent)
      events == {i \in DOMAIN f : Decodes(f[i]) /\ EventOf(f[i]).index = 0}
      tokens == {i \in events : EventOf(f[i]).tokens > 0}
  IN  pc = "returned" /\ InterTokenLatency(obs) # <<>> =>
        /\ obs.requested
        /\ Complete(sent)
        /\ \A i \in events : EventOf(f[i]).tokens <= 1 /\ ~EventOf(f[i]).negative
        /\ \E i \in DOMAIN f : Decodes(f[i]) /\ EventOf(f[i]).usage = Cardinality(tokens)
        /\ Len(InterTokenLatency(obs)) = Cardinality(tokens) - 1

(* Every fixture of the fake server makes the client reach the verdict the *)
(* fixture is for, and only singleton evidence proves token times.         *)
FixtureVerdict ==
  IsFixture /\ pc = "returned" /\ ~cancelled /\ err # "close" =>
    /\ err = CASE Refuses(server) -> "status"
               [] ~Refuses(server) /\ server.mode = "malformedJSON" -> "decode"
               [] ~Refuses(server) /\ server.mode = "eofBeforeDone" -> "unexpectedEOF"
               [] ~Refuses(server) /\ server.mode = "dataAfterDone" -> "dataAfterDone"
               [] OTHER -> IF server.mode = "noContent" \/ server.chunks = 0 THEN "noContent" ELSE "none"
    /\ Len(InterTokenLatency(obs)) =
         IF /\ err = "none" /\ obs.requested
            /\ server.evidence = "singleton" /\ server.chunks >= 2
         THEN server.chunks - 1 ELSE 0

(* Whatever ends a request, the evidence is the frames that had arrived,   *)
(* in order and with times that grow from the first byte to the end.       *)
EvidenceKept ==
  LET f     == Frames(SubSeq(sent, 1, read))
      times == <<obs.firstByte, obs.headers>> \o [i \in DOMAIN obs.events |-> obs.events[i].at]
               \o <<obs.completed>>
  IN  /\ Len(obs.events) <= Len(f)
      /\ Len(f) - Len(obs.events) <= 1
      /\ \A i \in DOMAIN obs.events : obs.events[i].content =
           (Decodes(f[i]) /\ EventOf(f[i]).index = 0 /\ EventOf(f[i]).content)
      /\ err = "none" /\ frame = <<>> => Len(obs.events) = Len(f)
      /\ \A i, j \in DOMAIN times :
           i < j /\ times[i] # NoTime /\ times[j] # NoTime => times[i] <= times[j]

(* What is collected of one frame stays within the limit, and the count of *)
(* its bytes is the size of what would be joined.                          *)
FrameBounded ==
  /\ frame # <<>> => frameBytes = JoinedSize(frame)
  /\ frame = <<>> => frameBytes = 0
  /\ frameBytes <= MaxFrame
  /\ Len(frame) <= MaxFrame + 1

(* The gaps between chunks add up to the time from the first content to    *)
(* the last, and the decode rates divide the same time.                    *)
GapsSpanContent ==
  LET gaps == InterChunkLatency(obs)
  IN  pc = "returned" =>
        /\ Len(ContentEvents(obs)) >= 2 =>
             Total(gaps) = obs.lastContent - obs.firstContent
        /\ DecodeWindow(obs) # NoWindow => DecodeWindow(obs) = Total(gaps)
        /\ Total(InterTokenLatency(obs)) <= obs.completed - obs.firstByte

(* The observation has one writer, beside a callback that runs when it     *)
(* likes.  Both returns of Do merge the first byte heard by then, or none; *)
(* no step overwrites it, whatever ends the request; and once the request  *)
(* has returned, nothing that still runs changes anything of it            *)
(* (client.go:114-170).                                                    *)
ObservationSealed ==
  [][/\ obs'.firstByte = IF pc = "roundTrip" /\ pc' # "roundTrip" THEN heardByte ELSE obs.firstByte
     /\ pc = "returned" => UNCHANGED <<obs, err>>]_vars

(* A request against the fake server ends by itself, and a cancelled one   *)
(* ends against any server.                                                *)
RequestEnds == (IsFixture \/ cancelled) ~> pc = "returned"
=============================================================================
