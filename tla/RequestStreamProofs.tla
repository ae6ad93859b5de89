------------------------- MODULE RequestStreamProofs -------------------------
(***************************************************************************)
(* What a streaming request promises whatever the server sends and however *)
(* large the frame limit is.                                               *)
(***************************************************************************)
EXTENDS RequestStream, FiniteSetTheorems, SequenceTheorems, TLAPS

KeepContent(kept, e) == IF e.content THEN Append(kept, e) ELSE kept
KeepTokens(kept, e)  == IF e.tokens # 0 THEN Append(kept, e) ELSE kept

Sums     == INSTANCE FoldLemmas WITH Base <- 0, Op <- +
Parses   == INSTANCE FoldLemmas WITH Base <- [ended |-> <<>>, open |-> <<>>], Op <- ParseLine
Contents == INSTANCE FoldLemmas WITH Base <- <<>>, Op <- KeepContent
Tokens   == INSTANCE FoldLemmas WITH Base <- <<>>, Op <- KeepTokens

Event == [index : Nat, content : BOOLEAN, ids : BOOLEAN, tokens : Nat, negative : BOOLEAN, usage : Int]
Body  == [type : {"json", "done", "broken", "pad"}, size : Nat, event : Event]
WireLine == [kind : {"data", "blank", "other"}, body : Body]

(***************************************************************************)
(* The operators                                                           *)
(***************************************************************************)

(* a sum, number by number                                                 *)
LEMMA TotalFold ==
  /\ Total(<<>>) = 0
  /\ \A s \in Seq(Int), x \in Int : Total(Append(s, x)) = Total(s) + x
<1>1. \A s : Total(s) = Sums!Fold(s)
  BY DEF Total, FoldLeft, MapThenFoldSet, Max, Sums!Fold, Sums!FoldLeft, Sums!MapThenFoldSet, Sums!Max
<1>2. Sums!Fold(<<>>) = 0
  BY Sums!FoldEmpty
<1>3. \A s \in Seq(Int), x \in Int : Sums!Fold(Append(s, x)) = Sums!Fold(s) + x
  BY Sums!FoldAppend
<1> QED
  BY <1>1, <1>2, <1>3

LEMMA TotalType ==
  /\ \A s \in Seq(Int) : Total(s) \in Int
  /\ \A s \in Seq(Nat) : Total(s) \in Nat
<1>1. Seq(Int) \subseteq {s \in Seq(Int) : Total(s) \in Int}
  <2> DEFINE S == {s \in Seq(Int) : Total(s) \in Int}
  <2>1. <<>> \in S
    BY TotalFold
  <2>2. \A s \in Seq(Int), x \in Int : s \in S => Append(s, x) \in S
    BY TotalFold
  <2> HIDE DEF S
  <2>3. Seq(Int) \subseteq S
    BY <2>1, <2>2, Sums!SeqInduct
  <2> QED
    BY <2>3 DEF S
<1>2. Seq(Nat) \subseteq {s \in Seq(Nat) : Total(s) \in Nat}
  <2> DEFINE S == {s \in Seq(Nat) : Total(s) \in Nat}
  <2>1. <<>> \in S
    BY TotalFold
  <2>2. \A s \in Seq(Nat), x \in Nat : s \in S => Append(s, x) \in S
    <3> SUFFICES ASSUME NEW s \in Seq(Nat), NEW x \in Nat, s \in S PROVE Append(s, x) \in S
      OBVIOUS
    <3>1. s \in Seq(Int) /\ x \in Int
      BY SeqMonotonic
    <3> QED
      BY <3>1, TotalFold
  <2> HIDE DEF S
  <2>3. Seq(Nat) \subseteq S
    BY <2>1, <2>2, Sums!SeqInduct
  <2> QED
    BY <2>3 DEF S
<1> QED
  BY <1>1, <1>2

(* what the lines make, line by line                                       *)
LEMMA ParsedFold ==
  /\ Parsed(<<>>) = [ended |-> <<>>, open |-> <<>>]
  /\ \A lines \in Seq(WireLine), line \in WireLine :
       Parsed(Append(lines, line)) = ParseLine(Parsed(lines), line)
<1>1. \A lines : Parsed(lines) = Parses!Fold(lines)
  BY DEF Parsed, FoldLeft, MapThenFoldSet, Max, Parses!Fold, Parses!FoldLeft, Parses!MapThenFoldSet, Parses!Max
<1>2. Parses!Fold(<<>>) = [ended |-> <<>>, open |-> <<>>]
  BY Parses!FoldEmpty
<1>3. \A lines \in Seq(WireLine), line \in WireLine :
        Parses!Fold(Append(lines, line)) = ParseLine(Parses!Fold(lines), line)
  BY Parses!FoldAppend
<1> QED
  BY <1>1, <1>2, <1>3

(***************************************************************************)
(* The inductive invariant                                                 *)
(***************************************************************************)

Offset   == Nat \cup {NoTime}
Observed == [at : Nat, content : BOOLEAN, ids : BOOLEAN, tokens : Nat]
EndKinds == {"none", "send", "status", "read", "limit", "decode", "usage",
             "dataAfterDone", "unexpectedEOF", "close", "noContent"}

Observation ==
  [firstByte : Offset, headers : Offset, firstEvent : Offset, firstContent : Offset,
   lastContent : Offset, completed : Offset, events : Seq(Observed), usage : Int,
   requested : BOOLEAN, invalid : BOOLEAN, through : BOOLEAN, error : EndKinds]

(* what the lines read so far make                                         *)
Arrived == Parsed(SubSeq(sent, 1, read))
Answer  == Ended(Arrived)
Taken   == Len(obs.events)

StreamTypeOK ==
  /\ now \in Nat
  /\ cancelled \in BOOLEAN
  /\ response \in {"none", "ok", "error"}
  /\ stream \in {"open", "closed", "broken"}
  /\ sent \in Seq(WireLine)
  /\ read \in 0 .. Len(sent)
  /\ heardByte \in Offset
  /\ pc \in {"roundTrip", "reading", "discarding", "closing", "leaving", "returned"}
  /\ frame \in Seq(Body)
  /\ frameBytes \in Nat
  /\ seenDone \in BOOLEAN
  /\ err \in EndKinds
  /\ obs \in Observation
  /\ server \in Fixtures \cup {OtherServer}
  /\ served \in Nat
  /\ Arrived \in [ended : Seq(Seq(Body)), open : Seq(Body)]

(* the frame being collected                                               *)
FrameInv ==
  /\ frame # <<>> => frameBytes = JoinedSize(frame)
  /\ frame = <<>> => frameBytes = 0
  /\ frameBytes <= MaxFrame
  /\ \A j \in DOMAIN frame : Scannable(frame[j])

(* what an event recorded at time t says of the frame that made it         *)
Noted(f, t) ==
  IF Decodes(f) /\ EventOf(f).index = 0
  THEN [at |-> t, content |-> EventOf(f).content, ids |-> EventOf(f).ids, tokens |-> EventOf(f).tokens]
  ELSE [at |-> t, content |-> FALSE, ids |-> FALSE, tokens |-> 0]

Fits(f) == JoinedSize(f) <= MaxFrame /\ \A j \in DOMAIN f : Scannable(f[j])

Clean(f) == Decodes(f) /\ EventOf(f).usage # NegativeUsage

Negative(f) == Decodes(f) /\ EventOf(f).index = 0 /\ EventOf(f).negative

(* each event is the record of its frame, and says what the frame was      *)
EvidenceInv ==
  /\ Taken <= Len(Answer)
  /\ Len(Answer) <= Taken + 1
  /\ \A i \in 1 .. Taken : obs.events[i] = Noted(Answer[i], obs.events[i].at)

AcceptedInv ==
  /\ \A i \in 1 .. Taken : Fits(Answer[i])
  /\ \A i \in 1 .. Taken : (i = Taken /\ seenDone) \/ Clean(Answer[i])
  /\ seenDone => Taken >= 1 /\ IsDone(Answer[Taken])
  /\ obs.usage # NoUsage =>
       \E i \in 1 .. Taken : Decodes(Answer[i]) /\ EventOf(Answer[i]).usage = obs.usage
  /\ obs.usage = NoUsage =>
       \A i \in 1 .. Taken : Decodes(Answer[i]) => EventOf(Answer[i]).usage = NoUsage
  /\ ~obs.invalid => \A i \in 1 .. Taken : ~Negative(Answer[i])

(* where the request is                                                    *)
ProgressInv ==
  /\ pc \in {"roundTrip", "discarding"} => read = 0 /\ frame = <<>> /\ obs.events = <<>> /\ ~seenDone
  /\ pc \in {"roundTrip", "reading", "discarding"} => err = "none" /\ ~obs.through
  /\ heardByte # NoTime => response # "none"
  /\ pc = "discarding" => response = "error"
  /\ pc = "reading" => response = "ok" /\ frame = Arrived.open /\ Taken = Len(Arrived.ended)
  /\ obs.error = IF pc = "returned" THEN err ELSE "none"

(* why it ended                                                            *)
Whole == response = "ok" /\ stream = "closed" /\ read = Len(sent)

EndedInv ==
  pc \in {"closing", "leaving", "returned"} =>
    /\ err \in {"none", "close", "noContent"} =>
         Whole /\ obs.through /\ seenDone /\ Taken = Len(Answer)
    /\ err = "unexpectedEOF" => Whole /\ ~seenDone /\ Taken = Len(Answer)
    /\ err \in {"decode", "usage", "dataAfterDone", "limit"} => Len(Answer) = Taken + 1
    /\ err = "decode" => ~IsDone(Answer[Taken + 1]) /\ ~Decodes(Answer[Taken + 1])
    /\ err = "usage" => Decodes(Answer[Taken + 1]) /\ ~Clean(Answer[Taken + 1])
    /\ err = "dataAfterDone" => seenDone
    /\ err = "limit" => ~Fits(Answer[Taken + 1])
    /\ err \in {"send", "read"} => cancelled \/ stream = "broken"
    /\ err = "status" => response = "error"
    /\ pc = "returned" => (err = "none" => ContentEvents(obs) # <<>>)
    /\ err = "noContent" => pc = "returned" /\ ContentEvents(obs) = <<>>

(* times only grow                                                         *)
Rising(events, low, high) ==
  /\ \A i \in DOMAIN events : low <= events[i].at /\ events[i].at <= high
  /\ \A i, j \in DOMAIN events : i <= j => events[i].at <= events[j].at

TimesInv ==
  /\ heardByte <= now
  /\ obs.firstByte <= now
  /\ obs.headers <= now
  /\ obs.headers # NoTime => obs.firstByte # NoTime /\ obs.firstByte <= obs.headers
  /\ pc = "roundTrip" => obs.headers = NoTime
  /\ pc = "reading" => obs.headers # NoTime
  /\ obs.events # <<>> => obs.headers # NoTime
  /\ Rising(obs.events, obs.headers, now)
  /\ Rising(ContentEvents(obs), obs.headers, now)
  /\ Rising(TokenEvents(obs), obs.headers, now)
  /\ obs.completed = IF pc = "returned" THEN now ELSE NoTime

(* the first and the last content                                          *)
ContentInv ==
  LET content == ContentEvents(obs)
  IN  /\ obs.firstContent = IF content = <<>> THEN NoTime ELSE content[1].at
      /\ obs.lastContent = IF content = <<>> THEN NoTime ELSE content[Len(content)].at

StreamInv ==
  /\ StreamTypeOK
  /\ FrameInv
  /\ EvidenceInv
  /\ AcceptedInv
  /\ ProgressInv
  /\ EndedInv
  /\ TimesInv
  /\ ContentInv

(***************************************************************************)
(* Lines, frames and their sizes                                           *)
(***************************************************************************)

LEMMA SizesType ==
  ASSUME NEW f \in Seq(Body)
  PROVE  [i \in DOMAIN f |-> f[i].size] \in Seq(Nat) /\ [i \in DOMAIN f |-> f[i].size] \in Seq(Int)
<1>1. DOMAIN f = 1 .. Len(f) /\ Len(f) \in Nat
  OBVIOUS
<1>2. \A i \in 1 .. Len(f) : f[i].size \in Nat
  <2>1. \A i \in 1 .. Len(f) : f[i] \in Body
    BY ElementOfSeq
  <2> QED
    BY <2>1 DEF Body
<1> QED
  BY <1>1, <1>2

(* one more line in a frame                                                *)
LEMMA JoinedAppend ==
  ASSUME NEW f \in Seq(Body), NEW b \in Body
  PROVE  JoinedSize(Append(f, b)) = IF f = <<>> THEN b.size ELSE JoinedSize(f) + b.size + 1
<1> DEFINE g == Append(f, b)
           sizes(h) == [i \in DOMAIN h |-> h[i].size]
<1>1. f \in Seq(Body) /\ b.size \in Nat /\ Len(f) \in Nat /\ Len(g) = Len(f) + 1
  BY DEF Body
<1>2. sizes(f) \in Seq(Int) /\ sizes(g) \in Seq(Int)
  <2>1. ASSUME NEW h \in Seq(Body) PROVE sizes(h) \in Seq(Int)
    BY SizesType
  <2>2. g \in Seq(Body)
    OBVIOUS
  <2> HIDE DEF sizes, g
  <2> QED
    BY <2>1, <2>2
<1>3. sizes(g) = Append(sizes(f), b.size)
  <2>1. Append(sizes(f), b.size) \in Seq(Int) /\ Len(sizes(g)) = Len(Append(sizes(f), b.size))
    BY <1>1, <1>2
  <2>2. \A i \in 1 .. Len(sizes(g)) : sizes(g)[i] = Append(sizes(f), b.size)[i]
    BY <1>1, <1>2
  <2> QED
    BY <1>2, <2>1, <2>2, SeqEqual
<1>4. Total(sizes(g)) = Total(sizes(f)) + b.size /\ Total(sizes(f)) \in Int
  <2>1. b.size \in Int
    BY <1>1
  <2> HIDE DEF sizes, g
  <2> QED
    BY <1>2, <1>3, <2>1, TotalFold, TotalType
<1>5. f = <<>> => Total(sizes(f)) = 0 /\ Len(f) = 0
  <2>1. f = <<>> => sizes(f) = <<>>
    OBVIOUS
  <2> HIDE DEF sizes
  <2> QED
    BY <2>1, TotalFold
<1>6. JoinedSize(f) = Total(sizes(f)) + Len(f) - 1 /\ JoinedSize(g) = Total(sizes(g)) + Len(g) - 1
  BY DEF JoinedSize
<1> HIDE DEF sizes, g
<1>7. JoinedSize(g) = IF f = <<>> THEN b.size ELSE JoinedSize(f) + b.size + 1
  BY <1>1, <1>4, <1>5, <1>6
<1> QED
  BY <1>7 DEF g

(* each line but the first costs its newline                               *)
LEMMA JoinedBound ==
  ASSUME NEW f \in Seq(Body)
  PROVE  JoinedSize(f) \in Int /\ Len(f) <= JoinedSize(f) + 1
<1> DEFINE sizes == [i \in DOMAIN f |-> f[i].size]
<1>1. sizes \in Seq(Nat)
  BY SizesType
<1>2. JoinedSize(f) = Total(sizes) + Len(f) - 1
  BY DEF JoinedSize
<1> HIDE DEF sizes
<1>3. Total(sizes) \in Nat
  BY <1>1, TotalType
<1> QED
  BY <1>2, <1>3

(* what has been read does not depend on what is sent later                *)
LEMMA PrefixStays ==
  ASSUME NEW lines \in Seq(WireLine), NEW piece \in Seq(WireLine), NEW n \in 0 .. Len(lines)
  PROVE  /\ SubSeq(lines \o piece, 1, n) = SubSeq(lines, 1, n)
         /\ lines \o piece \in Seq(WireLine)
         /\ n \in 0 .. Len(lines \o piece)
<1> DEFINE longer == lines \o piece
<1>1. longer \in Seq(WireLine) /\ Len(longer) = Len(lines) + Len(piece)
  OBVIOUS
<1>2. \A i \in 1 .. Len(lines) : longer[i] = lines[i]
  OBVIOUS
<1>3. n \in 0 .. Len(longer)
  BY <1>1
<1> HIDE DEF longer
<1>4. /\ SubSeq(longer, 1, n) \in Seq(WireLine) /\ SubSeq(lines, 1, n) \in Seq(WireLine)
      /\ Len(SubSeq(longer, 1, n)) = n /\ Len(SubSeq(lines, 1, n)) = n
      /\ \A i \in 1 .. n : SubSeq(longer, 1, n)[i] = longer[i] /\ SubSeq(lines, 1, n)[i] = lines[i]
  BY <1>1, <1>3, SubSeqProperties
<1>5. SubSeq(longer, 1, n) = SubSeq(lines, 1, n)
  BY <1>2, <1>4, SeqEqual
<1> QED
  BY <1>1, <1>3, <1>5 DEF longer

LEMMA PrefixNext ==
  ASSUME NEW lines \in Seq(WireLine), NEW n \in 0 .. Len(lines), n < Len(lines)
  PROVE  /\ SubSeq(lines, 1, n + 1) = Append(SubSeq(lines, 1, n), lines[n + 1])
         /\ SubSeq(lines, 1, n) \in Seq(WireLine)
         /\ lines[n + 1] \in WireLine
<1>1. n + 1 \in 0 .. Len(lines) /\ n + 1 \in 1 .. Len(lines)
  OBVIOUS
<1>2. /\ SubSeq(lines, 1, n) \in Seq(WireLine) /\ SubSeq(lines, 1, n + 1) \in Seq(WireLine)
      /\ Len(SubSeq(lines, 1, n)) = n /\ Len(SubSeq(lines, 1, n + 1)) = n + 1
      /\ \A i \in 1 .. n : SubSeq(lines, 1, n)[i] = lines[i]
      /\ \A i \in 1 .. n + 1 : SubSeq(lines, 1, n + 1)[i] = lines[i]
  BY <1>1, SubSeqProperties
<1>3. lines[n + 1] \in WireLine
  BY <1>1, ElementOfSeq
<1>4. SubSeq(lines, 1, n + 1) = Append(SubSeq(lines, 1, n), lines[n + 1])
  <2> DEFINE front == SubSeq(lines, 1, n)
  <2> HIDE DEF front
  <2>1. front \in Seq(WireLine) /\ Len(front) = n /\ \A i \in 1 .. n : front[i] = lines[i]
    BY <1>2 DEF front
  <2>2. Append(front, lines[n + 1]) \in Seq(WireLine) /\ Len(Append(front, lines[n + 1])) = n + 1
    BY <1>3, <2>1
  <2>3. \A i \in 1 .. n + 1 : Append(front, lines[n + 1])[i] = lines[i]
    BY <1>3, <2>1
  <2>4. SubSeq(lines, 1, n + 1) = Append(front, lines[n + 1])
    BY <1>2, <2>2, <2>3, SeqEqual
  <2> QED
    BY <2>4 DEF front
<1> QED
  BY <1>2, <1>3, <1>4

(* the lines that a server writes                                          *)
LEMMA EventTypes ==
  /\ NoEvent \in Event
  /\ \A n \in Nat : Content(n) \in Event
  /\ PeerEvents \subseteq Event
<1>1. NoEvent \in Event
  BY DEF NoEvent, Event, NoUsage
<1>2. \A n \in Nat : Content(n) \in Event
  BY <1>1 DEF Content, Event
<1>3. PeerEvents \subseteq Event
  <2>1. Content(1) \in Event /\ Content(2) \in Event
    BY <1>2
  <2>2. [Content(1) EXCEPT !.content = FALSE, !.negative = TRUE] \in Event
    <3> DEFINE c == Content(1)
               d == [c EXCEPT !.content = FALSE]
    <3>1. d \in Event
      BY <2>1 DEF Event
    <3> HIDE DEF d
    <3>2. [d EXCEPT !.negative = TRUE] \in Event
      BY <3>1 DEF Event
    <3> QED
      BY <3>2 DEF d
  <2>3. /\ [Content(1) EXCEPT !.index = 1] \in Event
        /\ [Content(1) EXCEPT !.usage = 2] \in Event
    BY <2>1 DEF Event
  <2>4. [NoEvent EXCEPT !.usage = 1] \in Event /\ [NoEvent EXCEPT !.usage = NegativeUsage] \in Event
    BY <1>1 DEF Event, NegativeUsage
  <2> QED
    BY <1>1, <2>1, <2>2, <2>3, <2>4 DEF PeerEvents
<1> QED
  BY <1>1, <1>2, <1>3

LEMMA BodyTypes ==
  /\ Done \in Body /\ Broken \in Body
  /\ \A e \in Event : Json(e) \in Body
  /\ \A n \in Nat : Pad(n) \in Body
  /\ \A b \in Body : Data(b) \in WireLine /\ WriteRawEvent(b) \in Seq(WireLine)
  /\ Blank \in WireLine /\ Other \in WireLine
<1>1. /\ Done \in Body /\ Broken \in Body
      /\ \A e \in Event : Json(e) \in Body
      /\ \A n \in Nat : Pad(n) \in Body
  BY EventTypes DEF Done, Broken, Json, Pad, Body
<1>2. Blank \in WireLine /\ Other \in WireLine /\ \A b \in Body : Data(b) \in WireLine
  BY <1>1 DEF Blank, Other, Data, WireLine
<1>3. \A b \in Body : WriteRawEvent(b) \in Seq(WireLine)
  BY <1>2 DEF WriteRawEvent
<1> QED
  BY <1>1, <1>2, <1>3

LEMMA PieceTypes == PeerPieces \subseteq Seq(WireLine)
<1>1. \A e \in PeerEvents : WriteRawEvent(Json(e)) \in Seq(WireLine)
  BY EventTypes, BodyTypes
<1>2. WriteRawEvent(Done) \in Seq(WireLine) /\ <<Data(Done)>> \in Seq(WireLine)
      /\ <<Blank>> \in Seq(WireLine) /\ <<Other>> \in Seq(WireLine)
  BY BodyTypes
<1>3. <<Data(Json(Content(1))), Data(Pad(1))>> \in Seq(WireLine)
  <2>1. Content(1) \in Event
    BY EventTypes
  <2>2. Data(Json(Content(1))) \in WireLine /\ Data(Pad(1)) \in WireLine
    BY <2>1, BodyTypes
  <2> QED
    BY <2>2
<1>4. <<Data(Pad(2))>> \in Seq(WireLine)
  <2>1. Data(Pad(2)) \in WireLine
    BY BodyTypes
  <2> QED
    BY <2>1
<1>5. <<Data(Pad(MaxFrame - 1)), Blank>> \in Seq(WireLine)
  <2>1. MaxFrame - 1 \in Nat
    BY RequestStreamAssumption
  <2>2. Data(Pad(MaxFrame - 1)) \in WireLine
    BY <2>1, BodyTypes
  <2> QED
    BY <2>2, BodyTypes
<1> QED
  BY <1>1, <1>2, <1>3, <1>4, <1>5 DEF PeerPieces

LEMMA FixtureTypes ==
  ASSUME NEW config \in Fixtures, NEW wants \in BOOLEAN
  PROVE  Script(config, wants) \in Seq(Body)
<1>1. config.chunks \in Nat /\ config.completion \in Nat
  BY RequestStreamAssumption DEF Fixtures
<1>2. ASSUME NEW chunk \in Nat PROVE ContentEvent(config, chunk, wants) \in Event
  <2>1. TokenIDs(config, chunk) \in Nat
    BY DEF TokenIDs
  <2>2. HasTokenIDs(config, chunk) \in BOOLEAN
    BY DEF HasTokenIDs
  <2> QED
    BY <2>1, <2>2, EventTypes DEF ContentEvent, Event
<1>3. UsageEvent(config) \in Event
  BY <1>1, EventTypes DEF UsageEvent, Event
<1>4. [i \in 1 .. config.chunks |-> Json(ContentEvent(config, i, wants))] \in Seq(Body)
  <2>1. \A i \in 1 .. config.chunks : Json(ContentEvent(config, i, wants)) \in Body
    BY <1>1, <1>2, BodyTypes
  <2> QED
    BY <1>1, <2>1
<1>5. <<Json(NoEvent), Json(UsageEvent(config))>> \in Seq(Body) /\ <<Json(NoEvent)>> \in Seq(Body)
      /\ <<Done>> \in Seq(Body) /\ <<Broken>> \in Seq(Body)
  BY <1>3, EventTypes, BodyTypes
<1>6. \A condition \in BOOLEAN, frames \in Seq(Body) : When(condition, frames) \in Seq(Body)
  BY DEF When
<1> QED
  <2> DEFINE a == When(wants /\ config.evidence # "disabled", <<Json(NoEvent)>>)
             b == When(config.mode # "noContent",
                       [i \in 1 .. config.chunks |-> Json(ContentEvent(config, i, wants))])
             c == <<Json(NoEvent), Json(UsageEvent(config))>>
             d == When(config.mode # "eofBeforeDone", <<Done>>)
             e == When(config.mode = "dataAfterDone", <<Json(NoEvent)>>)
  <2>1. a \in Seq(Body) /\ b \in Seq(Body) /\ c \in Seq(Body) /\ d \in Seq(Body) /\ e \in Seq(Body)
    BY <1>4, <1>5, <1>6
  <2>2. Script(config, wants) = IF config.mode = "malformedJSON" THEN <<Broken>>
                                ELSE a \o b \o c \o d \o e
    BY DEF Script
  <2> HIDE DEF a, b, c, d, e
  <2>3. a \o b \o c \o d \o e \in Seq(Body)
    BY <2>1
  <2> QED
    BY <1>5, <2>2, <2>3

(***************************************************************************)
(* The events of an observation                                            *)
(***************************************************************************)

LEMMA ContentFold ==
  /\ \A o : ContentEvents(o) = Contents!Fold(o.events)
  /\ Contents!Fold(<<>>) = <<>>
  /\ \A s \in Seq(Observed), e \in Observed :
       Contents!Fold(Append(s, e)) = IF e.content THEN Append(Contents!Fold(s), e) ELSE Contents!Fold(s)
<1>1. \A o : ContentEvents(o) = Contents!Fold(o.events)
  BY DEF ContentEvents, FoldLeft, MapThenFoldSet, Max, KeepContent,
         Contents!Fold, Contents!FoldLeft, Contents!MapThenFoldSet, Contents!Max
<1>2. Contents!Fold(<<>>) = <<>>
  BY Contents!FoldEmpty
<1>3. \A s \in Seq(Observed), e \in Observed :
        Contents!Fold(Append(s, e)) = KeepContent(Contents!Fold(s), e)
  BY Contents!FoldAppend
<1> QED
  BY <1>1, <1>2, <1>3 DEF KeepContent

LEMMA TokenFold ==
  /\ \A o : TokenEvents(o) = Tokens!Fold(o.events)
  /\ Tokens!Fold(<<>>) = <<>>
  /\ \A s \in Seq(Observed), e \in Observed :
       Tokens!Fold(Append(s, e)) = IF e.tokens # 0 THEN Append(Tokens!Fold(s), e) ELSE Tokens!Fold(s)
<1>1. \A o : TokenEvents(o) = Tokens!Fold(o.events)
  BY DEF TokenEvents, FoldLeft, MapThenFoldSet, Max, KeepTokens,
         Tokens!Fold, Tokens!FoldLeft, Tokens!MapThenFoldSet, Tokens!Max
<1>2. Tokens!Fold(<<>>) = <<>>
  BY Tokens!FoldEmpty
<1>3. \A s \in Seq(Observed), e \in Observed :
        Tokens!Fold(Append(s, e)) = KeepTokens(Tokens!Fold(s), e)
  BY Tokens!FoldAppend
<1> QED
  BY <1>1, <1>2, <1>3 DEF KeepTokens

(* no content is kept exactly when no event carries any                    *)
LEMMA ContentKept ==
  ASSUME NEW s \in Seq(Observed)
  PROVE  /\ Contents!Fold(s) \in Seq(Observed)
         /\ Contents!Fold(s) = <<>> <=> \A i \in 1 .. Len(s) : ~s[i].content
<1> DEFINE S == {t \in Seq(Observed) :
                   /\ Contents!Fold(t) \in Seq(Observed)
                   /\ Contents!Fold(t) = <<>> <=> \A i \in 1 .. Len(t) : ~t[i].content}
<1>1. <<>> \in S
  <2>1. Contents!Fold(<<>>) = <<>>
    BY ContentFold
  <2>2. <<>> \in Seq(Observed) /\ \A i \in 1 .. Len(<<>>) : FALSE
    OBVIOUS
  <2>3. \A i \in 1 .. Len(<<>>) : ~(<<>>[i].content)
    BY <2>2
  <2> QED
    BY <2>1, <2>2, <2>3, Zenon
<1>2. \A t \in Seq(Observed), e \in Observed : t \in S => Append(t, e) \in S
  <2> SUFFICES ASSUME NEW t \in Seq(Observed), NEW e \in Observed, t \in S
               PROVE  Append(t, e) \in S
    OBVIOUS
  <2>1. /\ Append(t, e) \in Seq(Observed) /\ Len(Append(t, e)) = Len(t) + 1 /\ Len(t) \in Nat
        /\ Append(t, e)[Len(t) + 1] = e /\ \A i \in 1 .. Len(t) : Append(t, e)[i] = t[i]
    OBVIOUS
  <2>2. Contents!Fold(Append(t, e)) = IF e.content THEN Append(Contents!Fold(t), e) ELSE Contents!Fold(t)
    BY ContentFold
  <2>3. Contents!Fold(Append(t, e)) \in Seq(Observed)
    BY <2>2
  <2>4. CASE e.content
    <3>1. Contents!Fold(Append(t, e)) # <<>>
      BY <2>2, <2>4
    <3>2. Append(t, e)[Len(t) + 1].content /\ Len(t) + 1 \in 1 .. Len(Append(t, e))
      BY <2>1, <2>4
    <3> QED
      BY <2>1, <2>3, <3>1, <3>2
  <2>5. CASE ~e.content
    <3>1. Contents!Fold(Append(t, e)) = <<>> <=> \A i \in 1 .. Len(t) : ~t[i].content
      BY <2>2, <2>5
    <3>2. (\A i \in 1 .. Len(Append(t, e)) : ~Append(t, e)[i].content)
          <=> \A i \in 1 .. Len(t) : ~t[i].content
      BY <2>1, <2>5
    <3> QED
      BY <2>1, <2>3, <3>1, <3>2
  <2> QED
    BY <2>4, <2>5
<1>3. Seq(Observed) \subseteq S
  <2> HIDE DEF S
  <2> QED
    BY <1>1, <1>2, Sums!SeqInduct
<1> QED
  BY <1>3

LEMMA TokenKept ==
  ASSUME NEW s \in Seq(Observed)
  PROVE  Tokens!Fold(s) \in Seq(Observed)
<1> DEFINE S == {t \in Seq(Observed) : Tokens!Fold(t) \in Seq(Observed)}
<1>1. <<>> \in S
  <2>1. Tokens!Fold(<<>>) = <<>> /\ <<>> \in Seq(Observed)
    BY TokenFold
  <2> QED
    BY <2>1, Zenon
<1>2. \A t \in Seq(Observed), e \in Observed : t \in S => Append(t, e) \in S
  <2> SUFFICES ASSUME NEW t \in Seq(Observed), NEW e \in Observed, t \in S
               PROVE  Append(t, e) \in S
    OBVIOUS
  <2>1. Tokens!Fold(Append(t, e)) = IF e.tokens # 0 THEN Append(Tokens!Fold(t), e) ELSE Tokens!Fold(t)
    BY TokenFold
  <2> QED
    BY <2>1
<1>3. Seq(Observed) \subseteq S
  <2> HIDE DEF S
  <2> QED
    BY <1>1, <1>2, Sums!SeqInduct
<1> QED
  BY <1>3

(***************************************************************************)
(* What the handler makes of a frame                                       *)
(***************************************************************************)

LEMMA FrameKinds ==
  ASSUME NEW f \in Seq(Body)
  PROVE  /\ Decodes(f) => EventOf(f) \in Event
         /\ IsDone(f) => ~Decodes(f)
         /\ IsDone(f) => f # <<>>
         /\ Decodes(f) => f # <<>>
         /\ \A t \in Nat : Noted(f, t) \in Observed
<1>1. DOMAIN f = 1 .. Len(f) /\ \A i \in 1 .. Len(f) : f[i] \in Body
  BY ElementOfSeq
<1>2. ASSUME Decodes(f) PROVE EventOf(f) \in Event
  <2>1. \E i \in DOMAIN f : ~IsPadding(f[i])
    BY <1>2 DEF Decodes, IsPadding
  <2>2. (CHOOSE i \in DOMAIN f : ~IsPadding(f[i])) \in DOMAIN f
    BY <2>1
  <2> QED
    BY <1>1, <2>2 DEF EventOf, Body
<1>3. IsDone(f) => ~Decodes(f)
  BY DEF IsDone, Decodes
<1>4. (IsDone(f) => f # <<>>) /\ (Decodes(f) => f # <<>>)
  BY DEF IsDone, Decodes
<1>5. \A t \in Nat : Noted(f, t) \in Observed
  BY <1>2 DEF Noted, Observed, Event
<1> QED
  BY <1>2, <1>3, <1>4, <1>5

(* the record of one event                                                 *)
LEMMA AppendedEvent ==
  ASSUME NEW o \in Observation, NEW e \in Observed, now \in Nat
  PROVE  /\ AppendStreamEvent(o, e) \in Observation
         /\ AppendStreamEvent(o, e).events = Append(o.events, e)
         /\ AppendStreamEvent(o, e).firstContent =
              IF e.content /\ o.firstContent = NoTime THEN now ELSE o.firstContent
         /\ AppendStreamEvent(o, e).lastContent = IF e.content THEN now ELSE o.lastContent
         /\ AppendStreamEvent(o, e).usage = o.usage
         /\ AppendStreamEvent(o, e).invalid = o.invalid
         /\ AppendStreamEvent(o, e).firstByte = o.firstByte
         /\ AppendStreamEvent(o, e).headers = o.headers
         /\ AppendStreamEvent(o, e).completed = o.completed
         /\ AppendStreamEvent(o, e).through = o.through
         /\ AppendStreamEvent(o, e).error = o.error
         /\ AppendStreamEvent(o, e).requested = o.requested
<1> DEFINE n == [o EXCEPT !.firstEvent   = IF @ = NoTime THEN now ELSE @,
                         !.firstContent = IF e.content /\ @ = NoTime THEN now ELSE @,
                         !.lastContent  = IF e.content THEN now ELSE @,
                         !.events       = Append(@, e)]
<1>1. AppendStreamEvent(o, e) = n
  BY DEF AppendStreamEvent
<1>2. /\ n.events = Append(o.events, e)
      /\ n.firstEvent = IF o.firstEvent = NoTime THEN now ELSE o.firstEvent
      /\ n.firstContent = IF e.content /\ o.firstContent = NoTime THEN now ELSE o.firstContent
      /\ n.lastContent = IF e.content THEN now ELSE o.lastContent
      /\ n.usage = o.usage /\ n.invalid = o.invalid /\ n.firstByte = o.firstByte
      /\ n.headers = o.headers /\ n.completed = o.completed /\ n.through = o.through
      /\ n.error = o.error /\ n.requested = o.requested
  BY DEF Observation
<1>3. n \in Observation
  <2> DEFINE n1 == [o EXCEPT !.firstEvent = IF @ = NoTime THEN now ELSE @]
             n2 == [n1 EXCEPT !.firstContent = IF e.content /\ @ = NoTime THEN now ELSE @]
             n3 == [n2 EXCEPT !.lastContent = IF e.content THEN now ELSE @]
  <2>1. n1 \in Observation /\ n1.events = o.events
    BY DEF Observation, Offset
  <2>2. n = [n3 EXCEPT !.events = Append(@, e)]
    OBVIOUS
  <2> HIDE DEF n, n1
  <2>3. n2 \in Observation /\ n2.events = o.events
    BY <2>1 DEF Observation, Offset
  <2> HIDE DEF n2
  <2>4. n3 \in Observation /\ n3.events = o.events
    BY <2>3 DEF Observation, Offset
  <2> HIDE DEF n3
  <2>5. Append(n3.events, e) \in Seq(Observed)
    BY <2>4 DEF Observation
  <2> QED
    BY <2>2, <2>4, <2>5 DEF Observation
<1> QED
  BY <1>1, <1>2, <1>3

(* the cases of the handler                                                *)
LEMMA HandledCases ==
  ASSUME StreamTypeOK
  PROVE  LET h == Handled(frame)
         IN  /\ h.obs \in Observation /\ h.err \in EndKinds /\ h.done \in BOOLEAN
             /\ h.obs.firstByte = obs.firstByte /\ h.obs.headers = obs.headers
             /\ h.obs.completed = obs.completed /\ h.obs.through = obs.through
             /\ h.obs.error = obs.error /\ h.obs.requested = obs.requested
             /\ h.err \in {"none", "dataAfterDone", "decode", "usage"}
             /\ h.obs.invalid => obs.invalid \/ Negative(frame)
             /\ frame = <<>> => h.err = "none" /\ h.done = seenDone /\ h.obs = obs
             /\ h.err = "dataAfterDone" => seenDone /\ h.done
             /\ h.err \in {"decode", "usage"} => ~seenDone /\ ~h.done
             /\ h.err = "decode" => ~IsDone(frame) /\ ~Decodes(frame)
             /\ h.err = "usage" => Decodes(frame) /\ ~Clean(frame)
             /\ h.err # "none" => h.obs.events = obs.events
                                  /\ h.obs.usage = obs.usage
                                  /\ h.obs.firstContent = obs.firstContent
                                  /\ h.obs.lastContent = obs.lastContent
                                  /\ (~h.obs.invalid => ~obs.invalid)
             /\ h.err = "none" /\ frame # <<>> =>
                  /\ ~seenDone
                  /\ IF h.done THEN IsDone(frame) ELSE Clean(frame)
                  /\ h.obs.events = Append(obs.events, Noted(frame, now))
                  /\ h.obs.usage = IF Decodes(frame) /\ EventOf(frame).usage # NoUsage
                                    THEN EventOf(frame).usage ELSE obs.usage
                  /\ ~h.obs.invalid => ~obs.invalid /\ ~Negative(frame)
                  /\ h.obs.firstContent =
                       IF Noted(frame, now).content /\ obs.firstContent = NoTime
                       THEN now ELSE obs.firstContent
                  /\ h.obs.lastContent =
                       IF Noted(frame, now).content THEN now ELSE obs.lastContent
<1> DEFINE h == Handled(frame)
<1>1. /\ obs \in Observation /\ seenDone \in BOOLEAN /\ now \in Nat /\ frame \in Seq(Body)
      /\ Decodes(frame) => EventOf(frame) \in Event
      /\ IsDone(frame) => ~Decodes(frame) /\ frame # <<>>
      /\ Noted(frame, now) \in Observed
  BY FrameKinds DEF StreamTypeOK
<1>2. CASE frame = <<>>
  <2>1. h = [obs |-> obs, err |-> "none", done |-> seenDone]
    BY <1>1, <1>2 DEF Handled
  <2> QED
    BY <1>1, <1>2, <2>1 DEF EndKinds
<1>3. CASE frame # <<>> /\ seenDone
  <2>1. h = [obs |-> obs, err |-> "dataAfterDone", done |-> TRUE]
    BY <1>3 DEF Handled
  <2> QED
    BY <1>1, <1>3, <2>1 DEF EndKinds
<1>4. CASE frame # <<>> /\ ~seenDone /\ IsDone(frame)
  <2>1. Noted(frame, now) = DoneEvent
    BY <1>1, <1>4 DEF Noted, DoneEvent
  <2>2. h = [obs |-> AppendStreamEvent(obs, Noted(frame, now)), err |-> "none", done |-> TRUE]
    BY <1>4, <2>1 DEF Handled
  <2>3. ~Negative(frame)
    BY <1>1, <1>4 DEF Negative
  <2>4. LET a == AppendStreamEvent(obs, Noted(frame, now))
       IN  /\ a \in Observation /\ a.events = Append(obs.events, Noted(frame, now))
           /\ a.firstContent = IF Noted(frame, now).content /\ obs.firstContent = NoTime
                               THEN now ELSE obs.firstContent
           /\ a.lastContent = IF Noted(frame, now).content THEN now ELSE obs.lastContent
           /\ a.usage = obs.usage /\ a.invalid = obs.invalid
           /\ a.firstByte = obs.firstByte /\ a.headers = obs.headers
           /\ a.completed = obs.completed /\ a.through = obs.through
           /\ a.error = obs.error /\ a.requested = obs.requested
    BY <1>1, AppendedEvent
  <2> DEFINE a == AppendStreamEvent(obs, Noted(frame, now))
  <2>5. h.obs = a /\ h.err = "none" /\ h.done = TRUE
    BY <2>2
  <2> HIDE DEF h, a
  <2> QED
    BY <1>1, <1>4, <2>3, <2>4, <2>5 DEF EndKinds, h, a
<1>5. CASE frame # <<>> /\ ~seenDone /\ ~IsDone(frame) /\ ~Decodes(frame)
  <2>1. h = [obs |-> obs, err |-> "decode", done |-> FALSE]
    BY <1>5 DEF Handled
  <2> QED
    BY <1>1, <1>5, <2>1 DEF EndKinds
<1>6. CASE frame # <<>> /\ ~seenDone /\ ~IsDone(frame) /\ Decodes(frame)
  <2> DEFINE e == EventOf(frame)
             o == WithTokenIDs(obs, e)
             u == WithUsage(o, e)
  <2>1. h = IF UsageRejected(e)
            THEN [obs |-> o, err |-> "usage", done |-> FALSE]
            ELSE [obs |-> AppendStreamEvent(u, StreamEventOf(e)), err |-> "none", done |-> FALSE]
    BY <1>6 DEF Handled
  <2>2. e \in Event
    BY <1>1, <1>6
  <2>3. /\ o \in Observation /\ o.events = obs.events /\ o.usage = obs.usage
        /\ o.firstContent = obs.firstContent /\ o.lastContent = obs.lastContent
        /\ o.firstByte = obs.firstByte /\ o.headers = obs.headers
        /\ o.completed = obs.completed /\ o.through = obs.through
        /\ o.error = obs.error /\ o.requested = obs.requested
        /\ o.invalid = (obs.invalid \/ (e.index = 0 /\ e.negative))
    BY <1>1, <2>2 DEF WithTokenIDs, Observation, Event
  <2>4. StreamEventOf(e) = Noted(frame, now)
    BY <1>1, <1>6 DEF StreamEventOf, Noted, DoneEvent
  <2>5. UsageRejected(e) <=> ~Clean(frame)
    BY <1>6 DEF UsageRejected, Clean
  <2>6. Negative(frame) <=> e.index = 0 /\ e.negative
    BY <1>6 DEF Negative
  <2> HIDE DEF o
  <2>7. /\ u \in Observation /\ u.events = obs.events
        /\ u.usage = IF e.usage = NoUsage THEN obs.usage ELSE e.usage
        /\ u.firstContent = obs.firstContent /\ u.lastContent = obs.lastContent
        /\ u.firstByte = obs.firstByte /\ u.headers = obs.headers
        /\ u.completed = obs.completed /\ u.through = obs.through
        /\ u.error = obs.error /\ u.requested = obs.requested
        /\ u.invalid = o.invalid
    <3>1. CASE e.usage = NoUsage
      BY <2>3, <3>1 DEF WithUsage
    <3>2. CASE e.usage # NoUsage
      BY <2>2, <2>3, <3>2 DEF WithUsage, Observation, Event
    <3> QED
      BY <3>1, <3>2
  <2> HIDE DEF u, h
  <2>8. CASE UsageRejected(e)
    <3>1. h = [obs |-> o, err |-> "usage", done |-> FALSE]
      BY <2>1, <2>8
    <3>2. (~o.invalid => ~obs.invalid) /\ (o.invalid => obs.invalid \/ Negative(frame))
      BY <2>3, <2>6
    <3> HIDE DEF e
    <3> QED
      BY <1>6, <2>3, <2>5, <2>8, <3>1, <3>2 DEF EndKinds, h
  <2>9. CASE ~UsageRejected(e)
    <3>1. h = [obs |-> AppendStreamEvent(u, Noted(frame, now)), err |-> "none", done |-> FALSE]
      BY <2>1, <2>4, <2>9
    <3>2. ~u.invalid <=> ~obs.invalid /\ ~Negative(frame)
      BY <2>3, <2>6, <2>7
    <3>3. Clean(frame)
      BY <2>5, <2>9
    <3>4. LET a == AppendStreamEvent(u, Noted(frame, now))
         IN  /\ a \in Observation /\ a.events = Append(obs.events, Noted(frame, now))
             /\ a.firstContent = IF Noted(frame, now).content /\ obs.firstContent = NoTime
                                 THEN now ELSE obs.firstContent
             /\ a.lastContent = IF Noted(frame, now).content THEN now ELSE obs.lastContent
             /\ a.usage = u.usage /\ a.invalid = u.invalid
             /\ a.firstByte = obs.firstByte /\ a.headers = obs.headers
             /\ a.completed = obs.completed /\ a.through = obs.through
             /\ a.error = obs.error /\ a.requested = obs.requested
      BY <1>1, <2>7, AppendedEvent
    <3> HIDE DEF e
    <3>5. u.usage = IF Decodes(frame) /\ EventOf(frame).usage # NoUsage
                    THEN EventOf(frame).usage ELSE obs.usage
      BY <1>6, <2>7 DEF e
    <3> DEFINE a == AppendStreamEvent(u, Noted(frame, now))
    <3>6. h.obs = a /\ h.err = "none" /\ h.done = FALSE
      BY <3>1
    <3>7. a.usage = u.usage /\ a.invalid = u.invalid
      BY <3>4
    <3> HIDE DEF h, a
    <3> QED
      BY <1>6, <3>2, <3>3, <3>4, <3>5, <3>6, <3>7 DEF EndKinds, h, a
  <2> QED
    BY <2>8, <2>9
<1> QED
  BY <1>1, <1>2, <1>3, <1>4, <1>5, <1>6

(***************************************************************************)
(* The lines that have been read                                           *)
(***************************************************************************)

Parse == [ended : Seq(Seq(Body)), open : Seq(Body)]

LEMMA ParseCases ==
  ASSUME NEW p \in Parse, NEW line \in WireLine
  PROVE  /\ ParseLine(p, line) \in Parse
         /\ Ended(p) \in Seq(Seq(Body))
         /\ Ended(p) = IF p.open = <<>> THEN p.ended ELSE Append(p.ended, p.open)
         /\ line.kind = "other" => ParseLine(p, line) = p
         /\ line.kind = "blank" => ParseLine(p, line).ended = Ended(p) /\ ParseLine(p, line).open = <<>>
         /\ line.kind = "data" => ParseLine(p, line).ended = p.ended
                                  /\ ParseLine(p, line).open = Append(p.open, line.body)
<1>1. p.ended \in Seq(Seq(Body)) /\ p.open \in Seq(Body) /\ line.body \in Body
      /\ p = [ended |-> p.ended, open |-> p.open]
  BY DEF Parse, WireLine
<1>2. Ended(p) \in Seq(Seq(Body))
  BY <1>1 DEF Ended
<1>3. CASE line.kind = "data"
  <2>1. ParseLine(p, line) = [p EXCEPT !.open = Append(@, line.body)]
    BY <1>3 DEF ParseLine
  <2>2. ParseLine(p, line) = [ended |-> p.ended, open |-> Append(p.open, line.body)]
    BY <1>1, <2>1
  <2> QED
    BY <1>1, <1>2, <1>3, <2>2 DEF Parse, Ended
<1>4. CASE line.kind = "blank"
  <2>1. ParseLine(p, line) = [ended |-> Ended(p), open |-> <<>>]
    BY <1>4 DEF ParseLine
  <2> QED
    BY <1>1, <1>2, <1>4, <2>1 DEF Parse, Ended
<1>5. CASE line.kind \notin {"data", "blank"}
  <2>1. ParseLine(p, line) = p
    BY <1>5 DEF ParseLine
  <2> QED
    BY <1>2, <1>5, <2>1 DEF Ended
<1> QED
  BY <1>3, <1>4, <1>5

(* everybody but the client                                                *)
EnvironmentStep ==
  \/ (Tick \/ CancelRequest) /\ UNCHANGED <<server, served>>
  \/ FixtureStep
  \/ PeerStep
  \/ UNCHANGED vars

LEMMA SentGrows ==
  ASSUME StreamTypeOK, NEW piece \in Seq(WireLine), sent' = sent \o piece, read' = read
  PROVE  sent' \in Seq(WireLine) /\ read' \in 0 .. Len(sent') /\ Arrived' = Arrived
<1>1. sent \in Seq(WireLine) /\ read \in 0 .. Len(sent)
  BY DEF StreamTypeOK
<1>2. /\ SubSeq(sent \o piece, 1, read) = SubSeq(sent, 1, read)
      /\ sent \o piece \in Seq(WireLine)
      /\ read \in 0 .. Len(sent \o piece)
  BY <1>1, PrefixStays
<1> QED
  BY <1>2 DEF Arrived

LEMMA Environment ==
  ASSUME StreamTypeOK, EnvironmentStep
  PROVE  /\ UNCHANGED clientVars
         /\ sent' \in Seq(WireLine) /\ read' \in 0 .. Len(sent') /\ Arrived' = Arrived
         /\ cancelled' \in BOOLEAN /\ (cancelled => cancelled')
         /\ now' \in Nat /\ now <= now' /\ (pc = "returned" => now' = now)
         /\ response' \in {"none", "ok", "error"} /\ (response # "none" => response' = response)
         /\ stream' \in {"open", "closed", "broken"} /\ (stream # "open" => stream' = stream)
         /\ Whole => Whole'
         /\ server' = server /\ served' \in Nat
<1> USE DEF StreamTypeOK, connectionVars, clientVars, parserVars
<1>1. ASSUME UNCHANGED sent, UNCHANGED clientVars, ~SendFrame, ~PeerSends
      PROVE  /\ sent' \in Seq(WireLine) /\ read' \in 0 .. Len(sent') /\ Arrived' = Arrived
             /\ cancelled' \in BOOLEAN /\ (cancelled => cancelled')
             /\ now' \in Nat /\ now <= now' /\ (pc = "returned" => now' = now)
             /\ response' \in {"none", "ok", "error"} /\ (response # "none" => response' = response)
             /\ stream' \in {"open", "closed", "broken"} /\ (stream # "open" => stream' = stream)
             /\ Whole => Whole'
             /\ server' = server /\ served' \in Nat
  <2>1. Arrived' = Arrived
    BY <1>1 DEF Arrived
  <2>2. CASE Tick /\ UNCHANGED <<server, served>>
    <3>1. UNCHANGED <<cancelled, response, stream, sent, read, server, served>>
      BY <1>1, <2>2 DEF Tick
    <3>2. now' = now + 1 /\ pc # "returned"
      BY <2>2 DEF Tick
    <3>3. Whole => Whole'
      BY <3>1 DEF Whole
    <3> QED
      BY <2>1, <3>1, <3>2, <3>3
  <2>3. CASE CancelRequest /\ UNCHANGED <<server, served>>
    <3>1. UNCHANGED <<now, response, stream, sent, read, server, served>>
      BY <1>1, <2>3 DEF CancelRequest
    <3>2. cancelled' = TRUE
      BY <2>3 DEF CancelRequest
    <3>3. Whole => Whole'
      BY <3>1 DEF Whole
    <3> QED
      BY <2>1, <3>1, <3>2, <3>3
  <2>4. CASE SendHeaders \/ HandlerReturns \/ HandlerAbandons
    BY <1>1, <2>1, <2>4 DEF SendHeaders, HandlerReturns, HandlerAbandons, Whole
  <2>5. CASE PeerResponds
    BY <1>1, <2>1, <2>5 DEF PeerResponds, Whole
  <2>6. CASE PeerEnds
    <3>1. stream' \in {"closed", "broken"} /\ stream = "open" /\ ~Whole
      BY <2>6 DEF PeerEnds, Whole
    <3> QED
      BY <1>1, <2>1, <2>6, <3>1 DEF PeerEnds
  <2>7. CASE UNCHANGED vars
    <3>1. Whole => Whole'
      BY <2>7 DEF vars, Whole
    <3> QED
      BY <1>1, <2>1, <2>7, <3>1 DEF vars
  <2> QED
    BY <1>1, <2>2, <2>3, <2>4, <2>5, <2>6, <2>7 DEF EnvironmentStep, FixtureStep, PeerStep
<1>2. CASE SendFrame
  <2>1. server \in Fixtures
    BY <1>2 DEF SendFrame, IsFixture, OtherServer
  <2>2. Script(server, obs.requested) \in Seq(Body)
    BY <2>1, FixtureTypes DEF Observation
  <2>3. Script(server, obs.requested)[served + 1] \in Body
    <3>1. served + 1 \in 1 .. Len(Script(server, obs.requested))
      BY <1>2, <2>2 DEF SendFrame
    <3> QED
      BY <2>2, <3>1, ElementOfSeq
  <2>4. sent' \in Seq(WireLine) /\ read' \in 0 .. Len(sent') /\ Arrived' = Arrived
    <3>1. WriteRawEvent(Script(server, obs.requested)[served + 1]) \in Seq(WireLine)
      BY <2>3, BodyTypes
    <3> QED
      BY <1>2, <3>1, SentGrows DEF SendFrame
  <2> QED
    BY <1>2, <2>4 DEF SendFrame, Whole
<1>3. CASE PeerSends
  <2>1. PICK piece \in PeerPieces : sent' = sent \o piece
    BY <1>3 DEF PeerSends
  <2>2. sent' \in Seq(WireLine) /\ read' \in 0 .. Len(sent') /\ Arrived' = Arrived
    BY <1>3, <2>1, PieceTypes, SentGrows DEF PeerSends
  <2> QED
    BY <1>3, <2>2 DEF PeerSends, Whole
<1>4. \/ UNCHANGED sent /\ UNCHANGED clientVars
      \/ SendFrame
      \/ PeerSends
  BY DEF EnvironmentStep, FixtureStep, PeerStep, Tick, CancelRequest, SendHeaders,
         HandlerReturns, HandlerAbandons, PeerResponds, PeerEnds, vars
<1>5. CASE ~SendFrame /\ ~PeerSends
  BY <1>1, <1>4, <1>5
<1> QED
  BY <1>2, <1>3, <1>5

(* a line is read                                                          *)
LEMMA ArrivedNext ==
  ASSUME StreamTypeOK, Reading, sent' = sent, read' = read + 1
  PROVE  /\ Arrived' = ParseLine(Arrived, Line) /\ Line \in WireLine
         /\ Arrived' \in Parse
         /\ sent' \in Seq(WireLine) /\ read' \in 0 .. Len(sent')
<1>1. sent \in Seq(WireLine) /\ read \in 0 .. Len(sent) /\ read < Len(sent) /\ Arrived \in Parse
  BY DEF StreamTypeOK, Reading, Parse
<1>5. read + 1 \in 0 .. Len(sent)
  BY <1>1
<1>2. /\ SubSeq(sent, 1, read + 1) = Append(SubSeq(sent, 1, read), sent[read + 1])
      /\ SubSeq(sent, 1, read) \in Seq(WireLine)
      /\ sent[read + 1] \in WireLine
  BY <1>1, PrefixNext
<1>3. Parsed(SubSeq(sent, 1, read + 1)) = ParseLine(Parsed(SubSeq(sent, 1, read)), sent[read + 1])
  BY <1>2, ParsedFold
<1>4. Arrived' = ParseLine(Arrived, Line)
  BY <1>3 DEF Arrived, Line
<1>6. Line \in WireLine /\ ParseLine(Arrived, Line) \in Parse
  BY <1>1, <1>2, ParseCases DEF Line
<1> QED
  BY <1>1, <1>4, <1>5, <1>6

(* everything else the client does leaves what has arrived as it was       *)
LEMMA ArrivedSame ==
  ASSUME StreamTypeOK, UNCHANGED <<sent, read>>
  PROVE  /\ Arrived' = Arrived /\ sent' \in Seq(WireLine) /\ read' \in 0 .. Len(sent')
         /\ Arrived' \in Parse
  BY DEF StreamTypeOK, Arrived, Parse

(* a step is the client's or somebody else's                               *)
LEMMA StreamSteps ==
  ASSUME [Next]_vars
  PROVE  EnvironmentStep \/ ((GotFirstResponseByte \/ ExecuteStep) /\ UNCHANGED <<server, served>>)
  BY DEF Next, ClientStep, EnvironmentStep

LEMMA StreamTypeStep == StreamTypeOK /\ [Next]_vars => StreamTypeOK'
<1> SUFFICES ASSUME StreamTypeOK, [Next]_vars PROVE StreamTypeOK'
  OBVIOUS
<1>1. CASE EnvironmentStep
  BY <1>1, Environment DEF StreamTypeOK, clientVars, parserVars
<1> USE DEF connectionVars, clientVars, parserVars
<1>2. CASE GotFirstResponseByte /\ UNCHANGED <<server, served>>
  <2>1. UNCHANGED <<sent, read>>
    BY <1>2 DEF GotFirstResponseByte
  <2> QED
    BY <1>2, <2>1, ArrivedSame DEF GotFirstResponseByte, StreamTypeOK, Offset, Parse
<1>3. CASE DoSucceeds /\ UNCHANGED <<server, served>>
  <2>1. UNCHANGED <<sent, read>>
    BY <1>3 DEF DoSucceeds
  <2>2. [WithFirstByte(obs) EXCEPT !.headers = now] \in Observation
    <3>1. WithFirstByte(obs) \in Observation
      BY DEF StreamTypeOK, WithFirstByte, Observation
    <3> QED
      BY <3>1 DEF StreamTypeOK, Observation, Offset
  <2> QED
    BY <1>3, <2>1, <2>2, ArrivedSame DEF DoSucceeds, StreamTypeOK, Parse
<1>4. CASE DoFails /\ UNCHANGED <<server, served>>
  <2>1. UNCHANGED <<sent, read>>
    BY <1>4 DEF DoFails
  <2>2. WithFirstByte(obs) \in Observation
    BY DEF StreamTypeOK, WithFirstByte, Observation
  <2> QED
    BY <1>4, <2>1, <2>2, ArrivedSame DEF DoFails, StreamTypeOK, Parse, EndKinds
<1>5. CASE ReadOtherLine /\ UNCHANGED <<server, served>>
  BY <1>5, ArrivedNext DEF ReadOtherLine, StreamTypeOK, Parse
<1>6. CASE ReadDataLine /\ UNCHANGED <<server, served>>
  <2>1. Arrived' \in Parse /\ sent' \in Seq(WireLine) /\ read' \in 0 .. Len(sent') /\ Line.body \in Body
    BY <1>6, ArrivedNext DEF ReadDataLine, WireLine
  <2>2. frame' \in Seq(Body) /\ frameBytes' \in Nat
    <3>1. JoinedBytes(Line.body) \in Nat
      BY <2>1 DEF StreamTypeOK, JoinedBytes, Body
    <3>2. frame \in Seq(Body) /\ Append(frame, Line.body) \in Seq(Body) /\ frameBytes \in Nat
      BY <2>1 DEF StreamTypeOK
    <3> QED
      BY <1>6, <3>1, <3>2 DEF ReadDataLine
  <2>3. pc' \in {"reading", "closing"} /\ err' \in EndKinds
    BY <1>6 DEF ReadDataLine, Stop, StreamTypeOK, EndKinds, Reading
  <2> QED
    BY <1>6, <2>1, <2>2, <2>3 DEF ReadDataLine, StreamTypeOK, Parse
<1>7. CASE ReadBlankLine /\ UNCHANGED <<server, served>>
  <2>1. Arrived' \in Parse /\ sent' \in Seq(WireLine) /\ read' \in 0 .. Len(sent')
    BY <1>7, ArrivedNext DEF ReadBlankLine
  <2>2. Handled(frame).obs \in Observation /\ Handled(frame).err \in EndKinds /\ Handled(frame).done \in BOOLEAN
    BY HandledCases
  <2>3. pc' \in {"reading", "closing"} /\ err' \in EndKinds
    BY <1>7, <2>2 DEF ReadBlankLine, Stop, StreamTypeOK, Reading
  <2>4. frame' = <<>> /\ frameBytes' = 0 /\ seenDone' \in BOOLEAN /\ obs' \in Observation
    BY <1>7, <2>2 DEF ReadBlankLine, Dispatch
  <2> QED
    BY <1>7, <2>1, <2>3, <2>4 DEF ReadBlankLine, StreamTypeOK, Parse
<1>8. CASE ReadEnd /\ UNCHANGED <<server, served>>
  <2>1. UNCHANGED <<sent, read>>
    BY <1>8 DEF ReadEnd
  <2>2. Handled(frame).obs \in Observation /\ Handled(frame).err \in EndKinds /\ Handled(frame).done \in BOOLEAN
    BY HandledCases
  <2>3. EndVerdict(Handled(frame)) \in EndKinds
    BY <2>2 DEF EndVerdict, EndKinds
  <2>4. frame' = <<>> /\ frameBytes' = 0 /\ seenDone' \in BOOLEAN /\ obs' \in Observation
    BY <1>8, <2>2 DEF ReadEnd, Dispatch, Observation
  <2> QED
    BY <1>8, <2>1, <2>3, <2>4, ArrivedSame DEF ReadEnd, Stop, StreamTypeOK, Parse
<1>9. CASE (ReadFails \/ DiscardBody) /\ UNCHANGED <<server, served>>
  <2>1. UNCHANGED <<sent, read>>
    BY <1>9 DEF ReadFails, DiscardBody
  <2> QED
    BY <1>9, <2>1, ArrivedSame DEF ReadFails, DiscardBody, Stop, StreamTypeOK, Parse, EndKinds
<1>10. ASSUME NEW fails \in BOOLEAN, CloseBody(fails), UNCHANGED <<server, served>>
       PROVE  StreamTypeOK'
  <2>1. UNCHANGED <<sent, read>>
    BY <1>10 DEF CloseBody
  <2> QED
    BY <1>10, <2>1, ArrivedSame DEF CloseBody, StreamTypeOK, Parse, EndKinds
<1>11. CASE Return /\ UNCHANGED <<server, served>>
  <2>1. UNCHANGED <<sent, read>>
    BY <1>11 DEF Return
  <2>2. RunError(obs, err) \in EndKinds
    BY DEF RunError, StreamTypeOK, EndKinds
  <2>3. [obs EXCEPT !.completed = now, !.error = RunError(obs, err)] \in Observation
    BY <2>2 DEF StreamTypeOK, Observation, Offset
  <2> QED
    BY <1>11, <2>1, <2>2, <2>3, ArrivedSame DEF Return, StreamTypeOK, Parse
<1> QED
  BY <1>1, <1>2, <1>3, <1>4, <1>5, <1>6, <1>7, <1>8, <1>9, <1>10, <1>11, StreamSteps DEF ExecuteStep

LEMMA StreamTypeInit == Init => StreamTypeOK
<1> SUFFICES ASSUME Init PROVE StreamTypeOK
  OBVIOUS
<1>1. PICK requested \in BOOLEAN : ClientInit(requested)
  BY DEF Init
<1>2. SubSeq(sent, 1, read) = <<>> /\ sent = <<>> /\ read = 0
  BY <1>1 DEF Init, ClientInit
<1>3. Arrived \in [ended : Seq(Seq(Body)), open : Seq(Body)]
  <2>1. Arrived = [ended |-> <<>>, open |-> <<>>]
    BY <1>2, ParsedFold DEF Arrived
  <2>2. <<>> \in Seq(Seq(Body)) /\ <<>> \in Seq(Body)
    OBVIOUS
  <2> QED
    BY <2>1, <2>2
<1>4. obs \in Observation
  BY <1>1 DEF ClientInit, Observation, Offset, NoTime, NoUsage, EndKinds
<1>5. sent \in Seq(WireLine) /\ read \in 0 .. Len(sent) /\ frame \in Seq(Body)
  BY <1>1, <1>2 DEF ClientInit
<1> QED
  BY <1>1, <1>3, <1>4, <1>5 DEF Init, ClientInit, StreamTypeOK, Offset, EndKinds

(***************************************************************************)
(* The frame being collected                                               *)
(***************************************************************************)

LEMMA CollectedFits ==
  ASSUME StreamTypeOK, FrameInv, frame # <<>>
  PROVE  Fits(frame)
  BY DEF StreamTypeOK, FrameInv, Fits

(* the client's count is the size of the frame with the line               *)
LEMMA JoinedBytesSize ==
  ASSUME StreamTypeOK, FrameInv, NEW b \in Body
  PROVE  JoinedBytes(b) = JoinedSize(Append(frame, b)) /\ JoinedBytes(b) \in Nat
<1>1. frame \in Seq(Body) /\ frameBytes \in Nat /\ b.size \in Nat
  BY DEF StreamTypeOK, Body
<1>2. JoinedSize(Append(frame, b)) = IF frame = <<>> THEN b.size ELSE JoinedSize(frame) + b.size + 1
  BY <1>1, JoinedAppend
<1>3. JoinedBytes(b) = frameBytes + b.size + (IF frame = <<>> THEN 0 ELSE 1)
  BY DEF JoinedBytes
<1>4. frame = <<>> => frameBytes = 0
  BY DEF FrameInv
<1>5. frame # <<>> => frameBytes = JoinedSize(frame)
  BY DEF FrameInv
<1> QED
  BY <1>1, <1>2, <1>3, <1>4, <1>5

LEMMA FrameStep ==
  ASSUME StreamTypeOK, FrameInv, [Next]_vars
  PROVE  FrameInv'
<1> USE DEF connectionVars, clientVars, parserVars
<1>1. CASE UNCHANGED <<frame, frameBytes>>
  BY <1>1 DEF FrameInv
<1>2. CASE frame' = <<>> /\ frameBytes' = 0
  BY <1>2, RequestStreamAssumption DEF FrameInv
<1>3. CASE ReadDataLine /\ ~UNCHANGED frame
  <2>1. /\ Scannable(Line.body) /\ FrameFits(Line.body)
        /\ frame' = Append(frame, Line.body) /\ frameBytes' = JoinedBytes(Line.body)
    BY <1>3 DEF ReadDataLine
  <2>2. Line.body \in Body
    BY <1>3, ArrivedNext DEF ReadDataLine, WireLine
  <2>3. frame' # <<>> /\ frameBytes' = JoinedSize(frame') /\ frameBytes' <= MaxFrame
    <3>1. frame \in Seq(Body) /\ JoinedBytes(Line.body) = JoinedSize(Append(frame, Line.body))
      BY <2>2, JoinedBytesSize DEF StreamTypeOK
    <3> QED
      BY <2>1, <2>2, <3>1 DEF FrameFits
  <2>4. \A j \in DOMAIN frame' : Scannable(frame'[j])
    <3>1. /\ frame \in Seq(Body) /\ DOMAIN frame' = 1 .. Len(frame) + 1
          /\ \A j \in 1 .. Len(frame) : frame'[j] = frame[j]
          /\ frame'[Len(frame) + 1] = Line.body
      BY <2>1, <2>2 DEF StreamTypeOK
    <3> QED
      BY <2>1, <3>1 DEF FrameInv
  <2> QED
    BY <2>3, <2>4 DEF FrameInv, Scannable
<1>4. \/ UNCHANGED <<frame, frameBytes>>
      \/ frame' = <<>> /\ frameBytes' = 0
      \/ ReadDataLine /\ ~UNCHANGED frame
  <2>1. CASE EnvironmentStep
    BY <2>1, Environment
  <2>2. CASE GotFirstResponseByte \/ DoSucceeds \/ DoFails
    BY <2>2 DEF GotFirstResponseByte, DoSucceeds, DoFails
  <2>3. CASE ReadOtherLine
    BY <2>3 DEF ReadOtherLine
  <2>4. CASE ReadDataLine
    BY <2>4 DEF ReadDataLine
  <2>5. CASE ReadBlankLine \/ ReadEnd
    BY <2>5 DEF ReadBlankLine, ReadEnd, Dispatch
  <2>6. CASE ReadFails \/ DiscardBody \/ Return
    BY <2>6 DEF ReadFails, DiscardBody, Return
  <2>7. CASE \E fails \in BOOLEAN : CloseBody(fails)
    BY <2>7 DEF CloseBody
  <2> QED
    BY <2>1, <2>2, <2>3, <2>4, <2>5, <2>6, <2>7, StreamSteps DEF ExecuteStep
<1> QED
  BY <1>1, <1>2, <1>3, <1>4

(***************************************************************************)
(* The evidence                                                            *)
(***************************************************************************)

(* while it reads, the client collects the open frame and has dispatched   *)
(* every other                                                             *)
LEMMA AnswerNow ==
  ASSUME StreamTypeOK, ProgressInv, pc = "reading"
  PROVE  /\ Answer \in Seq(Seq(Body)) /\ Taken \in Nat
         /\ Len(Answer) = IF frame = <<>> THEN Taken ELSE Taken + 1
         /\ frame # <<>> => Answer[Taken + 1] = frame
         /\ \A i \in 1 .. Taken : Answer[i] = Arrived.ended[i]
<1>1. /\ Arrived.ended \in Seq(Seq(Body)) /\ frame \in Seq(Body)
      /\ frame = Arrived.open /\ Taken = Len(Arrived.ended)
  BY DEF StreamTypeOK, ProgressInv
<1>2. Answer = IF frame = <<>> THEN Arrived.ended ELSE Append(Arrived.ended, frame)
  BY <1>1 DEF Answer, Ended
<1> QED
  BY <1>1, <1>2

(* a line that ends no frame, or adds to the open one                      *)
LEMMA AnswerNext ==
  ASSUME StreamTypeOK, ProgressInv, Reading, sent' = sent, read' = read + 1
  PROVE  /\ Line.kind = "other" => Arrived' = Arrived /\ Answer' = Answer
         /\ Line.kind = "blank" => Answer' = Answer /\ Arrived'.ended = Answer /\ Arrived'.open = <<>>
         /\ Line.kind = "data" =>
              /\ Arrived'.ended = Arrived.ended /\ Arrived'.open = Append(frame, Line.body)
              /\ Len(Answer') = Taken + 1
              /\ Answer'[Taken + 1] = Append(frame, Line.body)
              /\ \A i \in 1 .. Taken : Answer'[i] = Answer[i]
<1>1. /\ Arrived' = ParseLine(Arrived, Line) /\ Line \in WireLine /\ Arrived \in Parse
      /\ Arrived' \in Parse
  BY ArrivedNext DEF StreamTypeOK, Parse
<1>2. /\ Answer = Ended(Arrived) /\ Answer' = Ended(Arrived')
      /\ frame = Arrived.open /\ Taken = Len(Arrived.ended)
  BY DEF Answer, ProgressInv, Reading
<1>3. Line.kind = "other" => Arrived' = Arrived /\ Answer' = Answer
  BY <1>1, <1>2, ParseCases
<1>4. ASSUME Line.kind = "blank"
      PROVE  Answer' = Answer /\ Arrived'.ended = Answer /\ Arrived'.open = <<>>
  <2>1. Arrived'.ended = Answer /\ Arrived'.open = <<>>
    BY <1>1, <1>2, <1>4, ParseCases
  <2> QED
    BY <1>2, <2>1 DEF Ended
<1>5. ASSUME Line.kind = "data"
      PROVE  /\ Arrived'.ended = Arrived.ended /\ Arrived'.open = Append(frame, Line.body)
             /\ Len(Answer') = Taken + 1
             /\ Answer'[Taken + 1] = Append(frame, Line.body)
             /\ \A i \in 1 .. Taken : Answer'[i] = Answer[i]
  <2>1. Arrived'.ended = Arrived.ended /\ Arrived'.open = Append(frame, Line.body)
    BY <1>1, <1>2, <1>5, ParseCases
  <2>2. Append(frame, Line.body) # <<>> /\ Append(frame, Line.body) \in Seq(Body)
    <3>1. frame \in Seq(Body) /\ Line.body \in Body
      BY <1>1 DEF StreamTypeOK, WireLine
    <3> QED
      BY <3>1
  <2>3. Answer' = Append(Arrived.ended, Append(frame, Line.body))
    BY <1>2, <2>1, <2>2 DEF Ended
  <2>4. Arrived.ended \in Seq(Seq(Body)) /\ \A i \in 1 .. Taken : Answer[i] = Arrived.ended[i]
    BY <1>1, AnswerNow DEF Parse, Reading
  <2> HIDE DEF Taken
  <2> QED
    BY <1>2, <2>1, <2>2, <2>3, <2>4
<1> QED
  BY <1>3, <1>4, <1>5

LEMMA EvidenceSame ==
  ASSUME StreamTypeOK, EvidenceInv, AcceptedInv, UNCHANGED seenDone,
         obs'.events = obs.events, obs'.usage = obs.usage, ~obs'.invalid => ~obs.invalid,
         Len(Answer') \in Nat, Len(Answer) <= Len(Answer'), Len(Answer') <= Taken + 1,
         \A i \in 1 .. Taken : Answer'[i] = Answer[i]
  PROVE  EvidenceInv' /\ AcceptedInv'
<1>1. Taken' = Taken /\ Taken \in Nat
  BY DEF Taken, StreamTypeOK, Observation
<1>2. EvidenceInv'
  BY <1>1 DEF EvidenceInv
<1>3. AcceptedInv'
  BY <1>1 DEF AcceptedInv
<1> QED
  BY <1>2, <1>3

(* the end of a frame, or of the stream                                    *)
LEMMA EvidenceDispatch ==
  ASSUME StreamTypeOK, FrameInv, ProgressInv, EvidenceInv, AcceptedInv, pc = "reading", Dispatch,
         Answer' = Answer,
         obs'.events = Handled(frame).obs.events, obs'.usage = Handled(frame).obs.usage,
         obs'.invalid = Handled(frame).obs.invalid
  PROVE  /\ EvidenceInv' /\ AcceptedInv'
         /\ Handled(frame).err = "none" => Taken' = Len(Answer)
         /\ Handled(frame).err # "none" => Taken' = Taken /\ Len(Answer) = Taken + 1
                                           /\ Answer[Taken + 1] = frame
<1> DEFINE h == Handled(frame)
<1>1. /\ Answer \in Seq(Seq(Body)) /\ Taken \in Nat /\ Taken = Len(obs.events)
      /\ Len(Answer) = IF frame = <<>> THEN Taken ELSE Taken + 1
      /\ frame # <<>> => Answer[Taken + 1] = frame
      /\ obs.events \in Seq(Observed) /\ Noted(frame, now) \in Observed
      /\ seenDone' = h.done
  BY AnswerNow, FrameKinds DEF StreamTypeOK, Observation, Dispatch, Taken
<1> HIDE DEF h
<1>2. CASE frame = <<>>
  <2>1. h.err = "none" /\ h.done = seenDone /\ h.obs = obs
    BY <1>2, HandledCases DEF h
  <2>2. EvidenceInv' /\ AcceptedInv'
    BY <1>1, <1>2, <2>1, EvidenceSame DEF h
  <2> QED
    BY <1>1, <1>2, <2>1, <2>2 DEF h, Taken
<1>3. CASE frame # <<>> /\ h.err # "none"
  <2>1. h.done = seenDone /\ h.obs.events = obs.events /\ h.obs.usage = obs.usage
        /\ (~h.obs.invalid => ~obs.invalid)
    <3>1. h.done \in BOOLEAN /\ seenDone \in BOOLEAN /\ h.err \in {"none", "dataAfterDone", "decode", "usage"}
      BY HandledCases DEF StreamTypeOK, h
    <3>2. h.done <=> seenDone
      BY <1>3, <3>1, HandledCases DEF h
    <3>3. h.obs.events = obs.events /\ h.obs.usage = obs.usage /\ (~h.obs.invalid => ~obs.invalid)
      BY <1>3, HandledCases DEF h
    <3> QED
      BY <3>1, <3>2, <3>3
  <2>2. EvidenceInv' /\ AcceptedInv'
    BY <1>1, <1>3, <2>1, EvidenceSame DEF h
  <2> QED
    BY <1>1, <1>3, <2>1, <2>2 DEF h, Taken
<1>4. CASE frame # <<>> /\ h.err = "none"
  <2>1. /\ ~seenDone
        /\ IF h.done THEN IsDone(frame) ELSE Clean(frame)
        /\ h.obs.events = Append(obs.events, Noted(frame, now))
        /\ h.obs.usage = IF Decodes(frame) /\ EventOf(frame).usage # NoUsage
                          THEN EventOf(frame).usage ELSE obs.usage
        /\ ~h.obs.invalid => ~obs.invalid /\ ~Negative(frame)
    BY <1>4, HandledCases DEF h
  <2>2. obs'.events = Append(obs.events, Noted(frame, now))
    BY <2>1 DEF h
  <2>3. /\ Taken' = Taken + 1 /\ Taken' = Len(Answer)
        /\ obs'.events[Taken + 1] = Noted(frame, now)
        /\ \A i \in 1 .. Taken : obs'.events[i] = obs.events[i]
    BY <1>1, <1>4, <2>2 DEF Taken
  <2>4. Noted(frame, now) = Noted(frame, Noted(frame, now).at)
    BY DEF Noted
  <2>5. EvidenceInv'
    <3>1. \A i \in 1 .. Taken' : obs'.events[i] = Noted(Answer'[i], obs'.events[i].at)
      <4> SUFFICES ASSUME NEW i \in 1 .. Taken' PROVE obs'.events[i] = Noted(Answer'[i], obs'.events[i].at)
        OBVIOUS
      <4>1. CASE i = Taken + 1
        BY <1>1, <1>4, <2>3, <2>4, <4>1
      <4>2. CASE i \in 1 .. Taken
        BY <2>3, <4>2 DEF EvidenceInv
      <4> QED
        BY <1>1, <2>3, <4>1, <4>2
    <3> QED
      BY <1>1, <2>3, <3>1 DEF EvidenceInv
  <2>6. AcceptedInv'
    <3>1. \A i \in 1 .. Taken' : i \in 1 .. Taken \/ (i = Taken + 1 /\ Answer'[i] = frame)
      BY <1>1, <1>4, <2>3
    <3>2. Fits(frame)
      BY <1>4, CollectedFits
    <3>3. \A i \in 1 .. Taken' : Fits(Answer'[i])
      BY <3>1, <3>2 DEF AcceptedInv
    <3>4. \A i \in 1 .. Taken' : (i = Taken' /\ seenDone') \/ Clean(Answer'[i])
      <4>1. \A i \in 1 .. Taken : Clean(Answer[i])
        BY <2>1 DEF AcceptedInv
      <4>2. h.done \/ Clean(frame)
        BY <2>1
      <4> QED
        BY <1>1, <2>3, <3>1, <4>1, <4>2
    <3>5. seenDone' => Taken' >= 1 /\ IsDone(Answer'[Taken'])
      BY <1>1, <1>4, <2>1, <2>3
    <3>6. obs'.usage # NoUsage =>
            \E i \in 1 .. Taken' : Decodes(Answer'[i]) /\ EventOf(Answer'[i]).usage = obs'.usage
      <4>1. CASE h.obs.usage = obs.usage
        <5>1. \A i \in 1 .. Taken : i \in 1 .. Taken'
          BY <1>1, <2>3
        <5> QED
          BY <4>1, <5>1 DEF AcceptedInv, h
      <4>2. CASE Decodes(frame) /\ h.obs.usage = EventOf(frame).usage
        <5>1. Taken + 1 \in 1 .. Taken' /\ Answer'[Taken + 1] = frame
          BY <1>1, <1>4, <2>3
        <5> QED
          BY <4>2, <5>1 DEF h
      <4> QED
        BY <2>1, <4>1, <4>2
    <3>8. obs'.usage = NoUsage =>
            \A i \in 1 .. Taken' : Decodes(Answer'[i]) => EventOf(Answer'[i]).usage = NoUsage
      <4> SUFFICES ASSUME h.obs.usage = NoUsage
                   PROVE  \A i \in 1 .. Taken' : Decodes(Answer'[i]) => EventOf(Answer'[i]).usage = NoUsage
        BY DEF h
      <4>1. obs.usage = NoUsage /\ (Decodes(frame) => EventOf(frame).usage = NoUsage)
        BY <2>1
      <4>2. \A i \in 1 .. Taken : Decodes(Answer[i]) => EventOf(Answer[i]).usage = NoUsage
        BY <4>1 DEF AcceptedInv
      <4> QED
        BY <3>1, <4>1, <4>2
    <3>7. ~obs'.invalid => \A i \in 1 .. Taken' : ~Negative(Answer'[i])
      BY <2>1, <3>1 DEF AcceptedInv, h
    <3> QED
      BY <3>3, <3>4, <3>5, <3>6, <3>7, <3>8 DEF AcceptedInv
  <2> QED
    BY <1>4, <2>3, <2>5, <2>6 DEF h
<1> QED
  BY <1>2, <1>3, <1>4

(* steps that hand no frame to the handler                                 *)
QuietStep ==
  /\ Arrived' = Arrived
  /\ UNCHANGED seenDone
  /\ obs'.events = obs.events
  /\ obs'.usage = obs.usage
  /\ obs'.invalid = obs.invalid

LEMMA QuietSteps ==
  ASSUME StreamTypeOK, ProgressInv, [Next]_vars
  PROVE  QuietStep \/ ReadDataLine \/ ReadBlankLine \/ ReadEnd
<1> USE DEF connectionVars, clientVars, parserVars
<1>1. CASE EnvironmentStep
  BY <1>1, Environment DEF QuietStep
<1>2. CASE UNCHANGED <<sent, read, seenDone, obs>>
  BY <1>2, ArrivedSame DEF QuietStep
<1>3. CASE DoSucceeds
  <2>1. obs' = [WithFirstByte(obs) EXCEPT !.headers = now] /\ UNCHANGED <<sent, read, seenDone>>
    BY <1>3 DEF DoSucceeds
  <2>2. /\ obs'.events = obs.events /\ obs'.usage = obs.usage /\ obs'.invalid = obs.invalid
    BY <2>1 DEF WithFirstByte, StreamTypeOK, Observation
  <2> QED
    BY <2>1, <2>2, ArrivedSame DEF QuietStep
<1>4. CASE DoFails
  <2>1. obs' = WithFirstByte(obs) /\ UNCHANGED <<sent, read, seenDone>>
    BY <1>4 DEF DoFails
  <2>2. /\ obs'.events = obs.events /\ obs'.usage = obs.usage /\ obs'.invalid = obs.invalid
    BY <2>1 DEF WithFirstByte, StreamTypeOK, Observation
  <2> QED
    BY <2>1, <2>2, ArrivedSame DEF QuietStep
<1>5. CASE ReadOtherLine
  <2>1. Reading /\ sent' = sent /\ read' = read + 1 /\ Line.kind = "other" /\ UNCHANGED <<seenDone, obs>>
    BY <1>5 DEF ReadOtherLine
  <2> QED
    BY <2>1, AnswerNext DEF QuietStep
<1>6. CASE ReadFails \/ DiscardBody
  BY <1>2, <1>6 DEF ReadFails, DiscardBody
<1>7. CASE Return
  <2>1. obs' = [obs EXCEPT !.completed = now, !.error = RunError(obs, err)]
        /\ UNCHANGED <<sent, read, seenDone>>
    BY <1>7 DEF Return
  <2>2. /\ obs'.events = obs.events /\ obs'.usage = obs.usage /\ obs'.invalid = obs.invalid
    BY <2>1 DEF StreamTypeOK, Observation
  <2> QED
    BY <2>1, <2>2, ArrivedSame DEF QuietStep
<1>8. CASE GotFirstResponseByte \/ \E fails \in BOOLEAN : CloseBody(fails)
  BY <1>2, <1>8 DEF GotFirstResponseByte, CloseBody
<1> QED
  BY <1>1, <1>3, <1>4, <1>5, <1>6, <1>7, <1>8, StreamSteps DEF ExecuteStep

LEMMA EvidenceStep ==
  ASSUME StreamTypeOK, FrameInv, ProgressInv, EvidenceInv, AcceptedInv, [Next]_vars
  PROVE  EvidenceInv' /\ AcceptedInv'
<1>1. CASE QuietStep
  <2>1. Answer' = Answer
    BY <1>1 DEF QuietStep, Answer
  <2>2. Len(Answer) \in Nat
    BY ParseCases, BodyTypes DEF Answer, StreamTypeOK, Parse
  <2> QED
    BY <1>1, <2>1, <2>2, EvidenceSame DEF QuietStep, EvidenceInv
<1>2. CASE ReadDataLine
  <2>1. Reading /\ pc = "reading" /\ sent' = sent /\ read' = read + 1 /\ Line.kind = "data"
        /\ UNCHANGED <<obs, seenDone>>
    BY <1>2 DEF ReadDataLine, Reading, connectionVars
  <2>2. /\ Len(Answer') = Taken + 1 /\ Taken \in Nat
        /\ \A i \in 1 .. Taken : Answer'[i] = Answer[i]
        /\ Len(Answer) <= Taken + 1
    BY <2>1, AnswerNext, AnswerNow DEF EvidenceInv
  <2>3. Len(Answer) <= Len(Answer') /\ Len(Answer') \in Nat /\ Len(Answer') <= Taken + 1
    BY <2>2
  <2> QED
    BY <2>1, <2>2, <2>3, EvidenceSame
<1>3. CASE ReadBlankLine
  <2>1. Reading /\ pc = "reading" /\ sent' = sent /\ read' = read + 1 /\ Line.kind = "blank"
        /\ Dispatch /\ obs' = Handled(frame).obs
    BY <1>3 DEF ReadBlankLine, Reading, connectionVars
  <2>2. Answer' = Answer
    BY <2>1, AnswerNext
  <2> QED
    BY <2>1, <2>2, EvidenceDispatch
<1>4. CASE ReadEnd
  <2>1. pc = "reading" /\ UNCHANGED <<sent, read>> /\ Dispatch
        /\ obs' = [Handled(frame).obs EXCEPT !.through = (EndVerdict(Handled(frame)) = "none")]
    BY <1>4 DEF ReadEnd, connectionVars
  <2>2. Handled(frame).obs \in Observation
    BY HandledCases
  <2>3. /\ obs'.events = Handled(frame).obs.events /\ obs'.usage = Handled(frame).obs.usage
        /\ obs'.invalid = Handled(frame).obs.invalid
    BY <2>1, <2>2 DEF Observation
  <2>4. Answer' = Answer
    BY <2>1, ArrivedSame DEF Answer
  <2> QED
    BY <2>1, <2>3, <2>4, EvidenceDispatch
<1> QED
  BY <1>1, <1>2, <1>3, <1>4, QuietSteps

(***************************************************************************)
(* Progress and the end                                                    *)
(***************************************************************************)

LEMMA ProgressStep ==
  ASSUME StreamTypeOK, FrameInv, ProgressInv, EvidenceInv, AcceptedInv, [Next]_vars
  PROVE  ProgressInv'
<1> USE DEF connectionVars, clientVars, parserVars
<1>1. CASE EnvironmentStep
  <2>1. Taken' = Taken /\ obs' = obs
    BY <1>1, Environment DEF Taken
  <2> QED
    BY <1>1, <2>1, Environment DEF ProgressInv
<1>2. CASE GotFirstResponseByte
  <2>1. Arrived' = Arrived /\ Taken' = Taken
    BY <1>2, ArrivedSame DEF GotFirstResponseByte, Taken
  <2> QED
    BY <1>2, <2>1 DEF GotFirstResponseByte, ProgressInv
<1>3. CASE DoSucceeds
  <2>1. /\ pc = "roundTrip" /\ UNCHANGED <<heardByte, response, sent, read, frame, seenDone, err>>
        /\ pc' = IF response = "ok" THEN "reading" ELSE "discarding"
        /\ obs' = [WithFirstByte(obs) EXCEPT !.headers = now]
        /\ response # "none"
    BY <1>3 DEF DoSucceeds, ProgressInv
  <2>2. obs'.events = obs.events /\ obs'.through = obs.through /\ obs'.error = obs.error
    BY <2>1 DEF WithFirstByte, StreamTypeOK, Observation
  <2>3. read = 0 /\ frame = <<>> /\ obs.events = <<>> /\ ~seenDone /\ err = "none" /\ ~obs.through
        /\ obs.error = "none"
    BY <2>1 DEF ProgressInv
  <2>4. Arrived' = [ended |-> <<>>, open |-> <<>>]
    <3>1. SubSeq(sent, 1, 0) = <<>>
      BY DEF StreamTypeOK
    <3> QED
      BY <2>1, <2>3, <3>1, ParsedFold DEF Arrived
  <2>5. Taken' = 0 /\ Len(Arrived'.ended) = 0 /\ Arrived'.open = <<>>
    BY <2>2, <2>3, <2>4 DEF Taken
  <2> QED
    BY <2>1, <2>2, <2>3, <2>5 DEF ProgressInv, StreamTypeOK
<1>4. CASE DoFails
  <2>1. UNCHANGED <<heardByte, response>> /\ pc' = "leaving" /\ pc = "roundTrip" /\ obs' = WithFirstByte(obs)
    BY <1>4 DEF DoFails
  <2>2. obs'.error = obs.error
    BY <2>1 DEF WithFirstByte, StreamTypeOK, Observation
  <2> QED
    BY <2>1, <2>2 DEF ProgressInv
<1>5. CASE ReadOtherLine
  <2>1. Reading /\ sent' = sent /\ read' = read + 1 /\ Line.kind = "other"
        /\ UNCHANGED <<heardByte, response, pc, frame, seenDone, err, obs>> /\ pc = "reading"
    BY <1>5 DEF ReadOtherLine, Reading
  <2>2. Arrived' = Arrived /\ Taken' = Taken
    BY <2>1, AnswerNext DEF Taken
  <2> QED
    BY <2>1, <2>2 DEF ProgressInv
<1>6. CASE ReadDataLine
  <2>1. Reading /\ sent' = sent /\ read' = read + 1 /\ Line.kind = "data" /\ pc = "reading"
        /\ UNCHANGED <<heardByte, response, seenDone, obs>>
    BY <1>6 DEF ReadDataLine, Reading
  <2>2. Arrived'.ended = Arrived.ended /\ Arrived'.open = Append(frame, Line.body) /\ Taken' = Taken
    BY <2>1, AnswerNext DEF Taken
  <2>3. \/ frame' = Append(frame, Line.body) /\ UNCHANGED <<pc, err>>
        \/ pc' = "closing"
    BY <1>6 DEF ReadDataLine, Stop
  <2> QED
    BY <2>1, <2>2, <2>3 DEF ProgressInv
<1>7. CASE ReadBlankLine
  <2>1. Reading /\ pc = "reading" /\ sent' = sent /\ read' = read + 1 /\ Line.kind = "blank"
        /\ Dispatch /\ obs' = Handled(frame).obs /\ UNCHANGED <<heardByte, response>>
    BY <1>7 DEF ReadBlankLine, Reading
  <2>2. Answer' = Answer /\ Arrived'.ended = Answer /\ Arrived'.open = <<>>
    BY <2>1, AnswerNext
  <2>3. Handled(frame).obs.through = obs.through /\ Handled(frame).obs.error = obs.error
    BY HandledCases
  <2>4. CASE Handled(frame).err = "none"
    <3>1. Taken' = Len(Answer)
      BY <2>1, <2>2, <2>4, EvidenceDispatch
    <3>2. UNCHANGED <<pc, err>> /\ frame' = <<>>
      BY <1>7, <2>1, <2>4 DEF ReadBlankLine, Dispatch
    <3> QED
      BY <2>1, <2>2, <2>3, <3>1, <3>2 DEF ProgressInv
  <2>5. CASE Handled(frame).err # "none"
    <3>1. pc' = "closing"
      BY <1>7, <2>5 DEF ReadBlankLine, Stop
    <3> QED
      BY <2>1, <2>3, <3>1 DEF ProgressInv
  <2> QED
    BY <2>4, <2>5
<1>8. CASE ReadEnd
  <2>1. pc = "reading" /\ pc' = "closing" /\ UNCHANGED <<heardByte, response>>
        /\ obs' = [Handled(frame).obs EXCEPT !.through = (EndVerdict(Handled(frame)) = "none")]
    BY <1>8 DEF ReadEnd, Stop
  <2>2. Handled(frame).obs \in Observation /\ Handled(frame).obs.error = obs.error
    BY HandledCases
  <2>3. obs'.error = obs.error
    BY <2>1, <2>2 DEF Observation
  <2> QED
    BY <2>1, <2>3 DEF ProgressInv
<1>9. CASE ReadFails \/ DiscardBody
  <2>1. pc \in {"reading", "discarding"} /\ pc' = "closing" /\ UNCHANGED <<heardByte, response, obs>>
    BY <1>9 DEF ReadFails, DiscardBody, Stop
  <2> QED
    BY <2>1 DEF ProgressInv
<1>10. ASSUME NEW fails \in BOOLEAN, CloseBody(fails)
       PROVE  ProgressInv'
  BY <1>10 DEF CloseBody, ProgressInv
<1>11. CASE Return
  <2>1. pc' = "returned" /\ err' = RunError(obs, err) /\ UNCHANGED <<heardByte, response>>
        /\ obs' = [obs EXCEPT !.completed = now, !.error = RunError(obs, err)]
    BY <1>11 DEF Return
  <2>2. obs'.error = err'
    BY <2>1 DEF StreamTypeOK, Observation
  <2> QED
    BY <2>1, <2>2 DEF ProgressInv
<1> QED
  BY <1>1, <1>2, <1>3, <1>4, <1>5, <1>6, <1>7, <1>8, <1>9, <1>10, <1>11, StreamSteps DEF ExecuteStep

LEMMA EndedStep ==
  ASSUME StreamTypeOK, FrameInv, ProgressInv, EvidenceInv, AcceptedInv, EndedInv, [Next]_vars
  PROVE  EndedInv'
<1> USE DEF connectionVars, clientVars, parserVars
<1>1. CASE EnvironmentStep
  <2>1. /\ UNCHANGED <<pc, err, obs, seenDone>> /\ Answer' = Answer /\ Taken' = Taken
        /\ ContentEvents(obs)' = ContentEvents(obs)
        /\ (Whole => Whole') /\ (cancelled => cancelled')
        /\ (stream = "broken" => stream' = "broken") /\ (response = "error" => response' = "error")
    BY <1>1, Environment DEF Answer, Taken
  <2> QED
    BY <2>1 DEF EndedInv
<1>2. CASE GotFirstResponseByte
  <2>1. /\ UNCHANGED <<cancelled, response, stream, sent, read, pc, err, obs, seenDone>>
    BY <1>2 DEF GotFirstResponseByte
  <2>2. /\ Answer' = Answer /\ Taken' = Taken /\ ContentEvents(obs)' = ContentEvents(obs)
        /\ Whole' = Whole
    BY <2>1, ArrivedSame DEF Answer, Taken, Whole
  <2> QED
    BY <2>1, <2>2 DEF EndedInv
<1>3. CASE DoSucceeds \/ ReadOtherLine
  BY <1>3 DEF DoSucceeds, ReadOtherLine, Reading, EndedInv
<1>4. CASE DoFails
  BY <1>4 DEF DoFails, EndedInv
<1>5. CASE ReadDataLine
  <2>1. Reading /\ sent' = sent /\ read' = read + 1 /\ Line.kind = "data" /\ pc = "reading"
        /\ UNCHANGED <<obs, seenDone>>
    BY <1>5 DEF ReadDataLine, Reading
  <2>2. CASE Scannable(Line.body) /\ FrameFits(Line.body)
    BY <1>5, <2>1, <2>2 DEF ReadDataLine, EndedInv
  <2>3. CASE ~(Scannable(Line.body) /\ FrameFits(Line.body))
    <3>1. err' = "limit" /\ pc' = "closing"
      BY <1>5, <2>3 DEF ReadDataLine, Stop
    <3>2. Taken' = Taken /\ Len(Answer') = Taken + 1 /\ Answer'[Taken + 1] = Append(frame, Line.body)
      BY <2>1, AnswerNext DEF Taken
    <3>3. ~Fits(Append(frame, Line.body))
      <4>1. Line.body \in Body /\ frame \in Seq(Body)
        BY <2>1, ArrivedNext DEF WireLine, StreamTypeOK
      <4>2. CASE ~Scannable(Line.body)
        <5>1. Len(frame) + 1 \in DOMAIN Append(frame, Line.body)
              /\ Append(frame, Line.body)[Len(frame) + 1] = Line.body
          BY <4>1
        <5> QED
          BY <4>2, <5>1 DEF Fits
      <4>3. CASE ~FrameFits(Line.body)
        BY <4>1, <4>3, JoinedBytesSize DEF FrameFits, Fits
      <4> QED
        BY <2>3, <4>2, <4>3
    <3> QED
      BY <3>1, <3>2, <3>3 DEF EndedInv
  <2> QED
    BY <2>2, <2>3
<1>6. CASE ReadBlankLine
  <2>1. Reading /\ pc = "reading" /\ sent' = sent /\ read' = read + 1 /\ Line.kind = "blank"
        /\ Dispatch /\ obs' = Handled(frame).obs
    BY <1>6 DEF ReadBlankLine, Reading
  <2>2. CASE Handled(frame).err = "none"
    BY <1>6, <2>1, <2>2 DEF ReadBlankLine, EndedInv
  <2>3. CASE Handled(frame).err # "none"
    <3>1. err' = Handled(frame).err /\ pc' = "closing" /\ seenDone' = Handled(frame).done
      BY <1>6, <2>3 DEF ReadBlankLine, Stop, Dispatch
    <3>2. Answer' = Answer
      BY <2>1, AnswerNext
    <3>3. Taken' = Taken /\ Len(Answer') = Taken + 1 /\ Answer'[Taken + 1] = frame
      BY <2>1, <2>3, <3>2, EvidenceDispatch
    <3> QED
      BY <2>3, <3>1, <3>3, HandledCases DEF EndedInv
  <2> QED
    BY <2>2, <2>3
<1>7. CASE ReadEnd
  <2> DEFINE h == Handled(frame)
  <2>1. /\ pc = "reading" /\ UNCHANGED <<response, stream, sent, read>> /\ Dispatch
        /\ read = Len(sent) /\ stream = "closed"
        /\ pc' = "closing" /\ err' = EndVerdict(h) /\ seenDone' = h.done
        /\ obs' = [h.obs EXCEPT !.through = (EndVerdict(h) = "none")]
    BY <1>7 DEF ReadEnd, Stop, Dispatch
  <2>2. h.obs \in Observation
    BY HandledCases
  <2>3. /\ obs'.events = h.obs.events /\ obs'.usage = h.obs.usage
        /\ obs'.invalid = h.obs.invalid /\ obs'.through = (EndVerdict(h) = "none")
    BY <2>1, <2>2 DEF Observation
  <2>4. Answer' = Answer
    BY <2>1, ArrivedSame DEF Answer
  <2>5. Whole'
    BY <2>1 DEF Whole, ProgressInv
  <2>6. CASE h.err # "none"
    <3>1. err' = h.err
      BY <2>1, <2>6 DEF EndVerdict
    <3>2. Taken' = Taken /\ Len(Answer') = Taken + 1 /\ Answer'[Taken + 1] = frame
      BY <2>1, <2>3, <2>4, <2>6, EvidenceDispatch
    <3> QED
      BY <2>1, <2>6, <3>1, <3>2, HandledCases DEF EndedInv
  <2>7. CASE h.err = "none"
    <3>1. Taken' = Len(Answer')
      BY <2>1, <2>3, <2>4, <2>7, EvidenceDispatch
    <3>2. err' = IF h.done THEN "none" ELSE "unexpectedEOF"
      BY <2>1, <2>7 DEF EndVerdict
    <3>3. obs'.through = (err' = "none")
      BY <2>1, <2>3
    <3> HIDE DEF h
    <3> QED
      BY <2>1, <2>5, <3>1, <3>2, <3>3 DEF EndedInv
  <2> QED
    BY <2>6, <2>7
<1>8. CASE ReadFails \/ DiscardBody
  <2>1. /\ pc' = "closing" /\ UNCHANGED <<cancelled, response, stream>>
        /\ \/ err' = "read" /\ (cancelled \/ stream = "broken")
           \/ err' = "status" /\ response = "error"
    BY <1>8 DEF ReadFails, DiscardBody, Stop, ProgressInv
  <2> QED
    BY <2>1 DEF EndedInv
<1>9. ASSUME NEW fails \in BOOLEAN, CloseBody(fails)
      PROVE  EndedInv'
  <2>1. /\ UNCHANGED <<cancelled, response, stream, sent, read, obs, seenDone>>
        /\ pc = "closing" /\ pc' = "leaving"
        /\ err' = err \/ (err = "none" /\ err' = "close")
    BY <1>9 DEF CloseBody
  <2>2. /\ Answer' = Answer /\ Taken' = Taken /\ ContentEvents(obs)' = ContentEvents(obs)
        /\ Whole' = Whole
    BY <2>1, ArrivedSame DEF Answer, Taken, Whole
  <2> QED
    BY <2>1, <2>2 DEF EndedInv
<1>10. CASE Return
  <2>1. /\ UNCHANGED <<cancelled, response, stream, sent, read, seenDone>>
        /\ pc = "leaving" /\ pc' = "returned" /\ err' = RunError(obs, err)
        /\ obs' = [obs EXCEPT !.completed = now, !.error = RunError(obs, err)]
    BY <1>10 DEF Return
  <2>2. obs'.events = obs.events /\ obs'.through = obs.through
    BY <2>1 DEF StreamTypeOK, Observation
  <2>3. ContentEvents(obs)' = ContentEvents(obs)
    BY <2>2, ContentFold
  <2>4. Answer' = Answer /\ Taken' = Taken /\ Whole' = Whole
    BY <2>1, <2>2, ArrivedSame DEF Answer, Taken, Whole
  <2>5. \/ err' = err /\ (err = "none" => ContentEvents(obs)' # <<>>)
        \/ err = "none" /\ err' = "noContent" /\ ContentEvents(obs)' = <<>>
    BY <2>1, <2>3 DEF RunError
  <2>6. err # "noContent"
    BY <2>1 DEF EndedInv
  <2> QED
    BY <2>1, <2>2, <2>4, <2>5, <2>6 DEF EndedInv
<1> QED
  BY <1>1, <1>2, <1>3, <1>4, <1>5, <1>6, <1>7, <1>8, <1>9, <1>10, StreamSteps DEF ExecuteStep

(***************************************************************************)
(* Times                                                                   *)
(***************************************************************************)

LEMMA RisingAppend ==
  ASSUME NEW s \in Seq(Observed), NEW e \in Observed, NEW low \in Int, NEW high \in Int,
         Rising(s, low, high), e.at = high, low <= high
  PROVE  Rising(Append(s, e), low, high)
<1>1. /\ DOMAIN Append(s, e) = 1 .. Len(s) + 1 /\ DOMAIN s = 1 .. Len(s) /\ Len(s) \in Nat
      /\ \A i \in 1 .. Len(s) : Append(s, e)[i] = s[i]
      /\ Append(s, e)[Len(s) + 1] = e
  OBVIOUS
<1>2. \A i \in 1 .. Len(s) + 1 : low <= Append(s, e)[i].at /\ Append(s, e)[i].at <= high
  BY <1>1 DEF Rising
<1>3. ASSUME NEW i \in 1 .. Len(s) + 1, NEW j \in 1 .. Len(s) + 1, i <= j
      PROVE  Append(s, e)[i].at <= Append(s, e)[j].at
  <2>1. CASE j = Len(s) + 1
    BY <1>1, <1>2, <2>1
  <2>2. CASE j # Len(s) + 1
    <3>1. i \in 1 .. Len(s) /\ j \in 1 .. Len(s)
      BY <1>1, <1>3, <2>2
    <3> QED
      BY <1>1, <1>3, <3>1 DEF Rising
  <2> QED
    BY <2>1, <2>2
<1> QED
  BY <1>1, <1>2, <1>3 DEF Rising

LEMMA RisingLater ==
  ASSUME NEW s \in Seq(Observed), NEW low \in Int, NEW high \in Int, NEW later \in Int,
         Rising(s, low, high), high <= later
  PROVE  Rising(s, low, later)
<1>1. \A i \in DOMAIN s : s[i].at \in Int
  <2>1. \A i \in DOMAIN s : s[i] \in Observed
    BY ElementOfSeq
  <2> QED
    BY <2>1 DEF Observed
<1> QED
  BY <1>1 DEF Rising

LEMMA RisingNone == \A low, high : Rising(<<>>, low, high)
<1>1. DOMAIN <<>> = {}
  OBVIOUS
<1> QED
  BY <1>1 DEF Rising

(* one event more, in each list of the observation                         *)
LEMMA KeptNext ==
  ASSUME NEW o, NEW n, NEW e \in Observed, o.events \in Seq(Observed), n.events = Append(o.events, e)
  PROVE  /\ ContentEvents(n) = IF e.content THEN Append(ContentEvents(o), e) ELSE ContentEvents(o)
         /\ TokenEvents(n) = IF e.tokens # 0 THEN Append(TokenEvents(o), e) ELSE TokenEvents(o)
  BY ContentFold, TokenFold

LEMMA KeptSame ==
  ASSUME NEW o, NEW n, n.events = o.events
  PROVE  ContentEvents(n) = ContentEvents(o) /\ TokenEvents(n) = TokenEvents(o)
  BY ContentFold, TokenFold

LEMMA KeptTypes ==
  ASSUME NEW o, o.events \in Seq(Observed)
  PROVE  /\ ContentEvents(o) \in Seq(Observed) /\ TokenEvents(o) \in Seq(Observed)
         /\ o.events = <<>> => ContentEvents(o) = <<>> /\ TokenEvents(o) = <<>>
  BY ContentFold, TokenFold, ContentKept, TokenKept

(* what the observation holds of times is untouched                        *)
LEMMA TimesSame ==
  ASSUME StreamTypeOK, TimesInv, ContentInv,
         now' \in Nat, now <= now', heardByte' <= now', pc' = "reading" => pc = "reading",
         pc' # "roundTrip" \/ pc = "roundTrip", pc' = "returned" <=> pc = "returned",
         pc = "returned" => now' = now,
         obs'.events = obs.events, obs'.headers = obs.headers, obs'.completed = obs.completed,
         obs'.firstContent = obs.firstContent, obs'.lastContent = obs.lastContent,
         obs'.firstByte <= now',
         obs.headers # NoTime => obs'.firstByte = obs.firstByte
  PROVE  TimesInv' /\ ContentInv'
<1>1. /\ now \in Int /\ now' \in Int /\ obs.headers \in Int /\ obs.events \in Seq(Observed)
      /\ obs.firstByte \in Int
  BY DEF StreamTypeOK, Observation, Offset, NoTime
<1>2. /\ ContentEvents(obs)' = ContentEvents(obs) /\ TokenEvents(obs)' = TokenEvents(obs)
      /\ ContentEvents(obs) \in Seq(Observed) /\ TokenEvents(obs) \in Seq(Observed)
  BY <1>1, KeptSame, KeptTypes
<1>3. /\ Rising(obs.events, obs.headers, now)'
      /\ Rising(ContentEvents(obs), obs.headers, now)'
      /\ Rising(TokenEvents(obs), obs.headers, now)'
  <2>1. /\ Rising(obs.events, obs.headers, now')
        /\ Rising(ContentEvents(obs), obs.headers, now')
        /\ Rising(TokenEvents(obs), obs.headers, now')
    BY <1>1, <1>2, RisingLater DEF TimesInv
  <2> QED
    BY <1>2, <2>1
<1>4. TimesInv'
  BY <1>1, <1>3 DEF TimesInv
<1>5. ContentInv'
  BY <1>2 DEF ContentInv
<1> QED
  BY <1>4, <1>5

(* one event more                                                          *)
LEMMA TimesAppend ==
  ASSUME StreamTypeOK, TimesInv, ContentInv, pc = "reading", pc' \in {"reading", "closing"},
         UNCHANGED <<now, heardByte>>, NEW e \in Observed, e.at = now,
         obs'.events = Append(obs.events, e),
         obs'.headers = obs.headers, obs'.completed = obs.completed, obs'.firstByte = obs.firstByte,
         obs'.firstContent = IF e.content /\ obs.firstContent = NoTime THEN now ELSE obs.firstContent,
         obs'.lastContent = IF e.content THEN now ELSE obs.lastContent
  PROVE  TimesInv' /\ ContentInv'
<1> DEFINE content == ContentEvents(obs)
           tokens  == TokenEvents(obs)
<1>1. /\ now \in Int /\ obs.headers \in Int /\ obs.events \in Seq(Observed)
      /\ content \in Seq(Observed) /\ tokens \in Seq(Observed)
  <2>1. obs.events \in Seq(Observed)
    BY DEF StreamTypeOK, Observation
  <2> QED
    BY <2>1, KeptTypes DEF StreamTypeOK, Observation, Offset, NoTime
<1>2. /\ content' = IF e.content THEN Append(content, e) ELSE content
      /\ tokens' = IF e.tokens # 0 THEN Append(tokens, e) ELSE tokens
  BY <1>1, KeptNext
<1>3. obs.headers <= now /\ obs.headers # NoTime
  BY DEF TimesInv
<1>4. /\ Rising(Append(obs.events, e), obs.headers, now)
      /\ Rising(content', obs.headers, now)
      /\ Rising(tokens', obs.headers, now)
  <2>1. Rising(obs.events, obs.headers, now) /\ Rising(content, obs.headers, now) /\ Rising(tokens, obs.headers, now)
    BY DEF TimesInv
  <2> HIDE DEF content, tokens
  <2> QED
    BY <1>1, <1>2, <1>3, <2>1, RisingAppend
<1>5. TimesInv'
  BY <1>3, <1>4 DEF TimesInv
<1>6. ContentInv'
  <2>1. /\ obs.firstContent = IF content = <<>> THEN NoTime ELSE content[1].at
        /\ obs.lastContent = IF content = <<>> THEN NoTime ELSE content[Len(content)].at
    BY DEF ContentInv
  <2>2. ContentInv' <=> /\ obs'.firstContent = IF content' = <<>> THEN NoTime ELSE content'[1].at
                        /\ obs'.lastContent = IF content' = <<>> THEN NoTime ELSE content'[Len(content')].at
    BY DEF ContentInv
  <2> HIDE DEF content
  <2>3. CASE ~e.content
    BY <1>2, <2>1, <2>2, <2>3
  <2>4. CASE e.content
    <3>1. content' # <<>> /\ content'[Len(content')] = e
      BY <1>1, <1>2, <2>4
    <3>2. CASE content = <<>>
      <4>1. content'[1] = e /\ obs'.firstContent = now
        BY <1>2, <2>1, <2>4, <3>2
      <4> QED
        BY <2>2, <2>4, <3>1, <4>1
    <3>3. CASE content # <<>>
      <4>1. content'[1] = content[1] /\ content[1] \in Observed
        BY <1>1, <1>2, <2>4, <3>3
      <4>2. obs'.firstContent = content[1].at
        BY <2>1, <3>3, <4>1 DEF Observed, NoTime
      <4> QED
        BY <2>2, <2>4, <3>1, <4>1, <4>2
    <3> QED
      BY <3>2, <3>3
  <2> QED
    BY <2>3, <2>4
<1> QED
  BY <1>5, <1>6

LEMMA TimesDispatch ==
  ASSUME StreamTypeOK, ProgressInv, TimesInv, ContentInv, pc = "reading",
         pc' \in {"reading", "closing"}, UNCHANGED <<now, heardByte>>,
         obs'.events = Handled(frame).obs.events,
         obs'.headers = Handled(frame).obs.headers, obs'.completed = Handled(frame).obs.completed,
         obs'.firstByte = Handled(frame).obs.firstByte,
         obs'.firstContent = Handled(frame).obs.firstContent,
         obs'.lastContent = Handled(frame).obs.lastContent
  PROVE  TimesInv' /\ ContentInv'
<1> DEFINE h == Handled(frame)
<1>1. /\ h.obs.firstByte = obs.firstByte /\ h.obs.headers = obs.headers
      /\ h.obs.completed = obs.completed
  BY HandledCases
<1>2. CASE frame = <<>> \/ h.err # "none"
  <2>1. /\ h.obs.events = obs.events /\ h.obs.firstContent = obs.firstContent
        /\ h.obs.lastContent = obs.lastContent
    BY <1>2, HandledCases
  <2>2. now \in Nat /\ heardByte' <= now' /\ obs.firstByte <= now
    BY DEF StreamTypeOK, TimesInv
  <2> HIDE DEF h
  <2> QED
    BY <1>1, <2>1, <2>2, TimesSame DEF h
<1>3. CASE frame # <<>> /\ h.err = "none"
  <2>1. /\ h.obs.events = Append(obs.events, Noted(frame, now))
        /\ h.obs.firstContent = IF Noted(frame, now).content /\ obs.firstContent = NoTime
                                THEN now ELSE obs.firstContent
        /\ h.obs.lastContent = IF Noted(frame, now).content THEN now ELSE obs.lastContent
    BY <1>3, HandledCases
  <2>2. Noted(frame, now) \in Observed /\ Noted(frame, now).at = now
    BY FrameKinds DEF StreamTypeOK, Noted
  <2> HIDE DEF h
  <2> QED
    BY <1>1, <2>1, <2>2, TimesAppend DEF h
<1> QED
  BY <1>2, <1>3

LEMMA TimesStep ==
  ASSUME StreamTypeOK, ProgressInv, TimesInv, ContentInv, [Next]_vars
  PROVE  TimesInv' /\ ContentInv'
<1> USE DEF connectionVars, clientVars, parserVars
<1>0. /\ now \in Nat /\ heardByte <= now /\ obs.firstByte <= now
      /\ obs \in Observation /\ heardByte \in Offset
  BY DEF StreamTypeOK, TimesInv
<1>1. CASE EnvironmentStep
  <2>1. /\ now' \in Nat /\ now <= now' /\ (pc = "returned" => now' = now)
        /\ UNCHANGED <<heardByte, pc, obs>>
    BY <1>1, Environment
  <2>2. heardByte' <= now' /\ obs'.firstByte <= now'
    BY <1>0, <2>1 DEF Observation, Offset, NoTime
  <2> QED
    BY <2>1, <2>2, TimesSame
<1>2. CASE GotFirstResponseByte
  <2>1. heardByte' = now /\ UNCHANGED <<now, pc, obs>>
    BY <1>2 DEF GotFirstResponseByte
  <2> QED
    BY <1>0, <2>1, TimesSame
<1>3. CASE DoSucceeds
  <2>1. /\ obs' = [WithFirstByte(obs) EXCEPT !.headers = now] /\ heardByte # NoTime
        /\ pc = "roundTrip" /\ pc' \in {"reading", "discarding"} /\ UNCHANGED <<now, heardByte>>
    BY <1>3 DEF DoSucceeds
  <2>2. /\ obs'.events = obs.events /\ obs'.headers = now /\ obs'.firstByte = heardByte
        /\ obs'.completed = obs.completed /\ obs'.firstContent = obs.firstContent
        /\ obs'.lastContent = obs.lastContent
    BY <1>0, <2>1 DEF WithFirstByte, Observation
  <2>3. obs.events = <<>> /\ obs.events \in Seq(Observed)
    BY <1>0, <2>1 DEF ProgressInv, Observation
  <2>4. ContentEvents(obs)' = <<>> /\ TokenEvents(obs)' = <<>>
        /\ ContentEvents(obs) = <<>>
    BY <2>2, <2>3, KeptSame, KeptTypes
  <2>5. TimesInv'
    <3>1. /\ Rising(obs.events, obs.headers, now)'
          /\ Rising(ContentEvents(obs), obs.headers, now)'
          /\ Rising(TokenEvents(obs), obs.headers, now)'
      BY <2>2, <2>3, <2>4, RisingNone
    <3>2. now # NoTime /\ obs.completed = NoTime
      BY <1>0, <2>1 DEF TimesInv, NoTime
    <3> QED
      BY <1>0, <2>1, <2>2, <3>1, <3>2 DEF TimesInv
  <2>6. ContentInv'
    BY <2>2, <2>4 DEF ContentInv
  <2> QED
    BY <2>5, <2>6
<1>4. CASE DoFails
  <2>1. /\ obs' = WithFirstByte(obs) /\ pc = "roundTrip" /\ pc' = "leaving" /\ UNCHANGED <<now, heardByte>>
    BY <1>4 DEF DoFails
  <2>2. /\ obs'.events = obs.events /\ obs'.headers = obs.headers /\ obs'.firstByte = heardByte
        /\ obs'.completed = obs.completed /\ obs'.firstContent = obs.firstContent
        /\ obs'.lastContent = obs.lastContent
    BY <1>0, <2>1 DEF WithFirstByte, Observation
  <2>3. obs.headers = NoTime
    BY <2>1 DEF TimesInv
  <2> QED
    BY <1>0, <2>1, <2>2, <2>3, TimesSame
<1>5. CASE ReadOtherLine
  <2>1. UNCHANGED <<now, heardByte, pc, obs>>
    BY <1>5 DEF ReadOtherLine
  <2> QED
    BY <1>0, <2>1, TimesSame
<1>6. CASE ReadDataLine
  <2>1. UNCHANGED <<now, heardByte, obs>> /\ pc = "reading" /\ pc' \in {"reading", "closing"}
    BY <1>6 DEF ReadDataLine, Reading, Stop
  <2> QED
    BY <1>0, <2>1, TimesSame
<1>7. CASE ReadBlankLine
  <2>1. /\ UNCHANGED <<now, heardByte>> /\ pc = "reading" /\ pc' \in {"reading", "closing"}
        /\ obs' = Handled(frame).obs
    BY <1>7 DEF ReadBlankLine, Reading, Stop
  <2> QED
    BY <2>1, TimesDispatch
<1>8. CASE ReadEnd
  <2>1. /\ UNCHANGED <<now, heardByte>> /\ pc = "reading" /\ pc' = "closing"
        /\ obs' = [Handled(frame).obs EXCEPT !.through = (EndVerdict(Handled(frame)) = "none")]
    BY <1>8 DEF ReadEnd, Stop
  <2>2. Handled(frame).obs \in Observation
    BY HandledCases
  <2>3. /\ obs'.events = Handled(frame).obs.events
        /\ obs'.headers = Handled(frame).obs.headers /\ obs'.completed = Handled(frame).obs.completed
        /\ obs'.firstByte = Handled(frame).obs.firstByte
        /\ obs'.firstContent = Handled(frame).obs.firstContent
        /\ obs'.lastContent = Handled(frame).obs.lastContent
    BY <2>1, <2>2 DEF Observation
  <2> QED
    BY <2>1, <2>3, TimesDispatch
<1>9. CASE ReadFails \/ DiscardBody
  <2>1. UNCHANGED <<now, heardByte, obs>> /\ pc \in {"reading", "discarding"} /\ pc' = "closing"
    BY <1>9 DEF ReadFails, DiscardBody, Stop
  <2> QED
    BY <1>0, <2>1, TimesSame
<1>10. ASSUME NEW fails \in BOOLEAN, CloseBody(fails)
       PROVE  TimesInv' /\ ContentInv'
  <2>1. UNCHANGED <<now, heardByte, obs>> /\ pc = "closing" /\ pc' = "leaving"
    BY <1>10 DEF CloseBody
  <2> QED
    BY <1>0, <2>1, TimesSame
<1>11. CASE Return
  <2>1. /\ obs' = [obs EXCEPT !.completed = now, !.error = RunError(obs, err)]
        /\ pc' = "returned" /\ UNCHANGED <<now, heardByte>>
    BY <1>11 DEF Return
  <2>2. /\ obs'.events = obs.events /\ obs'.headers = obs.headers /\ obs'.firstByte = obs.firstByte
        /\ obs'.completed = now /\ obs'.firstContent = obs.firstContent
        /\ obs'.lastContent = obs.lastContent
    BY <1>0, <2>1 DEF Observation
  <2>3. /\ ContentEvents(obs)' = ContentEvents(obs) /\ TokenEvents(obs)' = TokenEvents(obs)
    BY <2>2, KeptSame
  <2>4. TimesInv'
    BY <2>1, <2>2, <2>3 DEF TimesInv
  <2>5. ContentInv'
    BY <2>2, <2>3 DEF ContentInv
  <2> QED
    BY <2>4, <2>5
<1> QED
  BY <1>1, <1>2, <1>3, <1>4, <1>5, <1>6, <1>7, <1>8, <1>9, <1>10, <1>11, StreamSteps DEF ExecuteStep

(***************************************************************************)
(* The invariant holds                                                     *)
(***************************************************************************)

LEMMA StreamInvInit == Init => StreamInv
<1> SUFFICES ASSUME Init PROVE StreamInv
  OBVIOUS
<1>1. PICK requested \in BOOLEAN : ClientInit(requested)
  BY DEF Init
<1>2. StreamTypeOK
  BY StreamTypeInit
<1>3. /\ obs.events = <<>> /\ obs.usage = NoUsage /\ obs.firstContent = NoTime /\ obs.lastContent = NoTime
      /\ obs.firstByte = NoTime /\ obs.headers = NoTime /\ obs.completed = NoTime
      /\ obs.error = "none" /\ obs.through = FALSE
  BY <1>1 DEF ClientInit
<1>4. Taken = 0 /\ Len(Answer) = 0
  <2>1. SubSeq(sent, 1, read) = <<>>
    BY <1>1 DEF Init, ClientInit
  <2>2. Answer = <<>>
    <3>1. Arrived = [ended |-> <<>>, open |-> <<>>]
      BY <2>1, ParsedFold DEF Arrived
    <3> QED
      BY <3>1 DEF Answer, Ended
  <2> QED
    BY <1>3, <2>2 DEF Taken
<1>5. ContentEvents(obs) = <<>> /\ TokenEvents(obs) = <<>>
  BY <1>3, ContentFold, TokenFold
<1>6. FrameInv
  <2>1. frame = <<>> /\ frameBytes = 0
    BY <1>1 DEF ClientInit
  <2> QED
    BY <2>1, RequestStreamAssumption DEF FrameInv
<1>7. EvidenceInv /\ AcceptedInv
  BY <1>1, <1>3, <1>4 DEF ClientInit, EvidenceInv, AcceptedInv
<1>8. ProgressInv /\ EndedInv
  BY <1>1, <1>3 DEF ClientInit, ProgressInv, EndedInv
<1>9. TimesInv /\ ContentInv
  BY <1>1, <1>3, <1>5, RisingNone DEF ClientInit, TimesInv, ContentInv, NoTime
<1> QED
  BY <1>2, <1>6, <1>7, <1>8, <1>9 DEF StreamInv

(* What the client holds of a stream is what the lines it has read say,    *)
(* and the reason it ends with is the state of those lines.                *)
THEOREM StreamInvariant == Spec => []StreamInv
<1>1. StreamInv /\ [Next]_vars => StreamInv'
  BY StreamTypeStep, FrameStep, EvidenceStep, ProgressStep, EndedStep, TimesStep DEF StreamInv
<1> QED
  BY <1>1, StreamInvInit, PTL DEF Spec

(***************************************************************************)
(* One writer                                                              *)
(***************************************************************************)

(* a step merges what the callback has heard when the round trip ends, and *)
(* leaves the first byte alone otherwise                                   *)
FirstByteMerged ==
  obs'.firstByte = IF pc = "roundTrip" /\ pc' # "roundTrip" THEN heardByte ELSE obs.firstByte

LEMMA FirstByteStep ==
  ASSUME StreamTypeOK, [Next]_vars
  PROVE  FirstByteMerged
<1>0. obs \in Observation
  BY DEF StreamTypeOK
<1>1. CASE EnvironmentStep
  BY <1>1, Environment DEF FirstByteMerged, clientVars
<1>2. CASE GotFirstResponseByte
  BY <1>2 DEF GotFirstResponseByte, FirstByteMerged
<1>3. CASE DoSucceeds
  <2>1. /\ obs' = [WithFirstByte(obs) EXCEPT !.headers = now]
        /\ pc = "roundTrip" /\ pc' \in {"reading", "discarding"}
    BY <1>3 DEF DoSucceeds
  <2>2. obs'.firstByte = heardByte
    BY <1>0, <2>1 DEF WithFirstByte, Observation
  <2> QED
    BY <2>1, <2>2 DEF FirstByteMerged
<1>4. CASE DoFails
  <2>1. obs' = WithFirstByte(obs) /\ pc = "roundTrip" /\ pc' = "leaving"
    BY <1>4 DEF DoFails
  <2>2. obs'.firstByte = heardByte
    BY <1>0, <2>1 DEF WithFirstByte, Observation
  <2> QED
    BY <2>1, <2>2 DEF FirstByteMerged
<1>5. CASE ReadOtherLine \/ ReadDataLine
  <2>1. UNCHANGED obs /\ pc = "reading"
    BY <1>5 DEF ReadOtherLine, ReadDataLine, Reading
  <2> QED
    BY <2>1 DEF FirstByteMerged
<1>6. CASE ReadBlankLine
  <2>1. obs' = Handled(frame).obs /\ pc = "reading"
    BY <1>6 DEF ReadBlankLine, Reading
  <2> QED
    BY <2>1, HandledCases DEF FirstByteMerged
<1>7. CASE ReadEnd
  <2>1. /\ obs' = [Handled(frame).obs EXCEPT !.through = (EndVerdict(Handled(frame)) = "none")]
        /\ pc = "reading"
    BY <1>7 DEF ReadEnd
  <2>2. Handled(frame).obs \in Observation /\ Handled(frame).obs.firstByte = obs.firstByte
    BY HandledCases
  <2>3. obs'.firstByte = obs.firstByte
    BY <2>1, <2>2 DEF Observation
  <2> QED
    BY <2>1, <2>3 DEF FirstByteMerged
<1>8. CASE ReadFails \/ DiscardBody
  <2>1. UNCHANGED obs /\ pc # "roundTrip"
    BY <1>8 DEF ReadFails, DiscardBody
  <2> QED
    BY <2>1 DEF FirstByteMerged
<1>9. ASSUME NEW fails \in BOOLEAN, CloseBody(fails)
      PROVE  FirstByteMerged
  BY <1>9 DEF CloseBody, FirstByteMerged
<1>10. CASE Return
  <2>1. /\ obs' = [obs EXCEPT !.completed = now, !.error = RunError(obs, err)]
        /\ pc = "leaving"
    BY <1>10 DEF Return
  <2>2. obs'.firstByte = obs.firstByte
    BY <1>0, <2>1 DEF Observation
  <2> QED
    BY <2>1, <2>2 DEF FirstByteMerged
<1> QED
  BY <1>1, <1>2, <1>3, <1>4, <1>5, <1>6, <1>7, <1>8, <1>9, <1>10, StreamSteps DEF ExecuteStep

(* A first byte heard in time is merged once and kept, and nothing, the    *)
(* late callback included, changes the observation or the error of a       *)
(* request that has returned.                                              *)
THEOREM ObservationSealedCorrect == Spec => ObservationSealed
<1>1. ASSUME [Next]_vars, pc = "returned"
      PROVE  UNCHANGED <<obs, err>>
  <2> USE DEF clientVars, connectionVars, parserVars
  <2>1. CASE ClientStep
    BY <1>1, <2>1 DEF ClientStep, Tick, CancelRequest, GotFirstResponseByte, ExecuteStep, DoSucceeds, DoFails,
                Reading, ReadOtherLine, ReadDataLine, ReadBlankLine, ReadEnd, ReadFails, DiscardBody,
                CloseBody, Return
  <2>2. CASE FixtureStep
    BY <2>2 DEF FixtureStep, SendHeaders, SendFrame, HandlerReturns, HandlerAbandons
  <2>3. CASE PeerStep
    BY <2>3 DEF PeerStep, PeerResponds, PeerSends, PeerEnds
  <2>4. CASE UNCHANGED vars
    BY <2>4 DEF vars
  <2> QED
    BY <2>1, <2>2, <2>3, <2>4, <1>1 DEF Next
<1>2. StreamInv /\ [Next]_vars =>
        [/\ FirstByteMerged
         /\ pc = "returned" => UNCHANGED <<obs, err>>]_vars
  BY <1>1, FirstByteStep DEF StreamInv
<1>3. StreamInv /\ [Next]_vars =>
        [/\ obs'.firstByte = IF pc = "roundTrip" /\ pc' # "roundTrip" THEN heardByte ELSE obs.firstByte
         /\ pc = "returned" => UNCHANGED <<obs, err>>]_vars
  BY <1>2 DEF FirstByteMerged
<1> QED
  BY <1>3, StreamInvariant, PTL DEF Spec, ObservationSealed

(***************************************************************************)
(* What follows from it                                                    *)
(***************************************************************************)

(* What is collected of a frame never exceeds the limit.                   *)
THEOREM FrameBoundedCorrect == Spec => []FrameBounded
<1>1. StreamInv => FrameBounded
  <2> SUFFICES ASSUME StreamInv PROVE FrameBounded
    OBVIOUS
  <2>1. frame \in Seq(Body) /\ frameBytes <= MaxFrame /\ frameBytes \in Nat /\ MaxFrame \in Nat
    BY RequestStreamAssumption DEF StreamInv, StreamTypeOK, FrameInv
  <2>2. /\ frame # <<>> => frameBytes = JoinedSize(frame)
        /\ frame = <<>> => frameBytes = 0
    BY DEF StreamInv, FrameInv
  <2>3. Len(frame) <= JoinedSize(frame) + 1 /\ JoinedSize(frame) \in Int /\ Len(frame) \in Nat
    BY <2>1, JoinedBound
  <2>4. Len(frame) <= MaxFrame + 1
    <3>1. CASE frame = <<>>
      BY <2>1, <3>1
    <3>2. CASE frame # <<>>
      BY <2>1, <2>2, <2>3, <3>2
    <3> QED
      BY <3>1, <3>2
  <2> QED
    BY <2>1, <2>2, <2>4 DEF FrameBounded
<1> QED
  BY <1>1, StreamInvariant, PTL

(* when every line has been read, what has arrived is what was sent        *)
LEMMA AllArrived ==
  ASSUME StreamTypeOK, read = Len(sent)
  PROVE  Frames(sent) = Answer
<1>1. SubSeq(sent, 1, read) = sent
  <2>1. sent \in Seq(WireLine) /\ read \in 0 .. Len(sent)
    BY DEF StreamTypeOK
  <2>2. /\ SubSeq(sent, 1, read) \in Seq(WireLine) /\ Len(SubSeq(sent, 1, read)) = Len(sent)
        /\ \A i \in 1 .. Len(sent) : SubSeq(sent, 1, read)[i] = sent[i]
    BY <2>1, SubSeqProperties
  <2> QED
    BY <2>1, <2>2, SeqEqual
<1> QED
  BY <1>1 DEF Frames, Answer, Arrived

LEMMA AnswerType ==
  ASSUME StreamInv
  PROVE  /\ Answer \in Seq(Seq(Body)) /\ Len(Answer) \in Nat /\ Taken \in Nat
         /\ obs.events \in Seq(Observed) /\ Taken = Len(obs.events)
         /\ \A i \in 1 .. Len(Answer) : Answer[i] \in Seq(Body)
<1>1. Answer \in Seq(Seq(Body))
  <2>1. Arrived.ended \in Seq(Seq(Body)) /\ Arrived.open \in Seq(Body)
    BY DEF StreamInv, StreamTypeOK
  <2> QED
    BY <2>1 DEF Answer, Ended
<1>2. obs.events \in Seq(Observed) /\ Taken = Len(obs.events)
  BY DEF StreamInv, StreamTypeOK, Observation, Taken
<1> QED
  BY <1>1, <1>2, ElementOfSeq

(* no content is recorded exactly when no frame carried any                *)
LEMMA ContentRecorded ==
  ASSUME StreamInv
  PROVE  ContentEvents(obs) # <<>> <=>
           \E i \in 1 .. Taken : Decodes(Answer[i]) /\ EventOf(Answer[i]).index = 0
                                 /\ EventOf(Answer[i]).content
<1>1. obs.events \in Seq(Observed) /\ Taken = Len(obs.events) /\ Taken \in Nat
  BY AnswerType
<1>2. ContentEvents(obs) # <<>> <=> \E i \in 1 .. Taken : obs.events[i].content
  BY <1>1, ContentFold, ContentKept
<1>3. \A i \in 1 .. Taken : obs.events[i].content <=>
        Decodes(Answer[i]) /\ EventOf(Answer[i]).index = 0 /\ EventOf(Answer[i]).content
  <2> SUFFICES ASSUME NEW i \in 1 .. Taken
               PROVE  obs.events[i].content <=>
                        Decodes(Answer[i]) /\ EventOf(Answer[i]).index = 0 /\ EventOf(Answer[i]).content
    OBVIOUS
  <2>1. obs.events[i] = Noted(Answer[i], obs.events[i].at)
    BY DEF StreamInv, EvidenceInv
  <2> QED
    BY <2>1 DEF Noted
<1> QED
  BY <1>2, <1>3

(* a whole answer that the client took to its [DONE]                       *)
LEMMA AnswerComplete ==
  ASSUME StreamInv, read = Len(sent), seenDone, Taken = Len(Answer), ContentEvents(obs) # <<>>
  PROVE  Complete(sent)
<1>1. Frames(sent) = Answer
  BY AllArrived DEF StreamInv
<1>2. /\ Answer \in Seq(Seq(Body)) /\ Len(Answer) \in Nat /\ Taken \in Nat
      /\ \A i \in 1 .. Len(Answer) : Answer[i] \in Seq(Body)
  BY AnswerType
<1>3. Answer # <<>> /\ Len(Answer) >= 1 /\ IsDone(Answer[Len(Answer)])
  BY <1>2 DEF StreamInv, AcceptedInv
<1>4. \A i \in 1 .. Len(Answer) - 1 : Clean(Answer[i])
  BY <1>2 DEF StreamInv, AcceptedInv
<1>5. \A i \in DOMAIN Answer : Fits(Answer[i])
  BY <1>2 DEF StreamInv, AcceptedInv
<1>6. \E i \in 1 .. Len(Answer) - 1 : EventOf(Answer[i]).index = 0 /\ EventOf(Answer[i]).content
  <2>1. PICK i \in 1 .. Len(Answer) : Decodes(Answer[i]) /\ EventOf(Answer[i]).index = 0
                                      /\ EventOf(Answer[i]).content
    BY ContentRecorded
  <2>2. i # Len(Answer)
    BY <1>2, <1>3, <2>1, FrameKinds
  <2>3. i \in 1 .. Len(Answer) - 1
    BY <1>2, <2>2
  <2> QED
    BY <2>1, <2>3
<1>7. Last(Answer) = Answer[Len(Answer)]
  BY DEF Last
<1> QED
  BY <1>1, <1>3, <1>4, <1>5, <1>6, <1>7 DEF Complete, Clean, Fits

(* every other way to end a whole answer: it was not complete              *)
LEMMA AnswerIncomplete ==
  ASSUME StreamInv, pc = "returned", read = Len(sent),
         err \in {"decode", "usage", "dataAfterDone", "limit", "unexpectedEOF", "noContent"}
  PROVE  ~Complete(sent)
<1> SUFFICES ASSUME Complete(sent) PROVE FALSE
  OBVIOUS
<1>1. Frames(sent) = Answer
  BY AllArrived DEF StreamInv
<1>2. /\ Answer \in Seq(Seq(Body)) /\ Len(Answer) \in Nat /\ Taken \in Nat
      /\ \A i \in 1 .. Len(Answer) : Answer[i] \in Seq(Body)
  BY AnswerType
<1>3. /\ Answer # <<>> /\ Len(Answer) >= 1 /\ IsDone(Answer[Len(Answer)])
      /\ \A i \in 1 .. Len(Answer) - 1 : Decodes(Answer[i]) /\ Clean(Answer[i])
      /\ \A i \in 1 .. Len(Answer) : Fits(Answer[i])
      /\ \E i \in 1 .. Len(Answer) - 1 : EventOf(Answer[i]).index = 0 /\ EventOf(Answer[i]).content
  <2>1. Last(Answer) = Answer[Len(Answer)] /\ DOMAIN Answer = 1 .. Len(Answer)
    BY <1>2 DEF Last
  <2>2. Answer # <<>> => Len(Answer) >= 1
    BY <1>2
  <2> QED
    BY <1>1, <2>1, <2>2 DEF Complete, Clean, Fits
<1>4. ~Decodes(Answer[Len(Answer)])
  BY <1>2, <1>3, FrameKinds
<1>5. CASE err \in {"decode", "usage", "dataAfterDone", "limit"}
  <2>1. Len(Answer) = Taken + 1
    BY <1>5 DEF StreamInv, EndedInv
  <2>2. CASE err = "decode"
    BY <1>3, <2>1, <2>2 DEF StreamInv, EndedInv
  <2>3. CASE err = "usage"
    BY <1>4, <2>1, <2>3 DEF StreamInv, EndedInv
  <2>4. CASE err = "dataAfterDone"
    <3>1. Taken \in 1 .. Len(Answer) - 1 /\ IsDone(Answer[Taken])
      BY <1>2, <2>1, <2>4 DEF StreamInv, EndedInv, AcceptedInv
    <3> QED
      BY <1>2, <1>3, <3>1, FrameKinds
  <2>5. CASE err = "limit"
    <3>1. Taken + 1 \in 1 .. Len(Answer)
      BY <1>2, <2>1
    <3> QED
      BY <1>3, <2>1, <2>5, <3>1 DEF StreamInv, EndedInv
  <2> QED
    BY <1>5, <2>2, <2>3, <2>4, <2>5
<1>6. CASE err = "unexpectedEOF"
  <2>1. ~seenDone /\ Taken = Len(Answer)
    BY <1>6 DEF StreamInv, EndedInv
  <2>2. Clean(Answer[Taken])
    <3>1. Taken \in 1 .. Taken
      BY <1>2, <1>3, <2>1
    <3> QED
      BY <2>1, <3>1 DEF StreamInv, AcceptedInv
  <2> QED
    BY <1>4, <2>1, <2>2 DEF Clean
<1>7. CASE err = "noContent"
  <2>1. ContentEvents(obs) = <<>> /\ Taken = Len(Answer)
    BY <1>7 DEF StreamInv, EndedInv
  <2>2. PICK i \in 1 .. Len(Answer) - 1 : EventOf(Answer[i]).index = 0 /\ EventOf(Answer[i]).content
    BY <1>3
  <2>3. Decodes(Answer[i]) /\ i \in 1 .. Taken
    BY <1>2, <1>3, <2>1
  <2> QED
    BY <2>1, <2>2, <2>3, ContentRecorded
<1> QED
  BY <1>5, <1>6, <1>7

(* A request counts as successful exactly when the whole answer was one    *)
(* complete stream and nothing disturbed it.                               *)
THEOREM StreamVerdictCorrect == Spec => []StreamVerdict
<1>1. StreamInv => StreamVerdict
  <2> SUFFICES ASSUME StreamInv, pc = "returned"
               PROVE  /\ err = "none" => response = "ok" /\ stream = "closed" /\ read = Len(sent) /\ Complete(sent)
                      /\ (response = "ok" /\ stream = "closed" /\ read = Len(sent)
                          /\ Complete(sent) /\ ~cancelled /\ err # "close") => err = "none"
    BY DEF StreamVerdict
  <2>1. ASSUME err = "none"
        PROVE  response = "ok" /\ stream = "closed" /\ read = Len(sent) /\ Complete(sent)
    <3>1. Whole /\ seenDone /\ Taken = Len(Answer) /\ ContentEvents(obs) # <<>>
      BY <2>1 DEF StreamInv, EndedInv
    <3> QED
      BY <3>1, AnswerComplete DEF Whole
  <2>2. ASSUME response = "ok", stream = "closed", read = Len(sent), Complete(sent), ~cancelled, err # "close"
        PROVE  err = "none"
    <3>1. err \notin {"send", "read", "status"}
      BY <2>2 DEF StreamInv, EndedInv
    <3>2. err \in EndKinds
      BY DEF StreamInv, StreamTypeOK
    <3> QED
      BY <2>2, <3>1, <3>2, AnswerIncomplete DEF EndKinds
  <2> QED
    BY <2>1, <2>2
<1> QED
  BY <1>1, StreamInvariant, PTL

LEMMA NothingArrived ==
  ASSUME StreamInv, read = 0
  PROVE  Answer = <<>>
<1>1. SubSeq(sent, 1, read) = <<>>
  BY DEF StreamInv, StreamTypeOK
<1>2. Arrived = [ended |-> <<>>, open |-> <<>>]
  BY <1>1, ParsedFold DEF Arrived
<1> QED
  BY <1>2 DEF Answer, Ended

(* Whatever ends a request, its evidence is the frames that had arrived,   *)
(* in order and with times that only grow.                                 *)
THEOREM EvidenceKeptCorrect == Spec => []EvidenceKept
<1>1. StreamInv => EvidenceKept
  <2> SUFFICES ASSUME StreamInv PROVE EvidenceKept
    OBVIOUS
  <2> DEFINE at    == [i \in DOMAIN obs.events |-> obs.events[i].at]
             times == <<obs.firstByte, obs.headers>> \o at \o <<obs.completed>>
  <2>1. /\ Answer \in Seq(Seq(Body)) /\ Len(Answer) \in Nat /\ Taken \in Nat
        /\ obs.events \in Seq(Observed) /\ Taken = Len(obs.events)
    BY AnswerType
  <2>2. Frames(SubSeq(sent, 1, read)) = Answer
    BY DEF Frames, Answer, Arrived
  <2>3. Taken <= Len(Answer) /\ Len(Answer) - Taken <= 1
    BY <2>1 DEF StreamInv, EvidenceInv
  <2>4. \A i \in DOMAIN obs.events : obs.events[i].content =
          (Decodes(Answer[i]) /\ EventOf(Answer[i]).index = 0 /\ EventOf(Answer[i]).content)
    <3> SUFFICES ASSUME NEW i \in DOMAIN obs.events
                 PROVE  obs.events[i].content =
                          (Decodes(Answer[i]) /\ EventOf(Answer[i]).index = 0 /\ EventOf(Answer[i]).content)
      OBVIOUS
    <3>1. obs.events[i] = Noted(Answer[i], obs.events[i].at) /\ obs.events[i] \in Observed
      <4>1. i \in 1 .. Taken
        BY <2>1
      <4>2. obs.events[i] \in Observed
        BY <2>1, <4>1, ElementOfSeq
      <4> QED
        BY <4>1, <4>2 DEF StreamInv, EvidenceInv
    <3>2. obs.events[i].content <=>
            Decodes(Answer[i]) /\ EventOf(Answer[i]).index = 0 /\ EventOf(Answer[i]).content
      BY <3>1 DEF Noted
    <3>3. obs.events[i].content \in BOOLEAN
      BY <3>1 DEF Observed
    <3> QED
      BY <3>2, <3>3
  <2>5. err = "none" /\ frame = <<>> => Taken = Len(Answer)
    <3> SUFFICES ASSUME err = "none", frame = <<>> PROVE Taken = Len(Answer)
      OBVIOUS
    <3>1. CASE pc \in {"roundTrip", "discarding"}
      <4>1. read = 0 /\ obs.events = <<>>
        BY <3>1 DEF StreamInv, ProgressInv
      <4> QED
        BY <2>1, <4>1, NothingArrived
    <3>2. CASE pc = "reading"
      BY <3>2, AnswerNow DEF StreamInv
    <3>3. CASE pc \in {"closing", "leaving", "returned"}
      BY <3>3 DEF StreamInv, EndedInv
    <3> QED
      BY <3>1, <3>2, <3>3 DEF StreamInv, StreamTypeOK
  <2>6. \A i, j \in DOMAIN times :
          i < j /\ times[i] # NoTime /\ times[j] # NoTime => times[i] <= times[j]
    <3>1. /\ obs.firstByte \in Offset /\ obs.headers \in Offset /\ obs.completed \in Offset /\ now \in Nat
          /\ obs.events \in Seq(Observed)
      BY <2>1 DEF StreamInv, StreamTypeOK, Observation
    <3>2. at \in Seq(Nat) /\ Len(at) = Taken /\ \A k \in 1 .. Taken : at[k] = obs.events[k].at
      <4>1. \A k \in 1 .. Taken : obs.events[k].at \in Nat
        <5>1. \A k \in 1 .. Taken : obs.events[k] \in Observed
          BY <2>1, ElementOfSeq
        <5> QED
          BY <5>1 DEF Observed
      <4>2. DOMAIN obs.events = 1 .. Taken
        BY <2>1
      <4> QED
        BY <2>1, <4>1, <4>2
    <3>3. /\ \A k \in 1 .. Taken : obs.headers <= at[k] /\ at[k] <= now
          /\ \A k, l \in 1 .. Taken : k <= l => at[k] <= at[l]
      BY <2>1, <3>2 DEF StreamInv, TimesInv, Rising
    <3> HIDE DEF at
    <3>4. /\ DOMAIN times = 1 .. Taken + 3
          /\ times[1] = obs.firstByte /\ times[2] = obs.headers /\ times[Taken + 3] = obs.completed
          /\ \A k \in 3 .. Taken + 2 : times[k] = at[k - 2]
      <4>1. <<obs.firstByte, obs.headers>> \in Seq(Int) /\ <<obs.completed>> \in Seq(Int) /\ at \in Seq(Int)
        BY <3>1, <3>2 DEF Offset, NoTime
      <4> DEFINE front == <<obs.firstByte, obs.headers>> \o at
      <4>2. /\ front \in Seq(Int) /\ Len(front) = Taken + 2
            /\ front[1] = obs.firstByte /\ front[2] = obs.headers
            /\ \A k \in 3 .. Taken + 2 : front[k] = at[k - 2]
        BY <2>1, <3>2, <4>1
      <4>3. times = front \o <<obs.completed>>
        OBVIOUS
      <4> HIDE DEF front, times
      <4>4. /\ Len(times) = Taken + 3 /\ times \in Seq(Int)
            /\ times[Taken + 3] = obs.completed
            /\ \A k \in 1 .. Taken + 2 : times[k] = front[k]
        <5> DEFINE n == Taken + 2
        <5>1. n \in Nat /\ Len(front) = n /\ front \in Seq(Int) /\ obs.completed \in Int
          BY <2>1, <4>1, <4>2
        <5>2. n + 1 = Taken + 3
          BY <2>1
        <5> HIDE DEF n
        <5>3. front \o <<obs.completed>> = Append(front, obs.completed)
          BY <5>1, AppendIsConcat
        <5>4. /\ Len(times) = n + 1 /\ times \in Seq(Int)
              /\ times[n + 1] = obs.completed
              /\ \A k \in 1 .. n : times[k] = front[k]
          BY <4>3, <5>1, <5>3
        <5> QED
          BY <5>2, <5>4 DEF n
      <4>5. DOMAIN times = 1 .. Taken + 3
        BY <4>4
      <4>6. 1 \in 1 .. Taken + 2 /\ 2 \in 1 .. Taken + 2
            /\ \A k \in 3 .. Taken + 2 : k \in 1 .. Taken + 2
        BY <2>1
      <4> QED
        BY <4>2, <4>4, <4>5, <4>6
    <3> HIDE DEF times
    <3>5. /\ obs.headers # NoTime => obs.firstByte <= obs.headers
          /\ obs.firstByte <= now /\ obs.headers <= now
          /\ obs.completed = IF pc = "returned" THEN now ELSE NoTime
          /\ Taken > 0 => obs.headers # NoTime
      BY <2>1 DEF StreamInv, TimesInv
    <3> SUFFICES ASSUME NEW i \in 1 .. Taken + 3, NEW j \in 1 .. Taken + 3, i < j,
                        times[i] # NoTime, times[j] # NoTime
                 PROVE  times[i] <= times[j]
      BY <3>4
    <3>6. CASE j = Taken + 3
      <4>1. times[j] = now
        BY <3>4, <3>5, <3>6
      <4>2. i = 1 \/ i = 2 \/ i \in 3 .. Taken + 2
        BY <2>1, <3>6
      <4>3. \A k \in 3 .. Taken + 2 : times[k] <= now
        <5>1. \A k \in 3 .. Taken + 2 : k - 2 \in 1 .. Taken
          BY <2>1
        <5> QED
          BY <3>3, <3>4, <5>1
      <4> QED
        BY <3>4, <3>5, <4>1, <4>2, <4>3
    <3>7. CASE j = 2
      <4>1. i = 1
        BY <3>7
      <4> QED
        BY <3>4, <3>5, <3>7, <4>1
    <3>8. CASE j \in 3 .. Taken + 2
      <4>1. j - 2 \in 1 .. Taken /\ times[j] = at[j - 2] /\ Taken > 0
        BY <2>1, <3>4, <3>8
      <4>2. obs.headers <= times[j] /\ obs.firstByte <= obs.headers
        BY <3>3, <3>5, <4>1
      <4>3. at[j - 2] \in Nat
        BY <3>2, <4>1
      <4>4. CASE i = 1 \/ i = 2
        BY <3>1, <3>4, <4>1, <4>2, <4>3, <4>4 DEF Offset, NoTime
      <4>5. CASE i \in 3 .. Taken + 2
        <5>1. i - 2 \in 1 .. Taken /\ times[i] = at[i - 2] /\ i - 2 <= j - 2
          BY <2>1, <3>4, <4>5
        <5> QED
          BY <3>3, <4>1, <5>1
      <4>6. i = 1 \/ i = 2 \/ i \in 3 .. Taken + 2
        BY <2>1, <3>8
      <4> QED
        BY <4>4, <4>5, <4>6
    <3>9. j = 2 \/ j \in 3 .. Taken + 2 \/ j = Taken + 3
      BY <2>1
    <3> QED
      BY <3>6, <3>7, <3>8, <3>9
  <2> HIDE DEF at
  <2> QED
    BY <2>2, <2>3, <2>4, <2>5, <2>6 DEF EvidenceKept, Taken, at
<1> QED
  BY <1>1, StreamInvariant, PTL

(***************************************************************************)
(* Gaps                                                                    *)
(***************************************************************************)

(* the gaps of a sequence add up to its length in time                     *)
LEMMA GapsTotal ==
  ASSUME NEW s \in Seq(Observed)
  PROVE  /\ Gaps(s) \in Seq(Int)
         /\ Len(Gaps(s)) = IF s = <<>> THEN 0 ELSE Len(s) - 1
         /\ Total(Gaps(s)) = IF s = <<>> THEN 0 ELSE s[Len(s)].at - s[1].at
<1> DEFINE S == {t \in Seq(Observed) :
                   /\ Gaps(t) \in Seq(Int)
                   /\ Len(Gaps(t)) = IF t = <<>> THEN 0 ELSE Len(t) - 1
                   /\ Total(Gaps(t)) = IF t = <<>> THEN 0 ELSE t[Len(t)].at - t[1].at}
<1>1. <<>> \in S
  <2>1. Gaps(<<>>) = <<>>
    BY DEF Gaps
  <2>2. <<>> \in Seq(Observed) /\ <<>> \in Seq(Int) /\ Len(<<>>) = 0
    OBVIOUS
  <2> QED
    BY <2>1, <2>2, TotalFold
<1>2. \A t \in Seq(Observed), e \in Observed : t \in S => Append(t, e) \in S
  <2> SUFFICES ASSUME NEW t \in Seq(Observed), NEW e \in Observed, t \in S
               PROVE  Append(t, e) \in S
    OBVIOUS
  <2> DEFINE u == Append(t, e)
             n == Len(t)
  <2>1. /\ u \in Seq(Observed) /\ Len(u) = n + 1 /\ n \in Nat /\ u # <<>>
        /\ u[n + 1] = e /\ \A i \in 1 .. n : u[i] = t[i]
    <3>1. Len(t) \in Nat
      OBVIOUS
    <3>2. u \in Seq(Observed) /\ Len(u) = Len(t) + 1 /\ u[Len(t) + 1] = e
      OBVIOUS
    <3>3. \A i \in 1 .. Len(t) : u[i] = t[i]
      OBVIOUS
    <3>4. u # <<>>
      <4> HIDE DEF u, S
      <4>1. Len(<<>>) = 0 /\ Len(u) # 0
        BY <3>1, <3>2
      <4> QED
        BY <4>1
    <3> QED
      BY <3>1, <3>2, <3>3, <3>4
  <2>2. e.at \in Int /\ \A i \in 1 .. n : t[i].at \in Int
    <3>1. \A x \in Observed : x.at \in Int
      BY DEF Observed
    <3>2. \A i \in 1 .. n : t[i] \in Observed
      BY ElementOfSeq
    <3> HIDE DEF u, n
    <3> QED
      BY <3>1, <3>2
  <2>3. /\ Gaps(t) \in Seq(Int)
        /\ Len(Gaps(t)) = IF t = <<>> THEN 0 ELSE n - 1
        /\ Total(Gaps(t)) = IF t = <<>> THEN 0 ELSE t[n].at - t[1].at
    OBVIOUS
  <2> HIDE DEF u
  <2>4. CASE t = <<>>
    <3>1. n = 0
      BY <2>4
    <3>2. Gaps(u) = <<>>
      BY <2>1, <3>1 DEF Gaps
    <3>3. u[Len(u)] = e /\ u[1] = e
      BY <2>1, <3>1
    <3> QED
      BY <2>1, <2>2, <3>1, <3>2, <3>3, TotalFold DEF u
  <2>5. CASE t # <<>>
    <3> HIDE DEF n
    <3>1. n \in Nat /\ n >= 1
      BY <2>1, <2>5 DEF n
    <3>2. e.at - t[n].at \in Int
      BY <2>2, <3>1
    <3>3. Gaps(u) = Append(Gaps(t), e.at - t[n].at)
      <4>1. /\ Gaps(u) = [i \in 1 .. n |-> u[i + 1].at - u[i].at]
            /\ Gaps(t) = [i \in 1 .. n - 1 |-> t[i + 1].at - t[i].at]
        BY <2>1 DEF Gaps, n
      <4>2. Gaps(u) \in Seq(Int) /\ Len(Gaps(u)) = n
        <5>1. \A i \in 1 .. n + 1 : u[i].at \in Int
          <6>1. \A i \in 1 .. n + 1 : i \in 1 .. n \/ i = n + 1
            BY <3>1
          <6>2. \A i \in 1 .. n : u[i].at \in Int
            BY <2>1, <2>2
          <6>3. u[n + 1].at \in Int
            BY <2>1, <2>2
          <6> QED
            BY <6>1, <6>2, <6>3
        <5>2. \A i \in 1 .. n : i \in 1 .. n + 1 /\ i + 1 \in 1 .. n + 1
          BY <3>1
        <5>3. \A i \in 1 .. n : u[i + 1].at - u[i].at \in Int
          BY <5>1, <5>2
        <5> QED
          BY <3>1, <4>1, <5>3
      <4>3. Append(Gaps(t), e.at - t[n].at) \in Seq(Int) /\ Len(Append(Gaps(t), e.at - t[n].at)) = n
        BY <2>3, <2>5, <3>1, <3>2
      <4>4. \A i \in 1 .. n : Gaps(u)[i] = Append(Gaps(t), e.at - t[n].at)[i]
        <5> SUFFICES ASSUME NEW i \in 1 .. n PROVE Gaps(u)[i] = Append(Gaps(t), e.at - t[n].at)[i]
          OBVIOUS
        <5>1. Gaps(u)[i] = u[i + 1].at - u[i].at
          BY <4>1
        <5>2. CASE i = n
          <6>1. Append(Gaps(t), e.at - t[n].at)[n] = e.at - t[n].at
            BY <2>3, <2>5, <3>1, <3>2
          <6> QED
            BY <2>1, <5>1, <5>2, <6>1
        <5>3. CASE i # n
          <6>1. i \in 1 .. n - 1 /\ i + 1 \in 1 .. n
            BY <3>1, <5>3
          <6>2. Append(Gaps(t), e.at - t[n].at)[i] = Gaps(t)[i]
            BY <2>3, <2>5, <3>1, <3>2, <6>1
          <6>3. Gaps(t)[i] = t[i + 1].at - t[i].at
            BY <4>1, <6>1
          <6> QED
            BY <2>1, <5>1, <6>1, <6>2, <6>3
        <5> QED
          BY <5>2, <5>3
      <4> QED
        BY <4>2, <4>3, <4>4, SeqEqual
    <3>4. Total(Gaps(u)) = Total(Gaps(t)) + (e.at - t[n].at)
      BY <2>3, <3>2, <3>3, TotalFold
    <3>5. u[Len(u)] = e /\ u[1] = t[1] /\ t[1].at \in Int /\ t[n].at \in Int
      BY <2>1, <2>2, <3>1
    <3>6. Total(Gaps(u)) = u[Len(u)].at - u[1].at
      BY <2>2, <2>3, <2>5, <3>4, <3>5
    <3>7. Gaps(u) \in Seq(Int) /\ Len(Gaps(u)) = Len(u) - 1
      BY <2>1, <2>3, <2>5, <3>1, <3>2, <3>3
    <3> QED
      BY <2>1, <3>6, <3>7 DEF u
  <2> QED
    BY <2>4, <2>5
<1>3. Seq(Observed) \subseteq S
  <2> HIDE DEF S
  <2> QED
    BY <1>1, <1>2, Sums!SeqInduct
<1> QED
  BY <1>3

(* The gaps between chunks add up to the time from the first content to    *)
(* the last, the decode window is that time, and the gaps between tokens   *)
(* stay within the request.                                                *)
THEOREM GapsSpanContentCorrect == Spec => []GapsSpanContent
<1>1. StreamInv => GapsSpanContent
  <2> SUFFICES ASSUME StreamInv, pc = "returned"
               PROVE  /\ Len(ContentEvents(obs)) >= 2 =>
                           Total(InterChunkLatency(obs)) = obs.lastContent - obs.firstContent
                      /\ DecodeWindow(obs) # NoWindow => DecodeWindow(obs) = Total(InterChunkLatency(obs))
                      /\ Total(InterTokenLatency(obs)) <= obs.completed - obs.firstByte
    BY DEF GapsSpanContent
  <2> DEFINE content == ContentEvents(obs)
             tokens  == TokenEvents(obs)
  <2>1. content \in Seq(Observed) /\ tokens \in Seq(Observed)
        /\ Len(content) \in Nat /\ Len(tokens) \in Nat
        /\ (obs.events = <<>> => tokens = <<>>)
    BY AnswerType, KeptTypes
  <2>2. Rising(content, obs.headers, now) /\ Rising(tokens, obs.headers, now)
    BY DEF StreamInv, TimesInv
  <2>3. Len(content) >= 2 => Total(InterChunkLatency(obs)) = obs.lastContent - obs.firstContent
    <3> SUFFICES ASSUME Len(content) >= 2
                 PROVE  Total(InterChunkLatency(obs)) = obs.lastContent - obs.firstContent
      OBVIOUS
    <3>1. Ordered(content)
      <4>1. \A i \in 1 .. Len(content) - 1 :
              i \in DOMAIN content /\ i + 1 \in DOMAIN content /\ i <= i + 1
        BY <2>1
      <4> QED
        BY <2>2, <4>1 DEF Ordered, Rising
    <3>2. InterChunkLatency(obs) = Gaps(content)
      BY <3>1 DEF InterChunkLatency
    <3>3. content # <<>>
      BY <2>1
    <3>4. obs.firstContent = content[1].at /\ obs.lastContent = content[Len(content)].at
      BY <3>3 DEF StreamInv, ContentInv
    <3> HIDE DEF content
    <3> QED
      BY <2>1, <3>2, <3>3, <3>4, GapsTotal
  <2>4. DecodeWindow(obs) # NoWindow =>
          Len(content) >= 2 /\ DecodeWindow(obs) = obs.lastContent - obs.firstContent
    BY DEF DecodeWindow
  <2>5. Total(InterTokenLatency(obs)) <= obs.completed - obs.firstByte
    <3>1. obs.completed = now /\ obs.firstByte <= now /\ now \in Nat /\ obs.firstByte \in Offset
          /\ obs.headers \in Offset
      BY DEF StreamInv, TimesInv, StreamTypeOK, Observation
    <3>2. CASE ~ITLAvailable(obs)
      <4>1. InterTokenLatency(obs) = <<>>
        BY <3>2 DEF InterTokenLatency
      <4> QED
        BY <3>1, <4>1, TotalFold DEF Offset, NoTime
    <3>3. CASE ITLAvailable(obs)
      <4>1. InterTokenLatency(obs) = Gaps(tokens) /\ Len(tokens) >= 2
        BY <3>3 DEF InterTokenLatency, ITLAvailable
      <4>2. tokens # <<>> /\ obs.events # <<>>
        BY <2>1, <4>1
      <4>3. obs.headers # NoTime /\ obs.firstByte <= obs.headers
        BY <4>2 DEF StreamInv, TimesInv
      <4>4. /\ obs.headers <= tokens[1].at /\ tokens[Len(tokens)].at <= now
            /\ tokens[1].at \in Nat /\ tokens[Len(tokens)].at \in Nat
        <5>1. 1 \in 1 .. Len(tokens) /\ Len(tokens) \in 1 .. Len(tokens)
          BY <2>1, <4>1
        <5>2. tokens[1] \in Observed /\ tokens[Len(tokens)] \in Observed
          BY <2>1, <5>1, ElementOfSeq
        <5> QED
          BY <2>1, <2>2, <5>1, <5>2 DEF Rising, Observed
      <4> HIDE DEF tokens
      <4>5. Total(InterTokenLatency(obs)) = tokens[Len(tokens)].at - tokens[1].at
        BY <2>1, <4>1, <4>2, GapsTotal
      <4> QED
        BY <3>1, <4>3, <4>4, <4>5 DEF Offset, NoTime
    <3> QED
      BY <3>2, <3>3
  <2> QED
    BY <2>3, <2>4, <2>5
<1> QED
  BY <1>1, StreamInvariant, PTL

(***************************************************************************)
(* Tokens                                                                  *)
(***************************************************************************)

Counts(s) == [i \in DOMAIN s |-> s[i].tokens]

LEMMA CountsAppend ==
  ASSUME NEW s \in Seq(Observed), NEW e \in Observed
  PROVE  /\ Counts(s) \in Seq(Int) /\ e.tokens \in Int
         /\ Counts(Append(s, e)) = Append(Counts(s), e.tokens)
<1>1. ASSUME NEW t \in Seq(Observed) PROVE Counts(t) \in Seq(Int) /\ Len(Counts(t)) = Len(t)
  <2>1. \A i \in 1 .. Len(t) : t[i].tokens \in Int
    <3>1. \A i \in 1 .. Len(t) : t[i] \in Observed
      BY ElementOfSeq
    <3> QED
      BY <3>1 DEF Observed
  <2>2. DOMAIN t = 1 .. Len(t) /\ Len(t) \in Nat
    OBVIOUS
  <2> QED
    BY <2>1, <2>2 DEF Counts
<1>2. e.tokens \in Int
  BY DEF Observed
<1>3. /\ Append(s, e) \in Seq(Observed) /\ Len(Append(s, e)) = Len(s) + 1 /\ Len(s) \in Nat
      /\ Append(s, e)[Len(s) + 1] = e /\ \A i \in 1 .. Len(s) : Append(s, e)[i] = s[i]
      /\ DOMAIN Append(s, e) = 1 .. Len(s) + 1 /\ DOMAIN s = 1 .. Len(s)
  OBVIOUS
<1>4. Append(Counts(s), e.tokens) \in Seq(Int) /\ Len(Append(Counts(s), e.tokens)) = Len(s) + 1
      /\ Append(Counts(s), e.tokens)[Len(s) + 1] = e.tokens
      /\ \A i \in 1 .. Len(s) : Append(Counts(s), e.tokens)[i] = Counts(s)[i]
  BY <1>1, <1>2
<1>5. \A t : \A i \in DOMAIN t : Counts(t)[i] = t[i].tokens
  BY DEF Counts
<1>6. \A i \in 1 .. Len(s) + 1 : Counts(Append(s, e))[i] = Append(Counts(s), e.tokens)[i]
  <2> SUFFICES ASSUME NEW i \in 1 .. Len(s) + 1
               PROVE  Counts(Append(s, e))[i] = Append(Counts(s), e.tokens)[i]
    OBVIOUS
  <2>1. Counts(Append(s, e))[i] = Append(s, e)[i].tokens
    BY <1>3, <1>5
  <2>2. CASE i = Len(s) + 1
    BY <1>3, <1>4, <2>1, <2>2
  <2>3. CASE i # Len(s) + 1
    <3>1. i \in 1 .. Len(s) /\ i \in DOMAIN s
      BY <2>3
    <3>2. Counts(s)[i] = s[i].tokens
      BY <1>5, <3>1
    <3> QED
      BY <1>3, <1>4, <2>1, <3>1, <3>2
  <2> QED
    BY <2>2, <2>3
<1>7. Counts(Append(s, e)) = Append(Counts(s), e.tokens)
  <2>1. Counts(Append(s, e)) \in Seq(Int) /\ Len(Counts(Append(s, e))) = Len(s) + 1
    BY <1>1, <1>3
  <2> QED
    BY <1>4, <1>6, <2>1, SeqEqual
<1> QED
  BY <1>1, <1>2, <1>7

(* the indices of the events that carry tokens                             *)
Carrying(s) == {i \in 1 .. Len(s) : s[i].tokens # 0}

LEMMA CarryingNext ==
  ASSUME NEW s \in Seq(Observed), NEW e \in Observed
  PROVE  /\ Carrying(Append(s, e)) = IF e.tokens # 0 THEN Carrying(s) \cup {Len(s) + 1} ELSE Carrying(s)
         /\ IsFiniteSet(Carrying(s)) /\ Len(s) + 1 \notin Carrying(s)
<1>1. /\ Len(Append(s, e)) = Len(s) + 1 /\ Len(s) \in Nat
      /\ Append(s, e)[Len(s) + 1] = e /\ \A i \in 1 .. Len(s) : Append(s, e)[i] = s[i]
  OBVIOUS
<1>2. Carrying(Append(s, e)) = IF e.tokens # 0 THEN Carrying(s) \cup {Len(s) + 1} ELSE Carrying(s)
  <2>1. \A i \in 1 .. Len(s) + 1 : i \in 1 .. Len(s) \/ i = Len(s) + 1
    BY <1>1
  <2>2. \A i \in 1 .. Len(s) : i \in 1 .. Len(s) + 1 /\ i # Len(s) + 1
    BY <1>1
  <2>3. Len(s) + 1 \in 1 .. Len(s) + 1
    BY <1>1
  <2>4. \A i \in Carrying(Append(s, e)) : i \in Carrying(s) \/ (i = Len(s) + 1 /\ e.tokens # 0)
    BY <1>1, <2>1 DEF Carrying
  <2>5. \A i \in Carrying(s) : i \in Carrying(Append(s, e))
    BY <1>1, <2>2 DEF Carrying
  <2>6. e.tokens # 0 => Len(s) + 1 \in Carrying(Append(s, e))
    BY <1>1, <2>3 DEF Carrying
  <2> QED
    BY <2>4, <2>5, <2>6
<1>3. IsFiniteSet(Carrying(s))
  <2>1. IsFiniteSet(1 .. Len(s)) /\ Carrying(s) \subseteq 1 .. Len(s)
    BY <1>1, FS_Interval DEF Carrying
  <2> QED
    BY <2>1, FS_Subset
<1>4. Len(s) + 1 \notin Carrying(s)
  BY <1>1 DEF Carrying
<1> QED
  BY <1>2, <1>3, <1>4

(* the token events are as many as the events that carry tokens; when each *)
(* holds one token, their number is the tokens observed                    *)
LEMMA TokensCounted ==
  ASSUME NEW s \in Seq(Observed)
  PROVE  /\ Len(Tokens!Fold(s)) = Cardinality(Carrying(s))
         /\ (\A i \in DOMAIN Tokens!Fold(s) : Tokens!Fold(s)[i].tokens = 1) =>
              /\ \A i \in 1 .. Len(s) : s[i].tokens \in {0, 1}
              /\ Total(Counts(s)) = Len(Tokens!Fold(s))
<1> DEFINE Single(t) == \A i \in 1 .. Len(t) : t[i].tokens = 1
           S == {t \in Seq(Observed) :
                   /\ Len(Tokens!Fold(t)) = Cardinality(Carrying(t))
                   /\ Single(Tokens!Fold(t)) =>
                        /\ \A i \in 1 .. Len(t) : t[i].tokens \in {0, 1}
                        /\ Total(Counts(t)) = Len(Tokens!Fold(t))}
<1>1. <<>> \in S
  <2>1. Tokens!Fold(<<>>) = <<>> /\ <<>> \in Seq(Observed) /\ Len(<<>>) = 0
    BY TokenFold
  <2>2. Carrying(<<>>) = {} /\ Cardinality({}) = 0
    BY FS_EmptySet DEF Carrying
  <2>3. Counts(<<>>) = <<>> /\ Total(<<>>) = 0
    BY TotalFold DEF Counts
  <2>4. \A i \in 1 .. Len(<<>>) : FALSE
    OBVIOUS
  <2> QED
    BY <2>1, <2>2, <2>3, <2>4
<1>2. \A t \in Seq(Observed), e \in Observed : t \in S => Append(t, e) \in S
  <2> SUFFICES ASSUME NEW t \in Seq(Observed), NEW e \in Observed, t \in S
               PROVE  Append(t, e) \in S
    OBVIOUS
  <2> DEFINE u == Append(t, e)
             k == Tokens!Fold(t)
             l == Tokens!Fold(u)
  <2>1. /\ Len(k) = Cardinality(Carrying(t))
        /\ Single(k) => /\ \A i \in 1 .. Len(t) : t[i].tokens \in {0, 1}
                        /\ Total(Counts(t)) = Len(k)
    OBVIOUS
  <2>2. l = IF e.tokens # 0 THEN Append(k, e) ELSE k
    BY TokenFold
  <2>3. k \in Seq(Observed)
    BY TokenKept
  <2>4. /\ u \in Seq(Observed) /\ Len(u) = Len(t) + 1 /\ Len(t) \in Nat
        /\ u[Len(t) + 1] = e /\ \A i \in 1 .. Len(t) : u[i] = t[i]
    OBVIOUS
  <2>5. /\ Carrying(u) = IF e.tokens # 0 THEN Carrying(t) \cup {Len(t) + 1} ELSE Carrying(t)
        /\ IsFiniteSet(Carrying(t)) /\ Len(t) + 1 \notin Carrying(t)
    BY CarryingNext
  <2>6. /\ Total(Counts(u)) = Total(Counts(t)) + e.tokens /\ e.tokens \in Int
    BY CountsAppend, TotalFold
  <2> HIDE DEF u, k, l, S
  <2>7. CASE e.tokens = 0
    <3>1. l = k /\ Len(l) = Cardinality(Carrying(u))
      BY <2>1, <2>2, <2>5, <2>7
    <3>2. ASSUME Single(l) PROVE \A i \in 1 .. Len(u) : u[i].tokens \in {0, 1}
      <4>1. \A i \in 1 .. Len(t) : t[i].tokens \in {0, 1}
        BY <2>1, <3>1, <3>2
      <4>2. \A i \in 1 .. Len(u) : i \in 1 .. Len(t) \/ i = Len(t) + 1
        BY <2>4
      <4> QED
        BY <2>4, <2>7, <4>1, <4>2
    <3>3. ASSUME Single(l) PROVE Total(Counts(u)) = Len(l)
      <4>1. Total(Counts(t)) = Len(k)
        BY <2>1, <3>1, <3>3
      <4>2. Len(k) \in Nat
        BY <2>3
      <4> QED
        BY <2>6, <2>7, <3>1, <4>1, <4>2
    <3> QED
      BY <2>4, <3>1, <3>2, <3>3 DEF S, u, l
  <2>8. CASE e.tokens # 0
    <3>1. /\ l = Append(k, e) /\ Len(l) = Len(k) + 1 /\ l[Len(k) + 1] = e /\ Len(k) \in Nat
          /\ \A i \in 1 .. Len(k) : l[i] = k[i]
      BY <2>2, <2>3, <2>8
    <3>2. Len(l) = Cardinality(Carrying(u))
      <4>1. Cardinality(Carrying(t) \cup {Len(t) + 1}) = Cardinality(Carrying(t)) + 1
        BY <2>5, FS_AddElement
      <4> QED
        BY <2>1, <2>5, <2>8, <3>1, <4>1
    <3>3. ASSUME Single(l) PROVE Single(k) /\ e.tokens = 1
      <4>1. \A i \in 1 .. Len(k) : i \in 1 .. Len(l)
        BY <3>1
      <4>2. Len(k) + 1 \in 1 .. Len(l)
        BY <3>1
      <4> QED
        BY <3>1, <3>3, <4>1, <4>2
    <3>4. ASSUME Single(l) PROVE \A i \in 1 .. Len(u) : u[i].tokens \in {0, 1}
      <4>1. \A i \in 1 .. Len(t) : t[i].tokens \in {0, 1}
        BY <2>1, <3>3, <3>4
      <4>2. \A i \in 1 .. Len(u) : i \in 1 .. Len(t) \/ i = Len(t) + 1
        BY <2>4
      <4>3. e.tokens = 1
        BY <3>3, <3>4
      <4> QED
        BY <2>4, <4>1, <4>2, <4>3
    <3>5. ASSUME Single(l) PROVE Total(Counts(u)) = Len(l)
      <4>1. Total(Counts(t)) = Len(k) /\ e.tokens = 1
        BY <2>1, <3>3, <3>5
      <4> QED
        BY <2>6, <3>1, <4>1
    <3> QED
      BY <2>4, <3>2, <3>4, <3>5 DEF S, u, l
  <2> QED
    BY <2>7, <2>8
<1>3. Seq(Observed) \subseteq S
  <2> HIDE DEF S
  <2> QED
    BY <1>1, <1>2, Sums!SeqInduct
<1>4. DOMAIN Tokens!Fold(s) = 1 .. Len(Tokens!Fold(s))
  BY TokenKept
<1> QED
  BY <1>3, <1>4

(* Inter-token latency is published only for a complete stream whose       *)
(* events, as the server sent them, each carried at most one valid token   *)
(* ID, and together as many as the server says it generated; there is one  *)
(* gap fewer than tokens.                                                  *)
THEOREM ITLProvenCorrect == Spec => []ITLProven
<1>1. StreamInv => ITLProven
  <2> DEFINE f      == Frames(sent)
             events == {i \in DOMAIN f : Decodes(f[i]) /\ EventOf(f[i]).index = 0}
             tokens == {i \in events : EventOf(f[i]).tokens > 0}
             s      == obs.events
             kept   == TokenEvents(obs)
  <2> SUFFICES ASSUME StreamInv, pc = "returned", InterTokenLatency(obs) # <<>>
               PROVE  /\ obs.requested
                      /\ Complete(sent)
                      /\ \A i \in events : EventOf(f[i]).tokens <= 1 /\ ~EventOf(f[i]).negative
                      /\ \E i \in DOMAIN f : Decodes(f[i]) /\ EventOf(f[i]).usage = Cardinality(tokens)
                      /\ Len(InterTokenLatency(obs)) = Cardinality(tokens) - 1
    BY DEF ITLProven
  <2>1. ITLAvailable(obs) /\ InterTokenLatency(obs) = Gaps(kept)
    BY DEF InterTokenLatency
  <2>2. /\ obs.requested /\ ~obs.invalid /\ obs.error = "none" /\ obs.usage # NoUsage
        /\ ObservedTokens(obs) = obs.usage /\ OneTokenPerEvent(obs) /\ Len(kept) >= 2
    BY <2>1 DEF ITLAvailable, CompletedCleanly
  <2>3. err = "none"
    BY <2>2 DEF StreamInv, ProgressInv
  <2>4. Whole /\ seenDone /\ Taken = Len(Answer) /\ ContentEvents(obs) # <<>>
    BY <2>3 DEF StreamInv, EndedInv
  <2>5. Complete(sent) /\ f = Answer
    BY <2>4, AnswerComplete, AllArrived DEF Whole, StreamInv
  <2>6. /\ Answer \in Seq(Seq(Body)) /\ Taken \in Nat /\ DOMAIN Answer = 1 .. Taken
        /\ s \in Seq(Observed) /\ Taken = Len(s)
        /\ \A i \in 1 .. Taken : Answer[i] \in Seq(Body)
    BY <2>4, AnswerType
  <2>7. kept = Tokens!Fold(s) /\ kept \in Seq(Observed)
    BY <2>6, TokenFold, KeptTypes
  <2>8. \A i \in DOMAIN Tokens!Fold(s) : Tokens!Fold(s)[i].tokens = 1
    BY <2>2, <2>7 DEF OneTokenPerEvent
  <2>9. /\ Len(kept) = Cardinality(Carrying(s))
        /\ \A i \in 1 .. Taken : s[i].tokens \in {0, 1}
        /\ Total(Counts(s)) = Len(kept)
    BY <2>6, <2>7, <2>8, TokensCounted
  <2>10. obs.usage = Cardinality(Carrying(s))
    BY <2>2, <2>9 DEF ObservedTokens, Counts
  <2>11. \A i \in 1 .. Taken : s[i].tokens = IF Decodes(Answer[i]) /\ EventOf(Answer[i]).index = 0
                                             THEN EventOf(Answer[i]).tokens ELSE 0
    <3> SUFFICES ASSUME NEW i \in 1 .. Taken
                 PROVE  s[i].tokens = IF Decodes(Answer[i]) /\ EventOf(Answer[i]).index = 0
                                      THEN EventOf(Answer[i]).tokens ELSE 0
      OBVIOUS
    <3>1. s[i] = Noted(Answer[i], s[i].at)
      BY DEF StreamInv, EvidenceInv
    <3> QED
      BY <3>1 DEF Noted
  <2>12. tokens = Carrying(s)
    <3>1. \A i \in events : i \in 1 .. Taken /\ EventOf(f[i]).tokens = s[i].tokens /\ s[i].tokens \in {0, 1}
      BY <2>5, <2>6, <2>9, <2>11
    <3>2. \A i \in Carrying(s) : i \in events
      BY <2>5, <2>6, <2>11 DEF Carrying
    <3>3. \A i \in tokens : i \in Carrying(s)
      BY <2>6, <3>1 DEF Carrying
    <3>4. \A i \in Carrying(s) : EventOf(f[i]).tokens > 0
      BY <3>1, <3>2 DEF Carrying
    <3> HIDE DEF events
    <3> QED
      BY <3>2, <3>3, <3>4
  <2>13. \A i \in events : EventOf(f[i]).tokens <= 1 /\ ~EventOf(f[i]).negative
    <3> SUFFICES ASSUME NEW i \in events PROVE EventOf(f[i]).tokens <= 1 /\ ~EventOf(f[i]).negative
      OBVIOUS
    <3>1. i \in 1 .. Taken /\ EventOf(f[i]).tokens = s[i].tokens /\ s[i].tokens \in {0, 1}
      BY <2>5, <2>6, <2>9, <2>11
    <3>2. ~Negative(Answer[i])
      BY <2>2, <3>1 DEF StreamInv, AcceptedInv
    <3> QED
      BY <2>5, <3>1, <3>2 DEF Negative
  <2>14. \E i \in DOMAIN f : Decodes(f[i]) /\ EventOf(f[i]).usage = Cardinality(tokens)
    <3>1. PICK i \in 1 .. Taken : Decodes(Answer[i]) /\ EventOf(Answer[i]).usage = obs.usage
      BY <2>2 DEF StreamInv, AcceptedInv
    <3> HIDE DEF tokens
    <3> QED
      BY <2>5, <2>6, <2>10, <2>12, <3>1
  <2>15. Len(InterTokenLatency(obs)) = Cardinality(tokens) - 1
    <3>1. kept # <<>>
      BY <2>2, <2>7
    <3> HIDE DEF tokens, kept
    <3> QED
      BY <2>1, <2>7, <2>9, <2>12, <3>1, GapsTotal
  <2> QED
    BY <2>2, <2>5, <2>13, <2>14, <2>15
<1> QED
  BY <1>1, StreamInvariant, PTL

(***************************************************************************)
(* The fake server                                                         *)
(***************************************************************************)

(* what a request asked for, and whom, never changes                       *)
LEMMA RequestedSame ==
  ASSUME StreamTypeOK, [Next]_vars
  PROVE  obs'.requested = obs.requested /\ server' = server
<1> USE DEF connectionVars, clientVars, parserVars
<1>1. CASE EnvironmentStep
  BY <1>1, Environment
<1>2. CASE (GotFirstResponseByte \/ ExecuteStep) /\ UNCHANGED <<server, served>>
  <2>1. CASE GotFirstResponseByte \/ ReadOtherLine \/ ReadDataLine \/ ReadFails \/ DiscardBody
             \/ \E fails \in BOOLEAN : CloseBody(fails)
    BY <2>1, <1>2 DEF GotFirstResponseByte, ReadOtherLine, ReadDataLine, ReadFails, DiscardBody, CloseBody
  <2>2. CASE DoSucceeds \/ DoFails \/ Return
    <3>1. obs' = [WithFirstByte(obs) EXCEPT !.headers = now] \/ obs' = WithFirstByte(obs)
          \/ obs' = [obs EXCEPT !.completed = now, !.error = RunError(obs, err)]
      BY <2>2 DEF DoSucceeds, DoFails, Return
    <3>2. obs'.requested = obs.requested
      BY <3>1 DEF WithFirstByte, StreamTypeOK, Observation
    <3> QED
      BY <3>2, <1>2
  <2>3. CASE ReadBlankLine
    BY <2>3, <1>2, HandledCases DEF ReadBlankLine
  <2>4. CASE ReadEnd
    <3>1. obs' = [Handled(frame).obs EXCEPT !.through = (EndVerdict(Handled(frame)) = "none")]
      BY <2>4 DEF ReadEnd
    <3>2. Handled(frame).obs \in Observation /\ Handled(frame).obs.requested = obs.requested
      BY HandledCases
    <3>3. obs'.requested = obs.requested
      BY <3>1, <3>2 DEF Observation
    <3> QED
      BY <3>3, <1>2
  <2> QED
    BY <1>2, <2>1, <2>2, <2>3, <2>4 DEF ExecuteStep
<1> QED
  BY <1>1, <1>2, StreamSteps

(* a frame of one line means what the line says                            *)
LEMMA SingleFrame ==
  ASSUME NEW b \in Body
  PROVE  /\ <<b>> \in Seq(Body)
         /\ Decodes(<<b>>) <=> b.type = "json"
         /\ b.type = "json" => EventOf(<<b>>) = b.event
         /\ IsDone(<<b>>) <=> b.type = "done"
         /\ Fits(<<b>>) <=> b.size <= MaxFrame /\ b.size + 1 < MaxFrame
<1> DEFINE f == <<b>>
<1>1. f \in Seq(Body) /\ Len(f) = 1 /\ f[1] = b /\ DOMAIN f = {1}
  OBVIOUS
<1>2. Decodes(f) <=> b.type = "json"
  <2> HIDE DEF f
  <2> QED
    BY <1>1 DEF Decodes
<1>3. b.type = "json" => EventOf(f) = b.event
  <2> HIDE DEF f
  <2> SUFFICES ASSUME b.type = "json" PROVE EventOf(f) = b.event
    OBVIOUS
  <2>1. ~IsPadding(b)
    BY DEF IsPadding
  <2>2. (CHOOSE i \in DOMAIN f : ~IsPadding(f[i])) = 1
    BY <1>1, <2>1
  <2> QED
    BY <1>1, <2>2 DEF EventOf
<1>4. IsDone(f) <=> b.type = "done"
  BY <1>1 DEF IsDone
<1>5. JoinedSize(f) = b.size
  <2>1. Append(<<>>, b) = f /\ <<>> \in Seq(Body)
    OBVIOUS
  <2> QED
    BY <2>1, JoinedAppend
<1>6. Fits(f) <=> b.size <= MaxFrame /\ b.size + 1 < MaxFrame
  <2> HIDE DEF f
  <2> QED
    BY <1>1, <1>5 DEF Fits, Scannable
<1> QED
  BY <1>1, <1>2, <1>3, <1>4, <1>6

(***************************************************************************)
(* Where the frames of a fixture are                                       *)
(***************************************************************************)

Lead(config, wants) == IF wants /\ config.evidence # "disabled" THEN 1 ELSE 0
Chunks(config)      == IF config.mode # "noContent" THEN config.chunks ELSE 0

(* the role, the content, the finish reason and the usage, and what is     *)
(* left of the end                                                         *)
LEMMA ScriptShape ==
  ASSUME NEW config \in Fixtures, NEW wants \in BOOLEAN, config.mode # "malformedJSON"
  PROVE  LET s == Script(config, wants)
             p == Lead(config, wants)
             c == Chunks(config)
         IN  /\ Len(s) = p + c + 2 + (IF config.mode # "eofBeforeDone" THEN 1 ELSE 0)
                                   + (IF config.mode = "dataAfterDone" THEN 1 ELSE 0)
             /\ \A i \in 1 .. p : s[i] = Json(NoEvent)
             /\ \A i \in 1 .. c : s[p + i] = Json(ContentEvent(config, i, wants))
             /\ s[p + c + 1] = Json(NoEvent)
             /\ s[p + c + 2] = Json(UsageEvent(config))
             /\ config.mode # "eofBeforeDone" => s[p + c + 3] = Done
             /\ config.mode = "dataAfterDone" => s[p + c + 4] = Json(NoEvent)
<1> DEFINE p == Lead(config, wants)
           c == Chunks(config)
           role == When(wants /\ config.evidence # "disabled", <<Json(NoEvent)>>)
           content == When(config.mode # "noContent",
                           [i \in 1 .. config.chunks |-> Json(ContentEvent(config, i, wants))])
           finish == <<Json(NoEvent), Json(UsageEvent(config))>>
           done == When(config.mode # "eofBeforeDone", <<Done>>)
           after == When(config.mode = "dataAfterDone", <<Json(NoEvent)>>)
<1>1. config.chunks \in Nat /\ config.evidence \in EvidenceModes /\ config.mode \in ServerModes
  BY RequestStreamAssumption DEF Fixtures
<1>2. p \in {0, 1} /\ c \in Nat
  BY <1>1 DEF Lead, Chunks
<1>3. Script(config, wants) = (((role \o content) \o finish) \o done) \o after
  BY DEF Script
<1> DEFINE All == {Json(NoEvent), Json(UsageEvent(config)), Done}
                  \cup {Json(ContentEvent(config, i, wants)) : i \in 1 .. config.chunks}
<1>4. role \in Seq(All) /\ Len(role) = p /\ (\A i \in 1 .. p : role[i] = Json(NoEvent))
  <2>1. <<Json(NoEvent)>> \in Seq(All) /\ <<>> \in Seq(All)
    OBVIOUS
  <2> HIDE DEF All
  <2> QED
    BY <2>1 DEF When, Lead
<1>5. content \in Seq(All) /\ Len(content) = c
      /\ (\A i \in 1 .. c : content[i] = Json(ContentEvent(config, i, wants)))
  <2> DEFINE k == [i \in 1 .. config.chunks |-> Json(ContentEvent(config, i, wants))]
  <2>1. k \in Seq(All) /\ Len(k) = config.chunks
    BY <1>1
  <2>2. \A i \in 1 .. config.chunks : k[i] = Json(ContentEvent(config, i, wants))
    OBVIOUS
  <2>3. <<>> \in Seq(All) /\ Len(<<>>) = 0
    OBVIOUS
  <2> HIDE DEF k, All
  <2> QED
    BY <1>1, <2>1, <2>2, <2>3 DEF When, Chunks
<1>6. finish \in Seq(All) /\ Len(finish) = 2 /\ finish[1] = Json(NoEvent) /\ finish[2] = Json(UsageEvent(config))
  OBVIOUS
<1> DEFINE d == IF config.mode # "eofBeforeDone" THEN 1 ELSE 0
           e == IF config.mode = "dataAfterDone" THEN 1 ELSE 0
<1>7. done \in Seq(All) /\ Len(done) = d /\ (d = 1 => done[1] = Done)
  <2>1. <<Done>> \in Seq(All) /\ <<>> \in Seq(All)
    OBVIOUS
  <2> HIDE DEF All
  <2> QED
    BY <2>1 DEF When
<1>8. after \in Seq(All) /\ Len(after) = e /\ (e = 1 => after[1] = Json(NoEvent))
  <2>1. <<Json(NoEvent)>> \in Seq(All) /\ <<>> \in Seq(All)
    OBVIOUS
  <2> HIDE DEF All
  <2> QED
    BY <2>1 DEF When
<1>9. d \in {0, 1} /\ e \in {0, 1} /\ (e = 1 => d = 1) /\ (d = 1 <=> config.mode # "eofBeforeDone")
      /\ (e = 1 <=> config.mode = "dataAfterDone")
  OBVIOUS
<1> HIDE DEF p, c, d, e, role, content, finish, done, after, All
<1> DEFINE two == role \o content
           three == two \o finish
           four == three \o done
           five == four \o after
<1>10. two \in Seq(All) /\ Len(two) = p + c /\ (\A i \in 1 .. p : two[i] = Json(NoEvent))
       /\ (\A i \in 1 .. c : two[p + i] = Json(ContentEvent(config, i, wants)))
  BY <1>2, <1>4, <1>5
<1> HIDE DEF two
<1>11. three \in Seq(All) /\ Len(three) = p + c + 2 /\ (\A i \in 1 .. p + c : three[i] = two[i])
       /\ three[p + c + 1] = Json(NoEvent) /\ three[p + c + 2] = Json(UsageEvent(config))
  <2> DEFINE n == p + c
  <2>1. n \in Nat /\ Len(two) = n /\ two \in Seq(All) /\ finish \in Seq(All) /\ Len(finish) = 2
    BY <1>2, <1>6, <1>10
  <2> HIDE DEF n
  <2>2. three \in Seq(All) /\ Len(three) = Len(two) + Len(finish)
        /\ (\A i \in 1 .. Len(two) + Len(finish) :
             three[i] = IF i <= Len(two) THEN two[i] ELSE finish[i - Len(two)])
    BY <2>1, ConcatProperties
  <2> HIDE DEF three
  <2>3. Len(three) = n + 2
        /\ \A i \in 1 .. n + 2 : three[i] = IF i <= n THEN two[i] ELSE finish[i - n]
    BY <2>1, <2>2
  <2>4. n + 1 \in 1 .. n + 2 /\ n + 2 \in 1 .. n + 2 /\ ~(n + 1 <= n) /\ ~(n + 2 <= n)
        /\ (n + 1) - n = 1 /\ (n + 2) - n = 2
    BY <2>1
  <2>5. three[n + 1] = finish[1] /\ three[n + 2] = finish[2]
    BY <2>3, <2>4
  <2>6. \A i \in 1 .. n : three[i] = two[i]
    BY <2>1, <2>3
  <2> QED
    BY <1>6, <2>2, <2>3, <2>5, <2>6 DEF n
<1> HIDE DEF three
<1>12. four \in Seq(All) /\ Len(four) = p + c + 2 + d /\ (\A i \in 1 .. p + c + 2 : four[i] = three[i])
       /\ (d = 1 => four[p + c + 3] = Done)
  BY <1>2, <1>7, <1>9, <1>11
<1> HIDE DEF four
<1>13. five \in Seq(All) /\ Len(five) = p + c + 2 + d + e /\ (\A i \in 1 .. p + c + 2 + d : five[i] = four[i])
       /\ (e = 1 => five[p + c + 4] = Json(NoEvent))
  BY <1>2, <1>8, <1>9, <1>12
<1>14. Script(config, wants) = five
  BY <1>3 DEF two, three, four
<1> HIDE DEF five
<1>15. /\ \A i \in 1 .. p : five[i] = Json(NoEvent)
       /\ \A i \in 1 .. c : five[p + i] = Json(ContentEvent(config, i, wants))
       /\ five[p + c + 1] = Json(NoEvent)
       /\ five[p + c + 2] = Json(UsageEvent(config))
       /\ d = 1 => five[p + c + 3] = Done
  <2>1. \A i \in 1 .. p + c : five[i] = two[i]
    <3> SUFFICES ASSUME NEW i \in 1 .. p + c PROVE five[i] = two[i]
      OBVIOUS
    <3>1. i \in 1 .. p + c + 2 /\ i \in 1 .. p + c + 2 + d
      BY <1>2, <1>9
    <3> QED
      BY <1>11, <1>12, <1>13, <3>1
  <2>2. \A i \in 1 .. p : i \in 1 .. p + c
    BY <1>2
  <2>3. \A i \in 1 .. c : p + i \in 1 .. p + c
    BY <1>2
  <2>4. p + c + 1 \in 1 .. p + c + 2 /\ p + c + 2 \in 1 .. p + c + 2
    BY <1>2
  <2>5. \A i \in 1 .. p + c + 2 : five[i] = three[i]
    BY <1>2, <1>9, <1>12, <1>13
  <2>6. d = 1 => five[p + c + 3] = four[p + c + 3]
    BY <1>2, <1>9, <1>13
  <2> QED
    BY <1>10, <1>11, <1>12, <2>1, <2>2, <2>3, <2>4, <2>5, <2>6
<1> QED
  BY <1>9, <1>13, <1>14, <1>15 DEF p, c, d, e

(* the lines of a fixture's script, one by one                             *)
LEMMA ScriptLines ==
  ASSUME NEW config \in Fixtures, NEW wants \in BOOLEAN, config.mode # "malformedJSON",
         NEW i \in 1 .. Len(Script(config, wants))
  PROVE  LET s == Script(config, wants)
             p == Lead(config, wants)
             c == Chunks(config)
         IN  \/ i \in 1 .. p /\ s[i] = Json(NoEvent)
             \/ i - p \in 1 .. c /\ s[i] = Json(ContentEvent(config, i - p, wants))
             \/ i = p + c + 1 /\ s[i] = Json(NoEvent)
             \/ i = p + c + 2 /\ s[i] = Json(UsageEvent(config))
             \/ i = p + c + 3 /\ s[i] = Done /\ config.mode # "eofBeforeDone"
             \/ i = p + c + 4 /\ s[i] = Json(NoEvent) /\ config.mode = "dataAfterDone"
<1> DEFINE s == Script(config, wants)
           p == Lead(config, wants)
           c == Chunks(config)
           d == IF config.mode # "eofBeforeDone" THEN 1 ELSE 0
           e == IF config.mode = "dataAfterDone" THEN 1 ELSE 0
<1>1. p \in {0, 1} /\ c \in Nat
  BY RequestStreamAssumption DEF Lead, Chunks, Fixtures
<1>2. /\ Len(s) = p + c + 2 + d + e
      /\ \A j \in 1 .. p : s[j] = Json(NoEvent)
      /\ \A j \in 1 .. c : s[p + j] = Json(ContentEvent(config, j, wants))
      /\ s[p + c + 1] = Json(NoEvent)
      /\ s[p + c + 2] = Json(UsageEvent(config))
      /\ d = 1 => s[p + c + 3] = Done
      /\ e = 1 => s[p + c + 4] = Json(NoEvent)
  <2> HIDE DEF s, p, c
  <2> QED
    BY ScriptShape DEF s, p, c
<1>3. d \in {0, 1} /\ e \in {0, 1} /\ (e = 1 => d = 1) /\ (d = 1 <=> config.mode # "eofBeforeDone")
      /\ (e = 1 <=> config.mode = "dataAfterDone")
  OBVIOUS
<1>4. i \in 1 .. Len(s)
  OBVIOUS
<1> HIDE DEF s, p, c, d, e
<1>5. i \in 1 .. p \/ i - p \in 1 .. c \/ i = p + c + 1 \/ i = p + c + 2
      \/ (d = 1 /\ i = p + c + 3) \/ (e = 1 /\ i = p + c + 4)
  BY <1>1, <1>2, <1>3, <1>4
<1>6. i - p \in 1 .. c => s[i] = Json(ContentEvent(config, i - p, wants))
  <2>1. p + (i - p) = i
    BY <1>1
  <2> QED
    BY <1>2, <2>1
<1> QED
  BY <1>2, <1>3, <1>5, <1>6 DEF s, p, c

(* no fixture sends a negative token ID or usage, and its lines are short  *)
LEMMA ScriptBodies ==
  ASSUME NEW config \in Fixtures, NEW wants \in BOOLEAN
  PROVE  LET s == Script(config, wants)
         IN  /\ s \in Seq(Body)
             /\ \A i \in 1 .. Len(s) :
                  /\ ~s[i].event.negative
                  /\ s[i].event.usage # NegativeUsage
                  /\ s[i].size \in {1, 2}
                  /\ s[i].type \in {"json", "done"} \/ (config.mode = "malformedJSON" /\ s[i].type = "broken")
<1> DEFINE s == Script(config, wants)
           Good(b) == /\ ~b.event.negative
                      /\ b.event.usage # NegativeUsage
                      /\ b.size \in {1, 2}
<1>1. s \in Seq(Body)
  BY FixtureTypes
<1>2. config.chunks \in Nat /\ config.completion \in Nat
  BY RequestStreamAssumption DEF Fixtures
<1>3. ~NoEvent.negative /\ NoEvent.usage # NegativeUsage
  BY DEF NoEvent, NoUsage, NegativeUsage
<1>4. ~UsageEvent(config).negative /\ UsageEvent(config).usage # NegativeUsage
  BY <1>2 DEF UsageEvent, NoEvent, NegativeUsage
<1>5. \A i : ~ContentEvent(config, i, wants).negative /\ ContentEvent(config, i, wants).usage # NegativeUsage
  BY DEF ContentEvent, NoEvent, NoUsage, NegativeUsage
<1>6. /\ Good(Json(NoEvent)) /\ Good(Json(UsageEvent(config))) /\ Good(Done) /\ Good(Broken)
      /\ Done.type = "done" /\ Broken.type = "broken"
      /\ \A e : Json(e).type = "json"
      /\ \A i : Good(Json(ContentEvent(config, i, wants)))
  BY <1>3, <1>4, <1>5 DEF Json, Done, Broken
<1> HIDE DEF Good
<1>7. ASSUME NEW i \in 1 .. Len(s)
      PROVE  Good(s[i]) /\ (s[i].type \in {"json", "done"} \/ (config.mode = "malformedJSON" /\ s[i].type = "broken"))
  <2>1. CASE config.mode = "malformedJSON"
    <3>1. s = <<Broken>> /\ i = 1
      BY <2>1, <1>7 DEF Script
    <3> QED
      BY <2>1, <3>1, <1>6
  <2>2. CASE config.mode # "malformedJSON"
    BY <2>2, <1>6, <1>7, ScriptLines
  <2> QED
    BY <2>1, <2>2
<1> QED
  BY <1>1, <1>7 DEF Good

(***************************************************************************)
(* What the client has of a fixture's script                               *)
(***************************************************************************)

Written(script) ==
  /\ served <= Len(script)
  /\ response = "ok" => ~Refuses(server)
  /\ response = "error" => Refuses(server)
  /\ response # "ok" => served = 0
  /\ stream = "closed" /\ response = "ok" => served = Len(script)
  /\ stream = "broken" => cancelled
  /\ Len(sent) = 2 * served
  /\ \A k \in 1 .. served : sent[2 * k - 1] = Data(script[k]) /\ sent[2 * k] = Blank

Collected(script) ==
  /\ read = 2 * Len(Arrived.ended) + Len(Arrived.open)
  /\ Arrived.open = <<>> \/ Arrived.open = <<script[Len(Arrived.ended) + 1]>>
  /\ \A i \in 1 .. Len(Arrived.ended) : Arrived.ended[i] = <<script[i]>>
  /\ ~obs.invalid

(* A fixture writes its script, a frame of one line at a time; the client  *)
(* has read a prefix of it.                                                *)
FixtureInv ==
  IsFixture => \A script \in {Script(server, obs.requested)} : Written(script) /\ Collected(script)

LEMMA FixtureServer ==
  ASSUME StreamTypeOK, IsFixture
  PROVE  /\ server \in Fixtures /\ obs.requested \in BOOLEAN
         /\ Script(server, obs.requested) \in Seq(Body)
<1>1. OtherServer.peer # "fixture"
  BY DEF OtherServer
<1>2. server \in Fixtures /\ obs.requested \in BOOLEAN
  BY <1>1 DEF StreamTypeOK, IsFixture, Observation
<1> QED
  BY <1>2, FixtureTypes

LEMMA FixtureInvInit == Init => FixtureInv
<1> SUFFICES ASSUME Init, IsFixture, NEW script \in {Script(server, obs.requested)}
             PROVE  Written(script) /\ Collected(script)
  BY DEF FixtureInv
<1>1. StreamTypeOK
  BY StreamTypeInit
<1>2. script \in Seq(Body)
  BY <1>1, FixtureServer
<1>3. sent = <<>> /\ read = 0 /\ served = 0 /\ response = "none" /\ stream = "open" /\ obs.invalid = FALSE
  BY DEF Init, ClientInit
<1>4. Arrived = [ended |-> <<>>, open |-> <<>>]
  <2>1. SubSeq(sent, 1, read) = <<>>
    BY <1>3
  <2> QED
    BY <2>1, ParsedFold DEF Arrived
<1>5. Written(script)
  BY <1>2, <1>3 DEF Written
<1>6. Collected(script)
  BY <1>3, <1>4 DEF Collected
<1> QED
  BY <1>5, <1>6

(* the next line is the one the fixture wrote there                        *)
LEMMA FixtureLine ==
  ASSUME StreamTypeOK, NEW script \in Seq(Body), Written(script), Collected(script), Reading
  PROVE  LET k == Len(Arrived.ended)
         IN  /\ k \in Nat /\ k + 1 <= served /\ k + 1 \in 1 .. Len(script)
             /\ Arrived.open = <<>> => Line = Data(script[k + 1])
             /\ Arrived.open # <<>> => Line = Blank /\ Len(Arrived.open) = 1
<1> DEFINE k == Len(Arrived.ended)
<1>1. k \in Nat /\ read \in Nat /\ served \in Nat /\ Len(sent) \in Nat /\ Len(script) \in Nat
  BY DEF StreamTypeOK
<1>2. read < 2 * served /\ served <= Len(script)
  BY DEF Reading, Written
<1>3. CASE Arrived.open = <<>>
  <2>1. read = 2 * k
    <3>1. Len(Arrived.open) = 0
      BY <1>3
    <3> QED
      BY <1>1, <3>1 DEF Collected
  <2>2. k + 1 \in 1 .. served /\ k + 1 \in 1 .. Len(script) /\ 2 * (k + 1) - 1 = read + 1
    <3> HIDE DEF k
    <3> QED
      BY <1>1, <1>2, <2>1
  <2>3. Line = Data(script[k + 1])
    <3> HIDE DEF k
    <3> QED
      BY <2>2 DEF Line, Written
  <2> QED
    BY <1>1, <1>3, <2>2, <2>3
<1>4. CASE Arrived.open # <<>>
  <2>1. Len(Arrived.open) = 1
    <3>1. Arrived.open = <<script[k + 1]>>
      BY <1>4 DEF Collected
    <3>2. Len(<<script[k + 1]>>) = 1
      OBVIOUS
    <3> QED
      BY <3>1, <3>2
  <2>2. read = 2 * k + 1
    BY <1>1, <2>1 DEF Collected
  <2>3. k + 1 \in 1 .. served /\ k + 1 \in 1 .. Len(script) /\ 2 * (k + 1) = read + 1
    <3> HIDE DEF k
    <3> QED
      BY <1>1, <1>2, <2>2
  <2>4. Line = Blank
    <3> HIDE DEF k
    <3> QED
      BY <2>3 DEF Line, Written
  <2> QED
    BY <1>1, <1>4, <2>1, <2>3, <2>4
<1> QED
  BY <1>3, <1>4

LEMMA WrittenStep ==
  ASSUME StreamTypeOK, IsFixture, [Next]_vars, NEW script \in {Script(server, obs.requested)}, Written(script)
  PROVE  Written(script)'
<1> USE DEF connectionVars, clientVars, parserVars
<1>1. script \in Seq(Body) /\ script = Script(server, obs.requested)
  BY FixtureServer
<1>2. server' = server
  BY RequestedSame
<1>3. CASE UNCHANGED <<response, stream, sent, served>> /\ (cancelled => cancelled')
  BY <1>2, <1>3 DEF Written
<1>4. CASE SendHeaders
  BY <1>2, <1>4 DEF SendHeaders, Written
<1>5. CASE SendFrame
  <2> DEFINE n == served
  <2>1. /\ sent' = sent \o <<Data(script[n + 1]), Blank>> /\ served' = n + 1
        /\ UNCHANGED <<cancelled, response, stream>> /\ n < Len(script) /\ response = "ok" /\ stream = "open"
    BY <1>1, <1>5 DEF SendFrame, WriteRawEvent
  <2>2. n \in Nat /\ Len(sent) = 2 * n /\ sent \in Seq(WireLine) /\ Len(script) \in Nat
    BY <1>1 DEF StreamTypeOK, Written
  <2>3. script[n + 1] \in Body
    <3>1. n + 1 \in 1 .. Len(script)
      BY <2>1, <2>2
    <3> QED
      BY <1>1, <3>1, ElementOfSeq
  <2> DEFINE x == Data(script[n + 1])
  <2>4. x \in WireLine /\ Blank \in WireLine
    BY <2>3, BodyTypes
  <2>5. /\ Len(sent') = 2 * n + 2
        /\ sent'[2 * n + 1] = x /\ sent'[2 * n + 2] = Blank
        /\ \A i \in 1 .. 2 * n : sent'[i] = sent[i]
    <3> DEFINE m == 2 * n
               pair == <<x, Blank>>
    <3>1. m \in Nat /\ Len(sent) = m /\ sent' = sent \o pair
      BY <2>1, <2>2
    <3>2. pair \in Seq(WireLine) /\ Len(pair) = 2 /\ pair[1] = x /\ pair[2] = Blank
      <4> HIDE DEF x
      <4> QED
        BY <2>4
    <3> HIDE DEF m, pair, x
    <3>3. Len(sent') = m + 2
          /\ \A i \in 1 .. m + 2 : sent'[i] = IF i <= m THEN sent[i] ELSE pair[i - m]
      <4> DEFINE longer == sent \o pair
      <4>1. Len(longer) = Len(sent) + Len(pair)
            /\ \A i \in 1 .. Len(sent) + Len(pair) :
                 longer[i] = IF i <= Len(sent) THEN sent[i] ELSE pair[i - Len(sent)]
        BY <2>2, <3>2, ConcatProperties
      <4>2. longer = sent'
        BY <3>1
      <4> HIDE DEF longer
      <4> QED
        BY <3>1, <3>2, <4>1, <4>2
    <3>4. m + 1 \in 1 .. m + 2 /\ m + 2 \in 1 .. m + 2 /\ ~(m + 1 <= m) /\ ~(m + 2 <= m)
          /\ (m + 1) - m = 1 /\ (m + 2) - m = 2
      BY <3>1
    <3>5. sent'[m + 1] = x /\ sent'[m + 2] = Blank
      BY <3>2, <3>3, <3>4
    <3>6. \A i \in 1 .. m : sent'[i] = sent[i]
      BY <3>1, <3>3
    <3> QED
      BY <3>3, <3>5, <3>6 DEF m
  <2>6. ASSUME NEW k \in 1 .. n + 1
        PROVE  sent'[2 * k - 1] = Data(script[k]) /\ sent'[2 * k] = Blank
    <3>1. CASE k = n + 1
      <4>1. 2 * k - 1 = 2 * n + 1 /\ 2 * k = 2 * n + 2
        BY <2>2, <3>1
      <4> QED
        BY <2>5, <3>1, <4>1
    <3>2. CASE k \in 1 .. n
      <4>1. 2 * k - 1 \in 1 .. 2 * n /\ 2 * k \in 1 .. 2 * n
        BY <2>2, <3>2
      <4> QED
        BY <2>5, <3>2, <4>1 DEF Written
    <3> QED
      BY <2>2, <3>1, <3>2
  <2>7. n + 1 <= Len(script) /\ 2 * n + 2 = 2 * (n + 1)
    BY <2>1, <2>2
  <2> HIDE DEF n, x
  <2>8. served' = n + 1 /\ Len(sent') = 2 * served'
    BY <2>1, <2>5, <2>7
  <2> QED
    BY <1>2, <2>1, <2>6, <2>7, <2>8 DEF Written
<1>6. CASE HandlerReturns
  BY <1>1, <1>2, <1>6 DEF HandlerReturns, Written
<1>7. CASE HandlerAbandons
  BY <1>2, <1>7 DEF HandlerAbandons, Written
<1>8. ~PeerStep
  BY DEF PeerStep, PeerResponds, PeerSends, PeerEnds
<1>9. CASE EnvironmentStep
  BY <1>3, <1>4, <1>5, <1>6, <1>7, <1>8, <1>9 DEF EnvironmentStep, FixtureStep, Tick, CancelRequest, vars
<1>10. CASE (GotFirstResponseByte \/ ExecuteStep) /\ UNCHANGED <<server, served>>
  <2>1. UNCHANGED <<response, stream, sent, served, cancelled>>
    BY <1>10 DEF GotFirstResponseByte, ExecuteStep, DoSucceeds, DoFails, ReadOtherLine, ReadDataLine,
                 ReadBlankLine, ReadEnd, ReadFails, DiscardBody, CloseBody, Return
  <2> QED
    BY <1>3, <2>1
<1> QED
  BY <1>9, <1>10, StreamSteps

(* no frame of a fixture makes a token-ID count invalid                    *)
LEMMA FixtureValid ==
  ASSUME StreamTypeOK, IsFixture, ProgressInv, pc = "reading",
         NEW script \in {Script(server, obs.requested)}, Written(script), Collected(script)
  PROVE  ~Handled(frame).obs.invalid
<1> DEFINE k == Len(Arrived.ended)
<1>1. script \in Seq(Body) /\ \A i \in 1 .. Len(script) : ~script[i].event.negative
  BY FixtureServer, ScriptBodies
<1>2. frame = Arrived.open /\ ~obs.invalid
  BY DEF ProgressInv, Collected
<1>3. Handled(frame).obs.invalid => obs.invalid \/ Negative(frame)
  BY HandledCases
<1>4. CASE frame = <<>>
  BY <1>2, <1>4, HandledCases
<1>5. CASE frame # <<>>
  <2>1. frame = <<script[k + 1]>>
    BY <1>2, <1>5 DEF Collected
  <2>2. Len(Arrived.open) = 1
    BY <1>2, <2>1
  <2>3. k \in Nat /\ read = 2 * k + 1 /\ read <= Len(sent) /\ Len(sent) = 2 * served
        /\ served <= Len(script) /\ served \in Nat /\ Len(script) \in Nat
    BY <1>1, <2>2 DEF StreamTypeOK, Collected, Written
  <2> HIDE DEF k
  <2>4. k + 1 \in 1 .. Len(script)
    BY <2>3
  <2>5. script[k + 1] \in Body /\ ~script[k + 1].event.negative
    BY <1>1, <2>4, ElementOfSeq
  <2>6. ~Negative(frame)
    BY <2>1, <2>5, SingleFrame DEF Negative
  <2> QED
    BY <1>2, <1>3, <2>6
<1> QED
  BY <1>4, <1>5

LEMMA CollectedStep ==
  ASSUME StreamTypeOK, IsFixture, ProgressInv, [Next]_vars,
         NEW script \in {Script(server, obs.requested)}, Written(script), Collected(script)
  PROVE  Collected(script)'
<1> USE DEF connectionVars, clientVars, parserVars
<1> DEFINE k == Len(Arrived.ended)
<1>1. script \in Seq(Body)
  BY FixtureServer
<1>2. CASE Arrived' = Arrived /\ read' = read /\ obs'.invalid = obs.invalid
  BY <1>2 DEF Collected
<1>3. CASE EnvironmentStep
  BY <1>2, <1>3, Environment
<1>4. CASE GotFirstResponseByte \/ ReadFails \/ DiscardBody \/ \E fails \in BOOLEAN : CloseBody(fails)
  BY <1>2, <1>4, ArrivedSame DEF GotFirstResponseByte, ReadFails, DiscardBody, CloseBody
<1>5. CASE DoSucceeds \/ DoFails \/ Return
  <2>1. obs' = [WithFirstByte(obs) EXCEPT !.headers = now] \/ obs' = WithFirstByte(obs)
        \/ obs' = [obs EXCEPT !.completed = now, !.error = RunError(obs, err)]
    BY <1>5 DEF DoSucceeds, DoFails, Return
  <2>2. obs'.invalid = obs.invalid
    BY <2>1 DEF WithFirstByte, StreamTypeOK, Observation
  <2>3. UNCHANGED <<sent, read>>
    BY <1>5 DEF DoSucceeds, DoFails, Return
  <2> QED
    BY <1>2, <2>2, <2>3, ArrivedSame
<1>6. CASE ReadOtherLine
  BY <1>1, <1>6, FixtureLine DEF ReadOtherLine, Data, Blank
<1>7. CASE ReadDataLine
  <2>1. Arrived.open = <<>> /\ Line = Data(script[k + 1]) /\ k \in Nat
    BY <1>1, <1>7, FixtureLine DEF ReadDataLine, Blank
  <2>2. read' = read + 1 /\ sent' = sent /\ obs' = obs /\ Reading
    BY <1>7 DEF ReadDataLine
  <2>3. Arrived \in Parse /\ Line \in WireLine /\ Line.kind = "data" /\ Line.body = script[k + 1]
        /\ Arrived' = ParseLine(Arrived, Line)
    BY <2>1, <2>2, ArrivedNext DEF StreamTypeOK, Parse, Data
  <2>4. Arrived'.ended = Arrived.ended /\ Arrived'.open = Append(<<>>, script[k + 1])
    BY <2>1, <2>3, ParseCases
  <2>5. Arrived'.open = <<script[k + 1]>> /\ Len(Arrived'.open) = 1 /\ Len(Arrived.open) = 0
    <3> DEFINE b == script[k + 1]
    <3>1. Append(<<>>, b) = <<b>> /\ Len(<<b>>) = 1 /\ Len(<<>>) = 0
      OBVIOUS
    <3> QED
      BY <2>1, <2>4, <3>1
  <2>6. read' = 2 * k + 1
    <3>1. read = 2 * k + 0
      BY <2>5 DEF Collected
    <3> HIDE DEF k
    <3> QED
      BY <2>1, <2>2, <3>1
  <2> HIDE DEF Arrived
  <2> QED
    BY <2>1, <2>2, <2>4, <2>5, <2>6 DEF Collected
<1>8. CASE ReadBlankLine
  <2>1. Arrived.open # <<>> /\ Len(Arrived.open) = 1 /\ k \in Nat
    BY <1>1, <1>8, FixtureLine DEF ReadBlankLine, Data
  <2>2. read' = read + 1 /\ sent' = sent /\ obs' = Handled(frame).obs /\ Reading /\ pc = "reading"
        /\ Line.kind = "blank"
    BY <1>8 DEF ReadBlankLine, Reading
  <2>3. Arrived \in Parse /\ Line \in WireLine /\ Arrived' = ParseLine(Arrived, Line)
    BY <2>2, ArrivedNext DEF StreamTypeOK, Parse
  <2>4. Arrived'.ended = Append(Arrived.ended, Arrived.open) /\ Arrived'.open = <<>>
    BY <2>1, <2>2, <2>3, ParseCases
  <2>5. Arrived.open = <<script[k + 1]>>
    BY <2>1 DEF Collected
  <2>6. read' = 2 * (k + 1)
    <3>1. read = 2 * k + 1
      BY <2>1 DEF Collected
    <3> HIDE DEF k
    <3> QED
      BY <2>1, <2>2, <3>1
  <2>7. ~obs'.invalid
    BY <2>2, FixtureValid
  <2>8. Arrived.ended \in Seq(Seq(Body)) /\ Arrived.open \in Seq(Body)
    BY <2>3 DEF Parse
  <2>9. Len(Arrived'.ended) = k + 1 /\ Len(Arrived'.open) = 0
        /\ (\A i \in 1 .. k + 1 : Arrived'.ended[i] = IF i = k + 1 THEN Arrived.open ELSE Arrived.ended[i])
    <3> DEFINE ended == Arrived.ended
               open == Arrived.open
    <3> HIDE DEF ended, open
    <3>1. ended \in Seq(Seq(Body)) /\ open \in Seq(Body)
      BY <2>8 DEF ended, open
    <3>2. Len(Append(ended, open)) = Len(ended) + 1
          /\ \A i \in 1 .. Len(ended) + 1 : Append(ended, open)[i] = IF i = Len(ended) + 1 THEN open ELSE ended[i]
      BY <3>1
    <3>3. Len(<<>>) = 0
      OBVIOUS
    <3> QED
      BY <2>4, <3>2, <3>3 DEF ended, open
  <2>10. \A i \in 1 .. k + 1 : Arrived'.ended[i] = <<script[i]>>
    BY <2>1, <2>5, <2>9 DEF Collected
  <2> HIDE DEF Arrived, k
  <2> QED
    BY <2>1, <2>4, <2>6, <2>7, <2>9, <2>10 DEF Collected
<1>9. CASE ReadEnd
  <2>1. pc = "reading" /\ UNCHANGED <<sent, read>>
        /\ obs' = [Handled(frame).obs EXCEPT !.through = (EndVerdict(Handled(frame)) = "none")]
    BY <1>9 DEF ReadEnd
  <2>2. Handled(frame).obs \in Observation /\ ~Handled(frame).obs.invalid /\ ~obs.invalid
    BY <2>1, HandledCases, FixtureValid DEF Collected
  <2>3. obs'.invalid = Handled(frame).obs.invalid
    BY <2>1, <2>2 DEF Observation
  <2>4. Arrived' = Arrived
    BY <2>1, ArrivedSame
  <2> QED
    BY <2>1, <2>2, <2>3, <2>4 DEF Collected
<1> QED
  BY <1>3, <1>4, <1>5, <1>6, <1>7, <1>8, <1>9, StreamSteps DEF ExecuteStep

LEMMA FixtureInvStep == StreamTypeOK /\ ProgressInv /\ FixtureInv /\ [Next]_vars => FixtureInv'
<1> SUFFICES ASSUME StreamTypeOK, ProgressInv, FixtureInv, [Next]_vars
             PROVE  FixtureInv'
  OBVIOUS
<1> SUFFICES ASSUME IsFixture', NEW script \in {Script(server, obs.requested)}
             PROVE  Written(script)' /\ Collected(script)'
  <2>1. obs'.requested = obs.requested /\ server' = server
    BY RequestedSame
  <2> QED
    BY <2>1 DEF FixtureInv
<1>1. IsFixture
  BY RequestedSame DEF IsFixture
<1>2. Written(script) /\ Collected(script)
  BY <1>1 DEF FixtureInv
<1> QED
  BY <1>1, <1>2, WrittenStep, CollectedStep

LEMMA FixtureInvariant == Spec => []FixtureInv
<1>1. StreamInv /\ FixtureInv /\ [Next]_vars => FixtureInv'
  BY FixtureInvStep DEF StreamInv
<1> QED
  BY <1>1, FixtureInvInit, StreamInvariant, PTL DEF Spec

(* what has arrived of a fixture's answer is a prefix of its script        *)
LEMMA AnswerFixture ==
  ASSUME StreamTypeOK, IsFixture, NEW script \in {Script(server, obs.requested)},
         Written(script), Collected(script)
  PROVE  /\ Len(Answer) \in Nat /\ Len(Answer) <= Len(script) /\ script \in Seq(Body)
         /\ \A i \in 1 .. Len(Answer) : Answer[i] = <<script[i]>>
         /\ Answer # <<>> => response = "ok"
         /\ Whole => Len(Answer) = Len(script)
<1> DEFINE ended == Arrived.ended
           open == Arrived.open
           k == Len(ended)
<1>1. script \in Seq(Body) /\ Len(script) \in Nat
  BY FixtureServer
<1>2. /\ Answer = IF open = <<>> THEN ended ELSE Append(ended, open)
      /\ ended \in Seq(Seq(Body)) /\ open \in Seq(Body)
  BY DEF Answer, Ended, StreamTypeOK
<1>3. k \in Nat /\ read \in 0 .. Len(sent) /\ served \in Nat /\ Len(sent) = 2 * served
      /\ served <= Len(script) /\ read = 2 * k + Len(open)
      /\ (response # "ok" => served = 0)
      /\ (Whole => served = Len(script) /\ read = Len(sent))
  BY <1>2 DEF StreamTypeOK, Written, Collected, Whole
<1>4. \A i \in 1 .. k : ended[i] = <<script[i]>>
  BY DEF Collected
<1>5. CASE open = <<>>
  <2>1. Len(open) = 0 /\ Answer = ended
    BY <1>2, <1>5
  <2>2. Len(Answer) = k /\ read = 2 * k
    BY <1>3, <2>1
  <2>3. Answer # <<>> => k > 0
    <3> HIDE DEF ended
    <3>1. ended # <<>> => Len(ended) > 0
      BY <1>2
    <3> QED
      BY <2>1, <3>1
  <2> HIDE DEF k, ended, open
  <2> QED
    BY <1>1, <1>3, <1>4, <2>1, <2>2, <2>3
<1>6. CASE open # <<>>
  <2>1. open = <<script[k + 1]>>
    BY <1>6 DEF Collected
  <2>2. Len(open) = 1
    BY <2>1
  <2> HIDE DEF ended, open
  <2>3. Answer = Append(ended, open) /\ Len(Answer) = Len(ended) + 1
        /\ \A i \in 1 .. Len(ended) + 1 : Answer[i] = IF i = Len(ended) + 1 THEN open ELSE ended[i]
    BY <1>2, <1>6
  <2>4. \A i \in 1 .. k + 1 : Answer[i] = <<script[i]>>
    BY <1>3, <1>4, <2>1, <2>3
  <2>5. Len(Answer) = k + 1
    BY <2>3
  <2> HIDE DEF k
  <2>6. read = 2 * k + 1 /\ ~Whole /\ k + 1 <= served
    BY <1>3, <2>2
  <2> QED
    BY <1>1, <1>3, <2>4, <2>5, <2>6
<1> QED
  BY <1>5, <1>6

(* the modes differ in where [DONE] is                                     *)
LEMMA ScriptDone ==
  ASSUME NEW config \in Fixtures, NEW wants \in BOOLEAN
  PROVE  LET s == Script(config, wants)
         IN  /\ Len(s) \in Nat /\ Len(s) >= 1
             /\ config.mode = "malformedJSON" => Len(s) = 1 /\ s[1] = Broken
             /\ config.mode = "eofBeforeDone" => \A i \in 1 .. Len(s) : s[i].type = "json"
             /\ config.mode = "dataAfterDone" => s[Len(s)].type = "json"
             /\ config.mode \notin {"malformedJSON", "eofBeforeDone"} => \E i \in 1 .. Len(s) : s[i].type = "done"
             /\ config.mode \notin {"malformedJSON", "eofBeforeDone", "dataAfterDone"} =>
                  \A i \in 1 .. Len(s) - 1 : s[i].type # "done"
<1> DEFINE s == Script(config, wants)
           p == Lead(config, wants)
           c == Chunks(config)
<1>1. Done.type = "done" /\ Broken.type = "broken" /\ \A e : Json(e).type = "json"
  BY DEF Done, Broken, Json
<1>2. CASE config.mode = "malformedJSON"
  <2>1. s = <<Broken>>
    BY <1>2 DEF Script
  <2>2. Len(<<Broken>>) = 1 /\ <<Broken>>[1] = Broken
    OBVIOUS
  <2> HIDE DEF s
  <2> QED
    BY <1>2, <2>1, <2>2 DEF s
<1>3. CASE config.mode # "malformedJSON"
  <2> DEFINE d == IF config.mode # "eofBeforeDone" THEN 1 ELSE 0
             e == IF config.mode = "dataAfterDone" THEN 1 ELSE 0
  <2>1. p \in {0, 1} /\ c \in Nat
    BY RequestStreamAssumption DEF Lead, Chunks, Fixtures
  <2>2. /\ Len(s) = p + c + 2 + d + e
        /\ d = 1 => s[p + c + 3] = Done
        /\ e = 1 => s[p + c + 4] = Json(NoEvent)
    <3> HIDE DEF s, p, c
    <3> QED
      BY <1>3, ScriptShape DEF s, p, c
  <2>3. \A i \in 1 .. Len(s) : \/ s[i].type = "json"
                               \/ i = p + c + 3 /\ s[i].type = "done" /\ config.mode # "eofBeforeDone"
    <3> SUFFICES ASSUME NEW i \in 1 .. Len(s)
                 PROVE  \/ s[i].type = "json"
                        \/ i = p + c + 3 /\ s[i].type = "done" /\ config.mode # "eofBeforeDone"
      OBVIOUS
    <3> QED
      BY <1>1, <1>3, ScriptLines
  <2>4. /\ d \in {0, 1} /\ e \in {0, 1}
        /\ config.mode = "eofBeforeDone" => d = 0 /\ e = 0
        /\ config.mode = "dataAfterDone" => d = 1 /\ e = 1
        /\ config.mode \notin {"malformedJSON", "eofBeforeDone"} => d = 1
        /\ config.mode \notin {"malformedJSON", "eofBeforeDone", "dataAfterDone"} => e = 0
    OBVIOUS
  <2> HIDE DEF s, p, c, d, e
  <2>5. Len(s) \in Nat /\ Len(s) >= 1
    BY <2>1, <2>2, <2>4
  <2>6. config.mode = "eofBeforeDone" => \A i \in 1 .. Len(s) : s[i].type = "json"
    BY <2>3
  <2>7. config.mode = "dataAfterDone" => s[Len(s)].type = "json"
    <3>1. config.mode = "dataAfterDone" => Len(s) = p + c + 4
      BY <2>1, <2>2, <2>4
    <3> QED
      BY <1>1, <2>2, <2>4, <3>1
  <2>8. d = 1 => p + c + 3 \in 1 .. Len(s)
    BY <2>1, <2>2, <2>4
  <2>9. config.mode \notin {"malformedJSON", "eofBeforeDone"} => \E i \in 1 .. Len(s) : s[i].type = "done"
    BY <1>1, <2>2, <2>4, <2>8
  <2>10. config.mode \notin {"malformedJSON", "eofBeforeDone", "dataAfterDone"} =>
           \A i \in 1 .. Len(s) - 1 : s[i].type # "done"
    <3> SUFFICES ASSUME config.mode \notin {"malformedJSON", "eofBeforeDone", "dataAfterDone"},
                        NEW i \in 1 .. Len(s) - 1
                 PROVE  s[i].type # "done"
      OBVIOUS
    <3>1. Len(s) = p + c + 3
      BY <2>1, <2>2, <2>4
    <3>2. i \in 1 .. Len(s) /\ i # p + c + 3
      BY <2>1, <3>1
    <3> QED
      BY <2>3, <3>2
  <2> QED
    BY <1>3, <2>5, <2>6, <2>7, <2>9, <2>10 DEF s
<1> QED
  BY <1>2, <1>3

(* only a fixture's chunks carry content                                   *)
LEMMA ScriptContent ==
  ASSUME NEW config \in Fixtures, NEW wants \in BOOLEAN, config.mode # "malformedJSON"
  PROVE  LET s == Script(config, wants)
         IN  /\ \A i \in 1 .. Len(s) : s[i].event.index = 0
             /\ (\E i \in 1 .. Len(s) : s[i].type = "json" /\ s[i].event.content) <=> Chunks(config) # 0
<1> DEFINE s == Script(config, wants)
           p == Lead(config, wants)
           c == Chunks(config)
<1>1. p \in {0, 1} /\ c \in Nat
  BY RequestStreamAssumption DEF Lead, Chunks, Fixtures
<1>2. /\ NoEvent.index = 0 /\ NoEvent.content = FALSE
      /\ UsageEvent(config).index = 0 /\ UsageEvent(config).content = FALSE
      /\ \A i : ContentEvent(config, i, wants).index = 0 /\ ContentEvent(config, i, wants).content = TRUE
  BY DEF NoEvent, UsageEvent, ContentEvent
<1>3. /\ Done.event = NoEvent /\ Done.type = "done"
      /\ \A e : Json(e).event = e /\ Json(e).type = "json"
  BY DEF Done, Json
<1>4. \A i \in 1 .. Len(s) : s[i].event.index = 0 /\ (s[i].event.content = TRUE => i - p \in 1 .. c)
  <2> SUFFICES ASSUME NEW i \in 1 .. Len(s)
               PROVE  s[i].event.index = 0 /\ (s[i].event.content = TRUE => i - p \in 1 .. c)
    OBVIOUS
  <2> QED
    BY <1>2, <1>3, ScriptLines
<1>5. c # 0 => \E i \in 1 .. Len(s) : s[i].type = "json" /\ s[i].event.content
  <2> SUFFICES ASSUME c # 0 PROVE \E i \in 1 .. Len(s) : s[i].type = "json" /\ s[i].event.content
    OBVIOUS
  <2>1. Len(s) >= p + c + 2 /\ \A i \in 1 .. c : s[p + i] = Json(ContentEvent(config, i, wants))
    <3> HIDE DEF s, p, c
    <3> QED
      BY <1>1, ScriptShape DEF s, p, c
  <2> HIDE DEF s, p, c
  <2>2. Len(s) \in Nat
    BY FixtureTypes DEF s
  <2>3. 1 \in 1 .. c /\ p + 1 \in 1 .. Len(s)
    BY <1>1, <2>1, <2>2
  <2>4. s[p + 1].type = "json" /\ s[p + 1].event.content
    BY <1>2, <1>3, <2>1, <2>3
  <2> QED
    BY <2>3, <2>4
<1>6. \A i \in 1 .. Len(s) : s[i].event.content \in BOOLEAN
  <2>1. s \in Seq(Body)
    BY FixtureTypes
  <2> HIDE DEF s
  <2>2. \A i \in 1 .. Len(s) : s[i] \in Body
    BY <2>1, ElementOfSeq
  <2> QED
    BY <2>2 DEF Body, Event
<1> HIDE DEF s, p, c
<1>7. (\E i \in 1 .. Len(s) : s[i].type = "json" /\ s[i].event.content) => c # 0
  BY <1>1, <1>4, <1>6
<1> QED
  BY <1>4, <1>5, <1>7 DEF s, c

Disturbed == cancelled \/ err = "close"

(* a fixture's answer never breaks a limit of the client or its decoder    *)
LEMMA FixtureErrors ==
  ASSUME StreamInv, IsFixture, NEW script \in {Script(server, obs.requested)},
         Written(script), Collected(script), pc = "returned", ~Disturbed
  PROVE  /\ err \in {"none", "status", "decode", "dataAfterDone", "unexpectedEOF", "noContent"}
         /\ err = "status" <=> Refuses(server)
<1> USE DEF Disturbed
<1>1. /\ server \in Fixtures /\ obs.requested \in BOOLEAN
      /\ script = Script(server, obs.requested)
      /\ StreamTypeOK /\ EndedInv /\ Len(Answer) \in Nat /\ Taken \in Nat
  BY FixtureServer, AnswerType DEF StreamInv
<1>2. /\ Len(Answer) <= Len(script) /\ script \in Seq(Body) /\ Len(script) \in Nat
      /\ \A i \in 1 .. Len(Answer) : Answer[i] = <<script[i]>>
      /\ Answer # <<>> => response = "ok"
  BY <1>1, AnswerFixture
<1>3. \A i \in 1 .. Len(script) : script[i] \in Body /\ script[i].event.usage # NegativeUsage
                                  /\ script[i].size \in {1, 2}
  BY <1>1, <1>2, ScriptBodies, ElementOfSeq
<1>4. \A i \in 1 .. Len(Answer) : i \in 1 .. Len(script)
  BY <1>1, <1>2
<1>5. Len(Answer) = Taken + 1 => Taken + 1 \in 1 .. Len(Answer)
  BY <1>1
<1>6. err \in EndKinds
  BY <1>1 DEF StreamTypeOK
<1>7. err \notin {"send", "read"}
  BY <1>1 DEF EndedInv, Written
<1>8. err # "usage"
  <2> SUFFICES ASSUME err = "usage" PROVE FALSE
    OBVIOUS
  <2> DEFINE i == Taken + 1
  <2>1. Len(Answer) = i /\ Decodes(Answer[i]) /\ ~Clean(Answer[i])
    BY <1>1 DEF EndedInv
  <2>2. i \in 1 .. Len(script) /\ Answer[i] = <<script[i]>>
    BY <1>2, <1>4, <1>5, <2>1
  <2> HIDE DEF i
  <2> QED
    BY <1>3, <2>1, <2>2, SingleFrame DEF Clean
<1>9. err # "limit"
  <2> SUFFICES ASSUME err = "limit" PROVE FALSE
    OBVIOUS
  <2> DEFINE i == Taken + 1
  <2>1. Len(Answer) = i /\ ~Fits(Answer[i])
    BY <1>1 DEF EndedInv
  <2>2. i \in 1 .. Len(script) /\ Answer[i] = <<script[i]>>
    BY <1>2, <1>4, <1>5, <2>1
  <2> HIDE DEF i
  <2>3. script[i].size <= MaxFrame /\ script[i].size + 1 < MaxFrame
    BY <1>3, <2>2, RequestStreamAssumption
  <2> QED
    BY <1>3, <2>1, <2>2, <2>3, SingleFrame
<1>10. err = "status" => Refuses(server)
  BY <1>1 DEF EndedInv, Written
<1>11. err # "status" => response = "ok"
  <2>1. CASE err \in {"none", "noContent", "unexpectedEOF"}
    BY <1>1, <2>1 DEF EndedInv, Whole
  <2>2. CASE err \in {"decode", "dataAfterDone"}
    <3>1. Len(Answer) = Taken + 1
      BY <1>1, <2>2 DEF EndedInv
    <3>2. Answer # <<>>
      BY <1>1, <3>1
    <3> QED
      BY <1>2, <3>2
  <2> QED
    BY <1>6, <1>7, <1>8, <1>9, <2>1, <2>2 DEF EndKinds
<1>12. err # "status" => ~Refuses(server)
  BY <1>11 DEF Written
<1> QED
  BY <1>6, <1>7, <1>8, <1>9, <1>10, <1>12 DEF EndKinds

(* the whole script was taken, and the last frame accepted was [DONE]      *)
LEMMA FixtureDone ==
  ASSUME StreamInv, IsFixture, NEW script \in {Script(server, obs.requested)},
         Written(script), Collected(script), pc = "returned", ~Disturbed, err \in {"none", "noContent"}
  PROVE  /\ server.mode \in {"normal", "noContent"}
         /\ Taken = Len(script) /\ Len(Answer) = Taken
         /\ err = IF Chunks(server) = 0 THEN "noContent" ELSE "none"
<1> USE DEF Disturbed
<1>1. /\ server \in Fixtures /\ obs.requested \in BOOLEAN
      /\ script = Script(server, obs.requested)
      /\ StreamTypeOK /\ EndedInv /\ AcceptedInv /\ Taken \in Nat
  BY FixtureServer, AnswerType DEF StreamInv
<1>2. Whole /\ seenDone /\ Taken = Len(Answer) /\ (err = "none" => ContentEvents(obs) # <<>>)
      /\ (err = "noContent" => ContentEvents(obs) = <<>>)
  BY <1>1 DEF EndedInv
<1>3. /\ Len(script) = Taken /\ script \in Seq(Body)
      /\ \A i \in 1 .. Taken : Answer[i] = <<script[i]>>
  BY <1>1, <1>2, AnswerFixture
<1>4. \A i \in 1 .. Taken : script[i] \in Body
  BY <1>3, ElementOfSeq
<1>5. script[Len(script)].type = "done"
  <2>1. Taken \in 1 .. Taken /\ IsDone(Answer[Taken])
    BY <1>1, <1>2 DEF AcceptedInv
  <2> QED
    BY <1>3, <1>4, <2>1, SingleFrame
<1>6. server.mode \in {"normal", "noContent"}
  <2>1. server.mode \in ServerModes
    BY <1>1 DEF Fixtures
  <2>2. server.mode # "httpError"
    BY <1>1, FixtureErrors DEF Refuses
  <2>3. server.mode \notin {"malformedJSON", "eofBeforeDone", "dataAfterDone"}
    <3>1. Broken.type # "done" /\ Len(script) \in 1 .. Len(script)
      BY <1>1, ScriptDone DEF Broken
    <3> QED
      BY <1>1, <1>5, <3>1, ScriptDone
  <2> QED
    BY <2>1, <2>2, <2>3 DEF ServerModes
<1>7. ContentEvents(obs) # <<>> <=> Chunks(server) # 0
  <2>1. ASSUME NEW i \in 1 .. Taken
        PROVE  Decodes(Answer[i]) /\ EventOf(Answer[i]).index = 0 /\ EventOf(Answer[i]).content
               <=> script[i].type = "json" /\ script[i].event.content
    <3>1. script[i].event.index = 0
      BY <1>1, <1>3, <1>6, <2>1, ScriptContent
    <3> QED
      BY <1>3, <1>4, <2>1, <3>1, SingleFrame
  <2>2. (\E i \in 1 .. Taken : script[i].type = "json" /\ script[i].event.content) <=> Chunks(server) # 0
    BY <1>1, <1>3, <1>6, ScriptContent
  <2> QED
    BY <2>1, <2>2, ContentRecorded
<1> QED
  BY <1>2, <1>3, <1>6, <1>7

(* the error a fixture is for                                              *)
LEMMA FixtureError ==
  ASSUME StreamInv, IsFixture, NEW script \in {Script(server, obs.requested)},
         Written(script), Collected(script), pc = "returned", ~Disturbed
  PROVE  err = CASE Refuses(server) -> "status"
               [] ~Refuses(server) /\ server.mode = "malformedJSON" -> "decode"
               [] ~Refuses(server) /\ server.mode = "eofBeforeDone" -> "unexpectedEOF"
               [] ~Refuses(server) /\ server.mode = "dataAfterDone" -> "dataAfterDone"
               [] OTHER -> IF server.mode = "noContent" \/ server.chunks = 0 THEN "noContent" ELSE "none"
<1>1. /\ server \in Fixtures /\ obs.requested \in BOOLEAN
      /\ script = Script(server, obs.requested)
      /\ StreamTypeOK /\ EndedInv /\ AcceptedInv /\ Len(Answer) \in Nat /\ Taken \in Nat
  BY FixtureServer, AnswerType DEF StreamInv
<1>2. /\ Len(Answer) <= Len(script) /\ script \in Seq(Body) /\ Len(script) \in Nat
      /\ \A i \in 1 .. Len(Answer) : Answer[i] = <<script[i]>>
      /\ Whole => Len(Answer) = Len(script)
  BY <1>1, AnswerFixture
<1>3. \A i \in 1 .. Len(Answer) : i \in 1 .. Len(script) /\ script[i] \in Body
  <2>1. \A i \in 1 .. Len(Answer) : i \in 1 .. Len(script)
    BY <1>1, <1>2
  <2> QED
    BY <1>2, <2>1, ElementOfSeq
<1>4. err \in {"none", "status", "decode", "dataAfterDone", "unexpectedEOF", "noContent"}
      /\ (err = "status" <=> Refuses(server))
  BY FixtureErrors
<1>5. err = "decode" => server.mode = "malformedJSON"
  <2> SUFFICES ASSUME err = "decode" PROVE server.mode = "malformedJSON"
    OBVIOUS
  <2> DEFINE i == Taken + 1
  <2>1. Len(Answer) = i /\ ~IsDone(Answer[i]) /\ ~Decodes(Answer[i])
    BY <1>1 DEF EndedInv
  <2>2. i \in 1 .. Len(Answer)
    BY <1>1, <2>1
  <2> HIDE DEF i
  <2>3. script[i].type \notin {"json", "done"} /\ i \in 1 .. Len(script)
    BY <1>2, <1>3, <2>1, <2>2, SingleFrame
  <2> QED
    BY <1>1, <2>3, ScriptBodies
<1>6. err = "dataAfterDone" => server.mode = "dataAfterDone"
  <2> SUFFICES ASSUME err = "dataAfterDone" PROVE server.mode = "dataAfterDone"
    OBVIOUS
  <2>1. Len(Answer) = Taken + 1 /\ seenDone /\ Taken >= 1 /\ IsDone(Answer[Taken])
    BY <1>1 DEF EndedInv, AcceptedInv
  <2>2. Taken \in 1 .. Len(Answer) /\ Taken \in 1 .. Len(script) - 1
    BY <1>1, <1>2, <2>1
  <2>3. script[Taken].type = "done"
    BY <1>2, <1>3, <2>1, <2>2, SingleFrame
  <2>4. Taken \in 1 .. Len(script) /\ Len(script) # 1
    BY <1>2, <2>2
  <2> QED
    BY <1>1, <2>2, <2>3, <2>4, ScriptDone
<1>7. err = "unexpectedEOF" => server.mode = "eofBeforeDone"
  <2> SUFFICES ASSUME err = "unexpectedEOF" PROVE server.mode = "eofBeforeDone"
    OBVIOUS
  <2>1. Whole /\ ~seenDone /\ Taken = Len(Answer)
    BY <1>1 DEF EndedInv
  <2>2. \A i \in 1 .. Len(script) : script[i].type = "json"
    <3>1. \A i \in 1 .. Len(script) : Decodes(Answer[i])
      BY <1>1, <1>2, <2>1 DEF AcceptedInv, Clean
    <3> QED
      BY <1>2, <1>3, <2>1, <3>1, SingleFrame
  <2>3. 1 \in 1 .. Len(script) /\ Broken.type # "json"
    BY <1>1, ScriptDone DEF Broken
  <2> QED
    BY <1>1, <2>2, <2>3, ScriptDone
<1>8. err \in {"none", "noContent"} =>
        /\ server.mode \in {"normal", "noContent"}
        /\ err = IF Chunks(server) = 0 THEN "noContent" ELSE "none"
  BY FixtureDone
<1>9. err \in {"none", "noContent"} =>
        /\ server.mode \notin {"malformedJSON", "eofBeforeDone", "dataAfterDone"}
        /\ err = IF server.mode = "noContent" \/ server.chunks = 0 THEN "noContent" ELSE "none"
  BY <1>8 DEF Chunks
<1> QED
  BY <1>4, <1>5, <1>6, <1>7, <1>9

(* events of at most one token leave token events of exactly one           *)
LEMMA TokensSingle ==
  ASSUME NEW s \in Seq(Observed), \A i \in 1 .. Len(s) : s[i].tokens \in {0, 1}
  PROVE  \A i \in 1 .. Len(Tokens!Fold(s)) : Tokens!Fold(s)[i].tokens = 1
<1> DEFINE Single(t) == \A i \in 1 .. Len(t) : t[i].tokens = 1
           AtMost(t) == \A i \in 1 .. Len(t) : t[i].tokens \in {0, 1}
           S == {t \in Seq(Observed) : AtMost(t) => Single(Tokens!Fold(t))}
<1>1. <<>> \in S
  <2>1. Tokens!Fold(<<>>) = <<>> /\ <<>> \in Seq(Observed) /\ Len(<<>>) = 0
    BY TokenFold
  <2> QED
    BY <2>1
<1>2. \A t \in Seq(Observed), e \in Observed : t \in S => Append(t, e) \in S
  <2> SUFFICES ASSUME NEW t \in Seq(Observed), NEW e \in Observed, t \in S
               PROVE  Append(t, e) \in S
    OBVIOUS
  <2> SUFFICES ASSUME AtMost(Append(t, e)) PROVE Single(Tokens!Fold(Append(t, e)))
    <3>1. Append(t, e) \in Seq(Observed)
      OBVIOUS
    <3> HIDE DEF AtMost, Single
    <3> QED
      BY <3>1
  <2> DEFINE u == Append(t, e)
             k == Tokens!Fold(t)
             l == Tokens!Fold(u)
  <2>1. l = IF e.tokens # 0 THEN Append(k, e) ELSE k
    BY TokenFold
  <2>2. k \in Seq(Observed)
    BY TokenKept
  <2>3. /\ Len(u) = Len(t) + 1 /\ Len(t) \in Nat
        /\ u[Len(t) + 1] = e /\ \A i \in 1 .. Len(t) : u[i] = t[i]
    OBVIOUS
  <2>4. Single(k) /\ e.tokens \in {0, 1}
    <3>1. AtMost(u) /\ (AtMost(t) => Single(k))
      OBVIOUS
    <3> HIDE DEF u, k, l, S, Single
    <3>2. \A i \in 1 .. Len(t) : i \in 1 .. Len(u)
      BY <2>3
    <3>3. Len(t) + 1 \in 1 .. Len(u)
      BY <2>3
    <3> QED
      BY <2>3, <3>1, <3>2, <3>3
  <2> HIDE DEF u, k, l, S
  <2>5. CASE e.tokens = 0
    BY <2>1, <2>4, <2>5 DEF l, u
  <2>6. CASE e.tokens # 0
    <3>1. /\ l = Append(k, e) /\ Len(l) = Len(k) + 1 /\ l[Len(k) + 1] = e /\ Len(k) \in Nat
          /\ \A i \in 1 .. Len(k) : l[i] = k[i]
      BY <2>1, <2>2, <2>6
    <3>2. \A i \in 1 .. Len(l) : i \in 1 .. Len(k) \/ i = Len(k) + 1
      BY <3>1
    <3>3. e.tokens = 1
      BY <2>4, <2>6
    <3>4. \A i \in 1 .. Len(l) : l[i].tokens = 1
      BY <2>4, <3>1, <3>2, <3>3
    <3> QED
      BY <3>4 DEF l, u
  <2> QED
    BY <2>5, <2>6
<1>3. Seq(Observed) \subseteq S
  <2> HIDE DEF S
  <2> QED
    BY <1>1, <1>2, Sums!SeqInduct
<1> QED
  BY <1>3

(* the tokens the client sees in each event of a fixture's whole answer    *)
LEMMA FixtureTokens ==
  ASSUME StreamInv, IsFixture, NEW script \in {Script(server, obs.requested)},
         Written(script), Collected(script), pc = "returned", ~Disturbed, err = "none"
  PROVE  LET p == Lead(server, obs.requested)
             c == server.chunks
         IN  /\ p \in {0, 1} /\ c \in Nat /\ c >= 1 /\ Taken = p + c + 3
             /\ \A i \in 1 .. Taken :
                  obs.events[i].tokens =
                    IF i - p \in 1 .. c /\ obs.requested /\ HasTokenIDs(server, i - p)
                    THEN TokenIDs(server, i - p) ELSE 0
             /\ CountsConsistent(obs)
             /\ obs.usage = UsageEvent(server).usage
<1> DEFINE p == Lead(server, obs.requested)
           c == server.chunks
<1>1. /\ server \in Fixtures /\ obs.requested \in BOOLEAN
      /\ script = Script(server, obs.requested)
      /\ StreamTypeOK /\ AcceptedInv /\ EvidenceInv /\ Taken \in Nat
      /\ obs.events \in Seq(Observed) /\ Taken = Len(obs.events)
  BY FixtureServer, AnswerType DEF StreamInv
<1>2. server.mode = "normal" /\ Taken = Len(script) /\ Len(Answer) = Taken /\ Chunks(server) # 0
  BY FixtureDone DEF Chunks
<1>3. p \in {0, 1} /\ c \in Nat /\ c >= 1 /\ c = Chunks(server)
  BY <1>1, <1>2, RequestStreamAssumption DEF Lead, Chunks, Fixtures
<1>4. /\ Taken = p + c + 3
      /\ script[p + c + 2] = Json(UsageEvent(server))
  <2>1. /\ Len(script) = p + c + 2 + 1 + 0
        /\ script[p + c + 2] = Json(UsageEvent(server))
    <3> HIDE DEF p, c
    <3> QED
      BY <1>1, <1>2, <1>3, ScriptShape DEF p
  <2> HIDE DEF p, c
  <2> QED
    BY <1>2, <1>3, <2>1
<1>5. \A i \in 1 .. Taken : script[i] \in Body /\ Answer[i] = <<script[i]>>
  BY <1>1, <1>2, AnswerFixture, ElementOfSeq
<1>6. \A i \in 1 .. Taken : \/ script[i] = Json(NoEvent) /\ i - p \notin 1 .. c
                            \/ script[i] = Json(ContentEvent(server, i - p, obs.requested)) /\ i - p \in 1 .. c
                            \/ script[i] = Json(UsageEvent(server)) /\ i - p \notin 1 .. c
                            \/ script[i] = Done /\ i - p \notin 1 .. c
  <2> SUFFICES ASSUME NEW i \in 1 .. Taken
               PROVE  \/ script[i] = Json(NoEvent) /\ i - p \notin 1 .. c
                      \/ script[i] = Json(ContentEvent(server, i - p, obs.requested)) /\ i - p \in 1 .. c
                      \/ script[i] = Json(UsageEvent(server)) /\ i - p \notin 1 .. c
                      \/ script[i] = Done /\ i - p \notin 1 .. c
    OBVIOUS
  <2>1. \/ i \in 1 .. p /\ script[i] = Json(NoEvent)
        \/ i - p \in 1 .. c /\ script[i] = Json(ContentEvent(server, i - p, obs.requested))
        \/ i = p + c + 1 /\ script[i] = Json(NoEvent)
        \/ i = p + c + 2 /\ script[i] = Json(UsageEvent(server))
        \/ i = p + c + 3 /\ script[i] = Done
    <3> HIDE DEF p, c
    <3> QED
      BY <1>1, <1>2, <1>3, ScriptLines DEF p
  <2> HIDE DEF p, c
  <2>2. /\ i \in 1 .. p => i - p \notin 1 .. c
        /\ i = p + c + 1 => i - p \notin 1 .. c
        /\ i = p + c + 2 => i - p \notin 1 .. c
        /\ i = p + c + 3 => i - p \notin 1 .. c
    BY <1>3
  <2> QED
    BY <2>1, <2>2
<1>7. /\ NoEvent.index = 0 /\ NoEvent.tokens = 0 /\ NoEvent.usage = NoUsage
      /\ UsageEvent(server).index = 0 /\ UsageEvent(server).tokens = 0
      /\ \A k : /\ ContentEvent(server, k, obs.requested).index = 0
                /\ ContentEvent(server, k, obs.requested).usage = NoUsage
                /\ ContentEvent(server, k, obs.requested).ids <=> (obs.requested /\ HasTokenIDs(server, k))
                /\ ContentEvent(server, k, obs.requested).tokens =
                     IF obs.requested /\ HasTokenIDs(server, k) THEN TokenIDs(server, k) ELSE 0
  BY DEF NoEvent, UsageEvent, ContentEvent
<1>8. /\ Done.type = "done" /\ \A e : Json(e).event = e /\ Json(e).type = "json"
  BY DEF Done, Json
<1>9. \A k : TokenIDs(server, k) \in {0, 1, 2}
  BY DEF TokenIDs
<1>10. ASSUME NEW i \in 1 .. Taken
       PROVE  /\ obs.events[i].tokens =
                   IF i - p \in 1 .. c /\ obs.requested /\ HasTokenIDs(server, i - p)
                   THEN TokenIDs(server, i - p) ELSE 0
              /\ obs.events[i].ids \/ obs.events[i].tokens = 0
  <2>1. obs.events[i] = Noted(<<script[i]>>, obs.events[i].at)
    BY <1>1, <1>5, <1>10 DEF EvidenceInv
  <2>2. CASE script[i] = Json(NoEvent) /\ i - p \notin 1 .. c
    BY <1>5, <1>7, <1>8, <2>1, <2>2, SingleFrame DEF Noted
  <2>3. CASE script[i] = Json(UsageEvent(server)) /\ i - p \notin 1 .. c
    BY <1>5, <1>7, <1>8, <2>1, <2>3, SingleFrame DEF Noted
  <2>4. CASE script[i] = Done /\ i - p \notin 1 .. c
    BY <1>5, <1>8, <2>1, <2>4, SingleFrame DEF Noted
  <2>5. CASE script[i] = Json(ContentEvent(server, i - p, obs.requested)) /\ i - p \in 1 .. c
    <3> DEFINE e == ContentEvent(server, i - p, obs.requested)
    <3>1. Decodes(<<script[i]>>) /\ EventOf(<<script[i]>>) = e /\ e.index = 0
      BY <1>5, <1>7, <1>8, <2>5, SingleFrame
    <3>2. obs.events[i].tokens = e.tokens /\ obs.events[i].ids = e.ids
      <4> HIDE DEF e
      <4> QED
        BY <2>1, <3>1 DEF Noted
    <3> QED
      BY <1>7, <2>5, <3>2
  <2> HIDE DEF p, c
  <2> QED
    BY <1>6, <2>2, <2>3, <2>4, <2>5
<1>11. CountsConsistent(obs)
  <2>1. \A i \in 1 .. Taken : obs.events[i].tokens >= 0
    <3>1. \A i \in 1 .. Taken : obs.events[i] \in Observed
      BY <1>1, ElementOfSeq
    <3> QED
      BY <3>1 DEF Observed
  <2>2. DOMAIN obs.events = 1 .. Taken
    BY <1>1
  <2> HIDE DEF p, c
  <2> QED
    BY <1>10, <2>1, <2>2 DEF CountsConsistent
<1>12. obs.usage = UsageEvent(server).usage
  <2>1. UsageEvent(server).usage # NoUsage
    BY <1>1, <1>3, RequestStreamAssumption DEF UsageEvent, NoEvent, NoUsage, Fixtures
  <2>2. p + c + 2 \in 1 .. Taken
    <3> HIDE DEF p, c
    <3> QED
      BY <1>3, <1>4
  <2> HIDE DEF p, c
  <2>3. obs.usage # NoUsage
    <3>1. Decodes(Answer[p + c + 2]) /\ EventOf(Answer[p + c + 2]).usage = UsageEvent(server).usage
      <4> DEFINE q == p + c + 2
      <4>1. q \in 1 .. Taken /\ script[q] = Json(UsageEvent(server))
        BY <1>4, <2>2
      <4> HIDE DEF q
      <4>2. script[q] \in Body /\ Answer[q] = <<script[q]>> /\ script[q].type = "json"
            /\ script[q].event = UsageEvent(server)
        BY <1>5, <1>8, <4>1
      <4>3. Decodes(Answer[q]) /\ EventOf(Answer[q]) = UsageEvent(server)
        BY <4>2, SingleFrame
      <4> QED
        BY <4>3 DEF q
    <3> QED
      BY <1>1, <2>1, <2>2, <3>1 DEF AcceptedInv
  <2>4. PICK i \in 1 .. Taken : Decodes(Answer[i]) /\ EventOf(Answer[i]).usage = obs.usage
    BY <1>1, <2>3 DEF AcceptedInv
  <2>5. script[i].type = "json" /\ script[i].event.usage = obs.usage
    BY <1>5, <2>4, SingleFrame
  <2>6. Done.type # "json"
    BY <1>8
  <2> QED
    BY <1>6, <1>7, <1>8, <2>3, <2>5, <2>6
<1> QED
  BY <1>3, <1>4, <1>10, <1>11, <1>12

(* the events that carry tokens are neighbours                             *)
LEMMA CarryingInterval ==
  ASSUME NEW s \in Seq(Observed), NEW a \in Int, NEW b \in Int, a >= 1, a <= b + 1, b <= Len(s),
         \A i \in 1 .. Len(s) : s[i].tokens # 0 <=> i \in a .. b
  PROVE  Cardinality(Carrying(s)) = b - a + 1
<1>1. Len(s) \in Nat
  OBVIOUS
<1>2. \A i \in a .. b : i \in 1 .. Len(s)
  BY <1>1
<1>3. Carrying(s) = a .. b
  BY <1>2 DEF Carrying
<1>4. Cardinality(a .. b) = IF a > b THEN 0 ELSE b - a + 1
  BY FS_Interval
<1> QED
  BY <1>3, <1>4

(* a fixture proves token times only with one token in every chunk         *)
LEMMA FixtureLatency ==
  ASSUME StreamInv, IsFixture, NEW script \in {Script(server, obs.requested)},
         Written(script), Collected(script), pc = "returned", ~Disturbed
  PROVE  Len(InterTokenLatency(obs)) =
           IF err = "none" /\ obs.requested /\ server.evidence = "singleton" /\ server.chunks >= 2
           THEN server.chunks - 1 ELSE 0
<1> DEFINE p == Lead(server, obs.requested)
           c == server.chunks
           s == obs.events
           kept == TokenEvents(obs)
           proves == err = "none" /\ obs.requested /\ server.evidence = "singleton" /\ c >= 2
<1>1. InterTokenLatency(obs) = IF ITLAvailable(obs) THEN Gaps(kept) ELSE <<>>
  BY DEF InterTokenLatency
<1>2. Len(<<>>) = 0
  OBVIOUS
<1>3. server \in Fixtures /\ obs.requested \in BOOLEAN /\ c \in Nat /\ server.evidence \in EvidenceModes
      /\ server.completion \in Nat /\ ValidFixture(server)
  BY FixtureServer, RequestStreamAssumption DEF StreamInv, Fixtures
<1>4. s \in Seq(Observed) /\ Taken = Len(s)
  BY AnswerType
<1>5. kept = Tokens!Fold(s) /\ kept \in Seq(Observed) /\ DOMAIN kept = 1 .. Len(kept) /\ Len(kept) \in Nat
  BY <1>4, TokenFold, KeptTypes
<1>6. CASE err # "none" \/ ~obs.requested
  <2>1. obs.error = err
    BY DEF StreamInv, ProgressInv
  <2>2. ~ITLAvailable(obs)
    BY <1>6, <2>1 DEF ITLAvailable, CompletedCleanly
  <2> HIDE DEF kept
  <2> QED
    BY <1>1, <1>2, <1>6, <2>2
<1>7. CASE err = "none" /\ obs.requested
  <2>1. /\ p \in {0, 1} /\ c >= 1 /\ Len(s) = p + c + 3
        /\ \A i \in 1 .. Len(s) :
             s[i].tokens = IF i - p \in 1 .. c /\ HasTokenIDs(server, i - p)
                           THEN TokenIDs(server, i - p) ELSE 0
        /\ CountsConsistent(obs)
        /\ obs.usage = UsageEvent(server).usage
    BY <1>4, <1>7, FixtureTokens
  <2>2. Len(kept) = Cardinality(Carrying(s))
    BY <1>4, <1>5, TokensCounted
  <2>3. ITLAvailable(obs) =>
          /\ \A i \in 1 .. Len(s) : s[i].tokens \in {0, 1}
          /\ obs.usage = Len(kept) /\ Len(kept) >= 2
    <3> SUFFICES ASSUME ITLAvailable(obs)
                 PROVE  /\ \A i \in 1 .. Len(s) : s[i].tokens \in {0, 1}
                        /\ obs.usage = Len(kept) /\ Len(kept) >= 2
      OBVIOUS
    <3>1. OneTokenPerEvent(obs) /\ ObservedTokens(obs) = obs.usage /\ Len(kept) >= 2
      BY DEF ITLAvailable
    <3>2. \A i \in DOMAIN Tokens!Fold(s) : Tokens!Fold(s)[i].tokens = 1
      BY <1>5, <3>1 DEF OneTokenPerEvent
    <3>3. /\ \A i \in 1 .. Len(s) : s[i].tokens \in {0, 1}
          /\ Total(Counts(s)) = Len(kept)
      BY <1>4, <1>5, <3>2, TokensCounted
    <3> QED
      BY <3>1, <3>3 DEF ObservedTokens, Counts
  <2>4. CASE server.evidence = "disabled"
    <3>1. \A i \in 1 .. Len(s) : s[i].tokens = 0
      BY <2>1, <2>4 DEF HasTokenIDs
    <3>2. Carrying(s) = {} /\ Cardinality({}) = 0
      BY <3>1, FS_EmptySet DEF Carrying
    <3>3. ~ITLAvailable(obs)
      BY <2>2, <2>3, <3>2
    <3> HIDE DEF kept
    <3> QED
      BY <1>1, <1>2, <2>4, <3>3
  <2>5. CASE server.evidence = "batched"
    <3>1. HasTokenIDs(server, 1) /\ TokenIDs(server, 1) = 2
      BY <2>5 DEF HasTokenIDs, TokenIDs
    <3> HIDE DEF p, c, s
    <3>2. p + 1 \in 1 .. Len(s) /\ (p + 1) - p = 1 /\ 1 \in 1 .. c
      BY <1>3, <2>1
    <3>3. s[p + 1].tokens = 2
      BY <2>1, <3>1, <3>2
    <3>4. ~ITLAvailable(obs)
      BY <2>3, <3>2, <3>3
    <3> HIDE DEF kept
    <3> QED
      BY <1>1, <1>2, <2>5, <3>4 DEF c
  <2>6. CASE server.evidence = "missing"
    <3>1. \A k : HasTokenIDs(server, k) <=> k # 1
      BY <2>6 DEF HasTokenIDs
    <3>2. \A k : TokenIDs(server, k) = 1
      BY <2>6 DEF TokenIDs
    <3>3. server.completion = c /\ obs.usage = c
      BY <1>3, <2>1, <2>6 DEF ValidFixture, UsageEvent, NoEvent
    <3>4. ~ITLAvailable(obs)
      <4> HIDE DEF p, c, s
      <4>1. \A i \in 1 .. Len(s) : s[i].tokens # 0 <=> i \in p + 2 .. p + c
        <5> SUFFICES ASSUME NEW i \in 1 .. Len(s) PROVE s[i].tokens # 0 <=> i \in p + 2 .. p + c
          OBVIOUS
        <5>1. s[i].tokens # 0 <=> i - p \in 1 .. c /\ i - p # 1
          BY <2>1, <3>1, <3>2
        <5> QED
          BY <1>3, <2>1, <5>1
      <4>2. p + 2 \in Int /\ p + c \in Int /\ p + 2 >= 1 /\ p + 2 <= (p + c) + 1 /\ p + c <= Len(s)
        BY <1>3, <2>1
      <4>3. Cardinality(Carrying(s)) = (p + c) - (p + 2) + 1
        BY <1>4, <4>1, <4>2, CarryingInterval
      <4>4. Len(kept) # c
        BY <1>3, <2>1, <2>2, <4>3
      <4> QED
        BY <2>3, <3>3, <4>4 DEF c
    <3> HIDE DEF kept
    <3> QED
      BY <1>1, <1>2, <2>6, <3>4
  <2>7. CASE server.evidence \in {"singleton", "mismatch"}
    <3>1. \A k : HasTokenIDs(server, k) /\ TokenIDs(server, k) = 1
      BY <2>7 DEF HasTokenIDs, TokenIDs
    <3>2. Len(kept) = c /\ \A i \in 1 .. Len(s) : s[i].tokens \in {0, 1}
      <4> HIDE DEF p, c, s
      <4>1. \A i \in 1 .. Len(s) : s[i].tokens = IF i - p \in 1 .. c THEN 1 ELSE 0
        BY <2>1, <3>1
      <4>2. \A i \in 1 .. Len(s) : s[i].tokens # 0 <=> i \in p + 1 .. p + c
        <5> SUFFICES ASSUME NEW i \in 1 .. Len(s) PROVE s[i].tokens # 0 <=> i \in p + 1 .. p + c
          OBVIOUS
        <5>1. s[i].tokens # 0 <=> i - p \in 1 .. c
          BY <4>1
        <5> QED
          BY <1>3, <2>1, <5>1
      <4>3. p + 1 \in Int /\ p + c \in Int /\ p + 1 >= 1 /\ p + 1 <= (p + c) + 1 /\ p + c <= Len(s)
        BY <1>3, <2>1
      <4>4. Cardinality(Carrying(s)) = (p + c) - (p + 1) + 1
        BY <1>4, <4>2, <4>3, CarryingInterval
      <4>5. Len(kept) = c
        BY <1>3, <2>1, <2>2, <4>4
      <4> QED
        BY <4>1, <4>5 DEF c
    <3>3. CASE server.evidence = "mismatch"
      <4>1. obs.usage = c + 1
        BY <2>1, <3>3 DEF UsageEvent, NoEvent
      <4>2. ~ITLAvailable(obs)
        <5> HIDE DEF c
        <5> QED
          BY <1>3, <2>3, <3>2, <4>1
      <4> HIDE DEF kept
      <4> QED
        BY <1>1, <1>2, <3>3, <4>2
    <3>4. CASE server.evidence = "singleton"
      <4>1. obs.usage = c
        BY <1>3, <2>1, <3>4 DEF ValidFixture, UsageEvent, NoEvent
      <4>2. OneTokenPerEvent(obs)
        BY <1>4, <1>5, <3>2, TokensSingle DEF OneTokenPerEvent
      <4>3. ObservedTokens(obs) = c
        <5>1. \A i \in DOMAIN Tokens!Fold(s) : Tokens!Fold(s)[i].tokens = 1
          BY <1>5, <4>2 DEF OneTokenPerEvent
        <5>2. Total(Counts(s)) = Len(kept)
          BY <1>4, <1>5, <5>1, TokensCounted
        <5> QED
          BY <3>2, <5>2 DEF ObservedTokens, Counts
      <4>4. Ordered(kept)
        <5>1. \A i, j \in DOMAIN kept : i <= j => kept[i].at <= kept[j].at
          BY DEF StreamInv, TimesInv, Rising
        <5> HIDE DEF kept
        <5>2. \A i \in 1 .. Len(kept) - 1 : i \in DOMAIN kept /\ i + 1 \in DOMAIN kept /\ i <= i + 1
          BY <1>5
        <5> QED
          BY <5>1, <5>2 DEF Ordered
      <4>5. ~obs.invalid /\ obs.error = "none" /\ obs.through
        BY <1>7 DEF Collected, StreamInv, ProgressInv, EndedInv
      <4>6. c # NoUsage
        BY <1>3 DEF NoUsage
      <4>7. ITLAvailable(obs) <=> c >= 2
        <5> HIDE DEF c
        <5>1. CountsConsistent(obs) /\ obs.requested /\ Len(kept) = c
          BY <1>7, <2>1, <3>2
        <5>2. ITLAvailable(obs) => c >= 2
          BY <2>3, <3>2
        <5>3. ASSUME c >= 2 PROVE ITLAvailable(obs)
          BY <4>1, <4>2, <4>3, <4>4, <4>5, <4>6, <5>1, <5>3 DEF ITLAvailable, CompletedCleanly
        <5> QED
          BY <5>2, <5>3
      <4>8. c >= 2 => Len(Gaps(kept)) = c - 1
        <5>1. Len(Gaps(kept)) = IF kept = <<>> THEN 0 ELSE Len(kept) - 1
          BY <1>5, GapsTotal
        <5>2. kept = <<>> => Len(kept) = 0
          BY <1>5
        <5> HIDE DEF kept
        <5> QED
          BY <3>2, <5>1, <5>2
      <4> HIDE DEF kept
      <4> QED
        BY <1>1, <1>2, <1>7, <3>4, <4>7, <4>8
    <3> QED
      BY <2>7, <3>3, <3>4
  <2> QED
    BY <1>3, <2>4, <2>5, <2>6, <2>7 DEF EvidenceModes
<1> QED
  BY <1>3, <1>6, <1>7

(* Whatever the mode, the evidence and the number of chunks of a fixture,  *)
(* an undisturbed request against it returns the error the fixture is for, *)
(* and publishes inter-token latency only for singleton evidence.          *)
THEOREM FixtureVerdictCorrect == Spec => []FixtureVerdict
<1>1. StreamInv /\ FixtureInv => FixtureVerdict
  <2> SUFFICES ASSUME StreamInv, FixtureInv, IsFixture, pc = "returned", ~cancelled, err # "close"
               PROVE  FixtureVerdict
    BY DEF FixtureVerdict
  <2> DEFINE script == Script(server, obs.requested)
  <2>1. script \in {Script(server, obs.requested)} /\ ~Disturbed
    BY DEF Disturbed
  <2>2. Written(script) /\ Collected(script)
    BY DEF FixtureInv
  <2> HIDE DEF script
  <2> QED
    BY <2>1, <2>2, FixtureError, FixtureLatency DEF FixtureVerdict
<1> QED
  BY <1>1, StreamInvariant, FixtureInvariant, PTL

=============================================================================
