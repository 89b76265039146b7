----------------------------- MODULE EventFeed -----------------------------
(***************************************************************************)
(* The attach stream of a recorder: DahuaEventStream keeps a connection    *)
(* open and DahuaEventStreamParser cuts the bytes into events, whatever    *)
(* the size of the chunks in which they arrive.  A part of the multipart   *)
(* stream is a row of tokens, one per line of the wire format:             *)
(*   boundary  length or type  blank  code data      an event              *)
(*   boundary  length or type  blank  text           a bare "Heartbeat"    *)
(* Firmware decides on the header and may leave out the blank line.        *)
(***************************************************************************)
EXTENDS Naturals, Sequences, SequencesExt

CONSTANTS
    MaxParts,     \* bound: parts the recorder sends
    MaxConnects,  \* bound: connections it accepts
    MaxBuffer     \* max_buffer_bytes, in tokens

ASSUME FeedAssumption == {MaxParts, MaxConnects, MaxBuffer} \subseteq Nat

Formats == {"length", "open", "bare"}

VARIABLES
    format,     \* what this firmware sends
    boundary,   \* TRUE if the Content-Type told the boundary
    part,       \* parts sent so far
    beats,      \* the ones that are heartbeats
    wire,       \* tokens on their way
    parser,     \* the DahuaEventStreamParser of the connection
    link,       \* "down" or "up"
    attempt,    \* attempt of listen, up to the last step of the ladder
    connects,
    collected,  \* events handed to the caller, in order
    earlier,    \* history: collected before this connection
    received,   \* history: tokens received on this connection
    cut         \* history: last part the buffer held when it overflowed, or 0

feedVars == <<format, boundary, part, beats, wire, parser, link, attempt, connects,
              collected, earlier, received, cut>>

\* Steps of BACKOFF_LADDER: 1, 2, 5, 10 and 30 seconds.
LastStep == 4

NewParser == [buffer |-> <<>>, in_body |-> FALSE, expected |-> 0, out |-> <<>>]

FeedInit ==
    /\ format \in Formats /\ boundary \in BOOLEAN
    /\ part = 0 /\ beats = {}
    /\ wire = <<>> /\ parser = NewParser
    /\ link = "down" /\ attempt = 0 /\ connects = 0
    /\ collected = <<>> /\ earlier = <<>> /\ received = <<>> /\ cut = 0
-----------------------------------------------------------------------------
Body(e, beat) == IF beat THEN << <<"text", e>> >> ELSE << <<"code", e>>, <<"data", e>> >>

\* External: the bytes of one part.
PartOf(e, beat) ==
    CASE format = "length" -> << <<"boundary", e>>, <<"length", e>>, <<"blank", e>> >> \o Body(e, beat)
      [] format = "open" -> << <<"boundary", e>>, <<"type", e>>, <<"blank", e>> >> \o Body(e, beat)
      [] format = "bare" -> << <<"boundary", e>>, <<"length", e>> >> \o Body(e, beat)

First(kind, tokens) ==
    LET Is(token) == token[1] = kind IN SelectInSeq(tokens, Is)
From(tokens, i) == SubSeq(tokens, i, Len(tokens))

\* Newlines between parts are skipped.
SkipBlank(tokens) ==
    LET IsNot(token) == token[1] # "blank"
        i == SelectInSeq(tokens, IsNot)
    IN  IF i = 0 THEN <<>> ELSE From(tokens, i)

\* The length of the body that a Content-Length header announces; 0 for none.
Announced(head) ==
    LET i == First("length", head)
    IN  IF i = 0 THEN 0 ELSE Len(Body(head[i][2], head[i][2] \in beats))

\* Mutant: lines of an unfinished header block are taken off the buffer.
EatsTheHeaders(p) ==
    LET b == SkipBlank(p.buffer)
        sep == First("blank", b)
        head == IF sep = 0 THEN b ELSE SubSeq(b, 1, sep - 1)
        code == First("code", head)
    IN  IF code # 0 THEN [p EXCEPT !.buffer = From(b, code), !.in_body = TRUE, !.expected = 0]
        ELSE IF sep = 0 THEN [p EXCEPT !.buffer = <<>>]
        ELSE [p EXCEPT !.buffer = From(b, sep + 1), !.in_body = TRUE, !.expected = Announced(head)]

\* _consume_headers: a line that looks like a payload starts the body even
\* without the blank line; an unfinished header block waits for more.
ConsumeHeaders(p) ==
    LET b == SkipBlank(p.buffer)
        sep == First("blank", b)
        head == IF sep = 0 THEN b ELSE SubSeq(b, 1, sep - 1)
        code == First("code", head)
    IN  IF code # 0 THEN [p EXCEPT !.buffer = From(b, code), !.in_body = TRUE, !.expected = 0]
        ELSE IF sep = 0 THEN [p EXCEPT !.buffer = b]
        ELSE [p EXCEPT !.buffer = From(b, sep + 1), !.in_body = TRUE, !.expected = Announced(head)]

\* Where the body ends, in tokens of the buffer: after the announced length, or
\* before the next boundary.  -1 if that has not arrived.
BodyEnd(p) ==
    IF p.expected # 0 THEN IF Len(p.buffer) < p.expected THEN 0 - 1 ELSE p.expected
    ELSE First("boundary", p.buffer) - 1

\* _build and parse_event_payload: a text without "Code=" is no event.
Built(body) == IF First("code", body) = 0 THEN <<>> ELSE <<body[First("code", body)][2]>>

ConsumeBody(p) ==
    [buffer |-> From(p.buffer, BodyEnd(p) + 1), in_body |-> FALSE, expected |-> 0,
     out |-> p.out \o Built(SubSeq(p.buffer, 1, BodyEnd(p)))]

\* One round of _drain; the last one leaves what is not yet complete.
Round(p) ==
    LET h == IF p.in_body THEN p ELSE ConsumeHeaders(p)
    IN  IF ~h.in_body \/ BodyEnd(h) < 0 THEN h ELSE ConsumeBody(h)

\* _drain: a round that goes on takes a token at least, and one after the last
\* would change nothing.
Drain(p) ==
    LET after[i \in 0..Len(p.buffer) + 1] == IF i = 0 THEN p ELSE Round(after[i - 1])
    IN  after[Len(p.buffer) + 1]

\* _resync: keep from the last boundary on, unless the buffer starts with it.
Resync(tokens) ==
    LET Is(token) == token[1] = "boundary"
        i == IF boundary THEN SelectLastInSeq(tokens, Is) ELSE 0
    IN  [NewParser EXCEPT !.buffer = IF i > 1 THEN From(tokens, i) ELSE <<>>]

Overflows(tokens) == Len(tokens) > MaxBuffer

\* DahuaEventStreamParser.feed
feed(chunk) ==
    LET tokens == parser.buffer \o chunk
    IN  Drain(IF Overflows(tokens) THEN Resync(tokens) ELSE [parser EXCEPT !.buffer = tokens])
-----------------------------------------------------------------------------
\* External: the recorder sends the next part.
Send ==
    /\ link = "up"
    /\ part < MaxParts
    /\ part' = part + 1
    /\ \E beat \in BOOLEAN :
           /\ beats' = IF beat THEN beats \cup {part + 1} ELSE beats
           /\ wire' = wire \o PartOf(part + 1, beat)
    /\ UNCHANGED <<format, boundary, parser, link, attempt, connects, collected, earlier,
                   received, cut>>

\* _connect_once reads a chunk and yields the events in it.
Receive ==
    /\ link = "up"
    /\ \E n \in 1..Len(wire) :
           LET chunk == SubSeq(wire, 1, n)
               fed == feed(chunk)
           IN  /\ wire' = From(wire, n + 1)
               /\ received' = received \o chunk
               /\ parser' = [fed EXCEPT !.out = <<>>]
               /\ collected' = collected \o fed.out
               /\ attempt' = IF fed.out # <<>> THEN 0 ELSE attempt
               /\ cut' = IF Overflows(parser.buffer \o chunk) THEN Last(chunk)[2] ELSE cut
    /\ UNCHANGED <<format, boundary, part, beats, link, connects, earlier>>

\* Closed by the recorder, a transport error, or no data before the watchdog.
Lost ==
    /\ link = "up"
    /\ link' = "down"
    /\ wire' = <<>>
    /\ attempt' = IF attempt < LastStep THEN attempt + 1 ELSE attempt
    /\ UNCHANGED <<format, boundary, part, beats, parser, connects, collected, earlier,
                   received, cut>>

\* After the delay: refused or unreachable, and the ladder is climbed ...
Refused ==
    /\ link = "down"
    /\ attempt < LastStep
    /\ attempt' = attempt + 1
    /\ UNCHANGED <<format, boundary, part, beats, wire, parser, link, connects, collected,
                   earlier, received, cut>>

\* ... or attached, with a parser of its own.
Attach ==
    /\ link = "down"
    /\ connects < MaxConnects
    /\ link' = "up"
    /\ connects' = connects + 1
    /\ parser' = NewParser
    /\ received' = <<>>
    /\ earlier' = collected
    /\ cut' = 0
    /\ UNCHANGED <<format, boundary, part, beats, wire, attempt, collected>>

FeedNext == Send \/ Receive \/ Lost \/ Refused \/ Attach
-----------------------------------------------------------------------------
\* What a reader of the wire may expect: an event counts once its last byte is
\* there or, if its length is not known, once the next part begins.
Arrived(e, kind) == \E i \in 1..Len(received) : received[i] = <<kind, e>>
Complete ==
    {e \in 1..part : /\ Arrived(e, "data")
                     /\ format = "length" \/ Arrived(e + 1, "boundary")}
OnThisConnection == From(collected, Len(earlier) + 1)

\* Every event is handed on once, in order and as soon as it can be told from
\* the next, however the bytes are cut into chunks; an overflow of the buffer
\* loses no event whose part begins after it.
EveryEventOnce ==
    /\ \A i, j \in 1..Len(collected) : i < j => collected[i] < collected[j]
    /\ cut = 0 => ToSet(OnThisConnection) = Complete
    /\ {e \in Complete : e > cut} \subseteq ToSet(OnThisConnection)
=============================================================================
