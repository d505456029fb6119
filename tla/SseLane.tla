------------------------------ MODULE SseLane ------------------------------
(***************************************************************************)
(* The bytes of a mantle Responses stream on their way through the gateway:*)
(* the HTTP client hands them over in chunks cut anywhere; the terminator  *)
(* (bedrock/mantle_client.rs) watches them for a terminal event and ends   *)
(* the lane after it, since the upstream may keep the connection open; the *)
(* frame decoder of the chat adapter (bedrock/responses_chat_provider.rs)  *)
(* turns them into events.  A client of the raw lane gets the same bytes.  *)
(*                                                                         *)
(* A byte is a pair of the frame it belongs to and what it is: a line end, *)
(* or a part of an event line ("e1" "e2"), of a data line ("d1" ... "d2"), *)
(* of one of two data lines that share the event ("m" and "n") or of a     *)
(* line that is no field the gateway knows ("c").                          *)
(***************************************************************************)
EXTENDS Integers, FiniteSets, Sequences, SequencesExt, Selection

CONSTANTS
    NumFrames,    \* bound: frames the upstream sends
    MaxLine,      \* MAX_SSE_LINE_BYTES
    MaxFrame      \* MAX_SSE_FRAME_BYTES

\* The line limit, 2 MiB in the code, admits an event line.
ASSUME LimitsAssumption ==
    NumFrames \in Nat /\ MaxLine \in Nat /\ MaxLine >= 2 /\ MaxFrame \in Nat

VARIABLES
    frames, eol,  \* what the upstream sends
    sent,         \* bytes it has sent
    \* ResponsesSseTerminator and the stream around it.
    line, armed, terminal, lane, observed,
    \* SseDecoder.
    buffer, events, decoder

upstream   == <<frames, eol>>
terminator == <<line, armed, terminal, lane, observed>>
decoding   == <<buffer, events, decoder>>
vars == <<upstream, sent, terminator, decoding>>
-----------------------------------------------------------------------------
(* The bytes of a frame *)

\* typed: the JSON of the data line names its type, as Responses events do;
\* an error event may leave that to its event line.
Layouts == {"data", "event data", "data event", "split", "event split",
            "long", "event long", "long event", "comment"}
Frame == [last : BOOLEAN, typed : BOOLEAN, layout : Layouts]

EventLine == <<"e1", "e2">>
DataLine  == <<"d1", "d2">>
LongLine  == <<"d1", "d", "d", "d2">>

LinesOf(layout) ==
    CASE layout = "data"        -> <<DataLine>>
      [] layout = "event data"  -> <<EventLine, DataLine>>
      [] layout = "data event"  -> <<DataLine, EventLine>>
      [] layout = "split"       -> <<<<"m">>, <<"n">>>>
      [] layout = "event split" -> <<EventLine, <<"m">>, <<"n">>>>
      [] layout = "long"        -> <<LongLine>>
      [] layout = "event long"  -> <<EventLine, LongLine>>
      [] layout = "long event"  -> <<LongLine, EventLine>>
      [] layout = "comment"     -> <<<<"c">>>>

Eol == IF eol = "crlf" THEN <<"cr", "lf">> ELSE <<"lf">>

BytesOf(f) ==
    LET text == FlattenSeq([k \in DOMAIN LinesOf(frames[f].layout) |->
                               LinesOf(frames[f].layout)[k] \o Eol]) \o Eol
    IN  [k \in DOMAIN text |-> <<f, text[k]>>]

Bytes == FlattenSeq([f \in DOMAIN frames |-> BytesOf(f)])

\* How many bytes the first n frames have.
Until(n) == Len(FlattenSeq([f \in 1 .. n |-> BytesOf(f)]))

NoTerminal == [frame |-> 0, usage |-> FALSE]

Init ==
    /\ frames \in [1 .. NumFrames -> Frame]
    /\ \A f \in DOMAIN frames :
          /\ frames[f].layout = "comment" => ~ frames[f].last
          /\ ~ frames[f].typed => frames[f].last /\ frames[f].layout \in {"event data", "data event"}
    /\ eol \in {"lf", "crlf"}
    /\ sent = 0
    /\ line = <<>> /\ armed = FALSE /\ terminal = NoTerminal
    /\ lane = "open" /\ observed = NoTerminal
    /\ buffer = <<>> /\ events = <<>> /\ decoder = "reading"
-----------------------------------------------------------------------------
(* ResponsesSseTerminator.observe: byte by byte, until a terminal event ends *)

Is(b, what) == b[2] = what

Unreturned(l, a, t) == [line |-> l, armed |-> a, terminal |-> t, found |-> FALSE]

\* A line without its line end, cut at MaxLine.
Stripped(l) == IF l # <<>> /\ Is(l[Len(l)], "cr") THEN SubSeq(l, 1, Len(l) - 1) ELSE l

Words(l) == [k \in DOMAIN l |-> l[k][2]]

\* What is recorded of a terminal event: only its data line tells the usage.
FromEvent(f, whole) == [frame |-> f, usage |-> whole]

\* Whether the data line parses, and names its type.
Parses(l) == Words(l) \in {DataLine, LongLine}
NamesTerminal(f) == frames[f].typed /\ frames[f].last

\* Faulty: the event line forgets what the data line has told.
OnEventForgetful(s, f) ==
    IF frames[f].last
    THEN Unreturned(<<>>, TRUE, FromEvent(f, FALSE))
    ELSE Unreturned(<<>>, FALSE, NoTerminal)

\* An event line arms or disarms; what the data line told before is kept.
OnEvent(s, f) ==
    IF frames[f].last
    THEN Unreturned(<<>>, TRUE, IF s.terminal = NoTerminal THEN FromEvent(f, FALSE)
                                ELSE s.terminal)
    ELSE Unreturned(<<>>, FALSE, NoTerminal)

OnData(s, f) ==
    IF NamesTerminal(f) \/ s.armed
    THEN Unreturned(<<>>, TRUE, FromEvent(f, TRUE))
    ELSE Unreturned(<<>>, FALSE, s.terminal)

OnLine(s) ==
    LET l == Stripped(s.line)
    IN  IF l = <<>>
        THEN [Unreturned(<<>>, FALSE, IF s.armed THEN s.terminal ELSE NoTerminal)
                EXCEPT !.found = s.armed]
        ELSE IF Words(l) = EventLine THEN OnEvent(s, l[1][1])
        ELSE IF Parses(l) THEN OnData(s, l[1][1])
        ELSE Unreturned(<<>>, s.armed, s.terminal)

\* Faulty: the limit is checked after the byte was taken.
ObserveOneMore(s, b) ==
    IF s.found THEN s
    ELSE IF Is(b, "lf") THEN OnLine(s)
    ELSE IF Len(s.line) <= MaxLine THEN [s EXCEPT !.line = Append(@, b)] ELSE s

Observe1(s, b) ==
    IF s.found THEN s
    ELSE IF Is(b, "lf") THEN OnLine(s)
    ELSE IF Len(s.line) < MaxLine THEN [s EXCEPT !.line = Append(@, b)] ELSE s

Watch(s, chunk) ==
    LET run[k \in 0 .. Len(chunk)] == IF k = 0 THEN s ELSE Observe1(run[k - 1], chunk[k])
    IN  run[Len(chunk)]

\* Faulty: the line is lost where a chunk ends.
ObserveAfresh(chunk) == Watch(Unreturned(<<>>, armed, terminal), chunk)

Observe(chunk) == Watch(Unreturned(line, armed, terminal), chunk)
-----------------------------------------------------------------------------
(* SseDecoder *)

\* Faulty: only bare line feeds end a frame.
BoundariesLf(buf) ==
    {<<k, 2>> : k \in {k \in 1 .. Len(buf) - 1 : Is(buf[k], "lf") /\ Is(buf[k + 1], "lf")}}

\* frame_boundary: the first blank line, as the bytes before it and its length.
Boundaries(buf) ==
    {<<k, 2>> : k \in {k \in 1 .. Len(buf) - 1 : Is(buf[k], "lf") /\ Is(buf[k + 1], "lf")}}
    \cup
    {<<k, 4>> : k \in {k \in 1 .. Len(buf) - 3 :
        /\ Is(buf[k], "cr") /\ Is(buf[k + 1], "lf")
        /\ Is(buf[k + 2], "cr") /\ Is(buf[k + 3], "lf")}}
FirstBoundary(buf) == CHOOSE b \in Boundaries(buf) : \A c \in Boundaries(buf) : b[1] <= c[1]

\* parse_sse_frame: the data lines joined are the event's JSON, or there is none.
DataOf(bytes) == Among(bytes, (1 .. NumFrames) \X {"d1", "d", "d2", "m", "n"})
WholeData(bytes) == Words(DataOf(bytes)) \in {DataLine, LongLine, <<"m", "n">>}
Parsed(bytes) == IF DataOf(bytes) = <<>> THEN <<>> ELSE <<DataOf(bytes)[1][1]>>

\* push: every frame that is complete is taken, and what is left is kept.
Taken(s) ==
    IF Boundaries(s.left) = {} THEN s
    ELSE LET b == FirstBoundary(s.left)
         IN  [left |-> SubSeq(s.left, b[1] + b[2], Len(s.left)),
              out  |-> s.out \o Parsed(SubSeq(s.left, 1, b[1] - 1))]

Push(buf) ==
    LET step[n \in 0 .. Len(buf)] ==
            IF n = 0 THEN [left |-> buf, out |-> <<>>] ELSE Taken(step[n - 1])
    IN  step[Len(buf)]

Oversized(buf) == Len(buf) > MaxFrame /\ Boundaries(buf) = {}
-----------------------------------------------------------------------------
(* One chunk of n bytes: the terminator looks at it, the lane passes it on  *)
(* and ends if it was told to, the decoder takes it.                        *)

Receive(n) ==
    /\ lane = "open" /\ sent + n <= Len(Bytes)
    /\ sent' = sent + n
    /\ LET chunk == SubSeq(Bytes, sent + 1, sent + n)
           s     == Observe(chunk)
       IN  /\ line' = s.line /\ armed' = s.armed
           /\ IF s.found
              THEN lane' = "terminated" /\ observed' = s.terminal /\ terminal' = NoTerminal
              ELSE terminal' = s.terminal /\ UNCHANGED <<lane, observed>>
           /\ LET buf == buffer \o chunk
              IN  IF decoder # "reading" THEN UNCHANGED decoding
                  ELSE IF Oversized(buf)
                  THEN decoder' = "oversized" /\ buffer' = buf /\ UNCHANGED events
                  ELSE /\ buffer' = Push(buf).left
                       /\ events' = events \o Push(buf).out
                       /\ UNCHANGED decoder
    /\ UNCHANGED upstream

\* SseDecoder.finish at the end of the bytes: what is left may be an event
\* whose blank line never came.
Flush ==
    /\ decoder = "reading"
    /\ buffer' = <<>>
    /\ IF DataOf(buffer) = <<>> THEN decoder' = "ended" /\ UNCHANGED events
       ELSE IF WholeData(buffer)
       THEN decoder' = "ended" /\ events' = events \o Parsed(buffer)
       ELSE decoder' = "invalid" /\ UNCHANGED events

\* The upstream closes the connection, wherever it stands.
UpstreamEnd ==
    /\ lane = "open" /\ lane' = "ended"
    /\ Flush \/ (decoder # "reading" /\ UNCHANGED decoding)
    /\ UNCHANGED <<upstream, sent, line, armed, terminal, observed>>

\* The lane was ended by the terminator.
LaneEnd ==
    /\ lane = "terminated"
    /\ Flush
    /\ UNCHANGED <<upstream, sent, terminator>>

TransportError ==
    /\ lane = "open" /\ lane' = "failed"
    /\ decoder' = IF decoder = "reading" THEN "failed" ELSE decoder
    /\ UNCHANGED <<upstream, sent, line, armed, terminal, observed, buffer, events>>

Next ==
    \/ \E n \in 1 .. Len(Bytes) : Receive(n)
    \/ UpstreamEnd \/ LaneEnd \/ TransportError

Spec == Init /\ [][Next]_vars
-----------------------------------------------------------------------------
(* Properties *)

\* Every variable has its type, and the terminator keeps one line at most, cut
\* at its limit, whatever the upstream sends.
TypeOK ==
    /\ frames \in [1 .. NumFrames -> Frame] /\ eol \in {"lf", "crlf"}
    /\ sent \in 0 .. Len(Bytes)
    /\ Len(line) <= MaxLine /\ \A k \in DOMAIN line : line[k][2] # "lf"
    /\ armed \in BOOLEAN
    /\ {terminal, observed} \subseteq [frame : 0 .. NumFrames, usage : BOOLEAN]
    /\ lane \in {"open", "terminated", "ended", "failed"}
    /\ events \in Seq(1 .. NumFrames)
    /\ decoder \in {"reading", "ended", "invalid", "oversized", "failed"}

\* The frames whose last byte has been sent.
Complete == {f \in DOMAIN frames : Until(f) <= sent}

HasEvent(f) == frames[f].layout # "comment"

\* The events of the first n frames.
EventsOf(n) == Among([f \in 1 .. n |-> f], {f \in DOMAIN frames : HasEvent(f)})

\* Wherever the chunks are cut, inside a line, between the two ends of a blank
\* line, or with several frames in one, the decoder yields every frame once,
\* in order, as soon as its last byte is there, and is refused none that fits.
FramesInOrder ==
    /\ decoder = "reading" => events = EventsOf(Cardinality(Complete))
    /\ decoder \in {"ended", "invalid"} =>
          events \in {EventsOf(n) : n \in {Cardinality(Complete), Cardinality(Complete) + 1}
                                              \cap 0 .. NumFrames}
    /\ decoder = "oversized" => \E f \in DOMAIN frames : Len(BytesOf(f)) > MaxFrame + 1

\* An event the terminator can tell: an event line, or one data line that fits
\* and names its type.
Recognizable(f) ==
    /\ frames[f].last
    /\ \/ EventLine \in ToSet(LinesOf(frames[f].layout))
       \/ /\ frames[f].typed /\ frames[f].layout \in {"data", "long"}
          /\ Len(LinesOf(frames[f].layout)[1]) <= MaxLine

FirstTerminal == CHOOSE f \in DOMAIN frames :
                    Recognizable(f) /\ \A g \in 1 .. f - 1 : ~ Recognizable(g)

\* The lane ends with the chunk that completes the first terminal event, not
\* before and not later: no client waits for an upstream that keeps its
\* connection open, and none is cut off from what comes before.
EndsWithTerminal ==
    LET seen == \E f \in Complete : Recognizable(f)
    IN  /\ lane = "open" => ~ seen
        /\ lane = "terminated" => seen /\ observed.frame = FirstTerminal

\* What is recorded of a stream has the usage that its terminal event told,
\* whichever of the event line and the data line came first (the incident of
\* 2026-07-18 in the adapter's document).
UsageRecorded ==
    lane = "terminated" =>
        (observed.usage <=>
            /\ frames[observed.frame].layout \notin {"split", "event split"}
            /\ frames[observed.frame].typed \/ frames[observed.frame].layout = "event data"
            /\ \E l \in ToSet(LinesOf(frames[observed.frame].layout)) :
                  l[1] = "d1" /\ Len(l) <= MaxLine)
=============================================================================
