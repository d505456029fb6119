---------------------------- MODULE ChatAdapter ----------------------------
(***************************************************************************)
(* POST /v1/chat/completions for models that only speak the Responses API  *)
(* (bedrock/responses_chat_provider.rs): the state machine that turns one  *)
(* upstream Responses event stream into chat chunks, the router that       *)
(* writes them, the client that assembles them, and the next turn, in      *)
(* which the client hands back what it assembled and the adapter turns it  *)
(* into Responses input.                                                   *)
(*                                                                         *)
(* Text is a sequence of pieces <<item, ordinal>>; the tags are pieces of  *)
(* item 0.  Events arrive here decoded; frames are the business of         *)
(* SseLane.                                                                *)
(***************************************************************************)
EXTENDS Integers, FiniteSets, Sequences, SequencesExt, Selection

CONSTANTS
    MaxItems,    \* bound: output items of one response
    MaxPieces,   \* bound: pieces of text in one response
    Styles       \* how the upstream may tell a summary

ASSUME BoundsAssumption == MaxItems \in Nat /\ MaxPieces \in Nat
ASSUME StylesAssumption == Styles \subseteq {"deltas", "done", "item"}

VARIABLES
    capsule,     \* "on", "off", or "overflows": too long for a tool call id
    \* Upstream.
    style, items,
    over,        \* "no", or how the upstream's part ended
    \* ResponsesChatStreamState.
    reasoning,   \* output index -> [sealed, size]
    summaryStreamed, thinkOpen,
    toolIndex,   \* output index -> tool index
    toolArgs,    \* output index -> arguments sent
    pending,     \* chunks of the last event not yet yielded
    \* The router.
    router,      \* "forwarding", "failed", "done", "dropped"
    \* The client.
    role, content,
    calls,       \* tool index -> [item, carries, args]
    finish, usage, error,
    \* The next turn.
    input

upstream == <<style, items>>
machine  == <<reasoning, summaryStreamed, thinkOpen, toolIndex, toolArgs>>
client   == <<role, content, calls, finish, usage, error>>
vars == <<capsule, upstream, over, machine, pending, router, client, input>>
-----------------------------------------------------------------------------
(* Data *)

Empty == [i \in {} |-> 0]

Piece   == Nat \X Nat
Open    == <<0, 0>>     \* <think>
Close   == <<0, 1>>     \* </think>
Garbage == <<<<0, 2>>>> \* arguments unlike those streamed

\* An item of a type that ends in _call is foreign, any other unknown one inert.
Types == {"reasoning", "message", "call", "inert", "foreign"}

\* size counts the pieces so far, parts the summary parts they are in.
Item == [type : Types, size : Nat, parts : Nat, partOpen : BOOLEAN,
         sealed : BOOLEAN, done : BOOLEAN]

Text(i, n) == [k \in 1 .. n |-> <<i, k>>]

\* f[a] then f[b] ... in the order of the indices in S.
InOrder(S, f(_)) == FlattenSeq([k \in 1 .. Cardinality(S) |->
                        f(CHOOSE i \in S : Cardinality({j \in S : j <= i}) = k)])

Blank == [kind |-> "role", text |-> <<>>, index |-> 0, item |-> 0,
          carries |-> Empty, reason |-> "none"]
ContentChunk(text)  == [Blank EXCEPT !.kind = "content", !.text = text]

\* Faulty: the call counts itself.
IndexFromOne(i) == IF i \in DOMAIN toolIndex THEN toolIndex[i]
                   ELSE Cardinality(DOMAIN toolIndex) + 1

\* A call's tool index is the number of calls before it.
IndexOf(i) == IF i \in DOMAIN toolIndex THEN toolIndex[i]
              ELSE Cardinality(DOMAIN toolIndex)
ArgsChunk(i, text)  == [Blank EXCEPT !.kind = "args", !.index = IndexOf(i),
                                     !.text = text]
CallChunk(i, carried) == [Blank EXCEPT !.kind = "call", !.index = IndexOf(i),
                                       !.item = i, !.carries = carried]
FinishChunk(reason) == [Blank EXCEPT !.kind = "finish", !.reason = reason]
UsageChunk          == [Blank EXCEPT !.kind = "usage"]
NoTurn == [echo |-> <<>>, entries |-> <<>>]
Failure(cause)      == [Blank EXCEPT !.kind = "failure", !.reason = cause]
-----------------------------------------------------------------------------
Init ==
    /\ capsule \in {"on", "off", "overflows"}
    /\ style \in Styles /\ items = <<>> /\ over = "no"
    /\ reasoning = Empty /\ toolIndex = Empty /\ toolArgs = Empty
    /\ summaryStreamed = FALSE /\ thinkOpen = FALSE
    /\ pending = <<Blank>>
    /\ router = "forwarding"
    /\ role = FALSE /\ content = <<>> /\ calls = Empty
    /\ finish = "none" /\ usage = FALSE /\ error = FALSE
    /\ input = NoTurn

\* The generator reads on only when every chunk of the last event was taken.
Receiving == router = "forwarding" /\ pending = <<>> /\ over = "no"

\* What one event does to the machine's surroundings: the chunks it yields,
\* or the error that ends the stream and drops them.
Yields(chunks) == pending' = chunks /\ UNCHANGED <<over, router, client, capsule, input>>
Fails(cause) ==
    /\ pending' = <<Failure(cause)>> /\ over' = cause
    /\ UNCHANGED <<router, client, capsule, input>>

\* close_think
CloseThink == IF thinkOpen THEN <<ContentChunk(<<Close>>)>> ELSE <<>>

ToolCallsSeen == toolIndex # Empty
-----------------------------------------------------------------------------
(* The upstream: items come one after the other, calls may overlap; an     *)
(* item may be done without having been added.                             *)

\* How many pieces are left to the upstream.
Shown == {p \in (DOMAIN items) \X (1 .. MaxPieces) : p[2] <= items[p[1]].size}
Room  == MaxPieces - Cardinality(Shown)

Closed == \A i \in DOMAIN items : items[i].type \in {"reasoning", "message"} => items[i].done

NewItem(type, sealed, size, done) ==
    /\ Receiving /\ Len(items) < MaxItems /\ Closed
    /\ items' = Append(items, [type |-> type, size |-> size, parts |-> 0,
                               partOpen |-> FALSE, sealed |-> sealed, done |-> done])
    /\ UNCHANGED style

OpenItem(i, type) ==
    /\ Receiving
    /\ items[i].type = type /\ ~ items[i].done

Grow(i) ==
    /\ Room > 0
    /\ items' = [items EXCEPT ![i].size = @ + 1]
    /\ UNCHANGED style
-----------------------------------------------------------------------------
(* Reasoning *)

With(f, i, v) == [j \in DOMAIN f \cup {i} |-> IF j = i THEN v ELSE f[j]]

\* store_reasoning_item: an item that lacks its encrypted content keeps the
\* one stored before.
Stored(i, sealed, size) ==
    With(reasoning, i,
         [sealed |-> sealed \/ (i \in DOMAIN reasoning /\ reasoning[i].sealed),
          size |-> size])

\* response.output_item.added: reasoning after a call cannot be replayed.
ReasoningAdded ==
    \E sealed \in BOOLEAN :
        /\ NewItem("reasoning", sealed, 0, FALSE)
        /\ IF ToolCallsSeen
           THEN Fails("adapter") /\ UNCHANGED machine
           ELSE /\ reasoning' = Stored(Len(items) + 1, sealed, 0)
                /\ Yields(<<>>)
                /\ UNCHANGED <<summaryStreamed, thinkOpen, toolIndex, toolArgs>>

SummaryDelta(i) ==
    /\ OpenItem(i, "reasoning") /\ style = "deltas"
    /\ Room > 0
    /\ items' = [items EXCEPT ![i].size = @ + 1, ![i].partOpen = TRUE,
                   ![i].parts = IF items[i].partOpen THEN @ ELSE @ + 1]
    /\ UNCHANGED style
    /\ LET piece == <<i, items[i].size + 1>>
       IN  Yields(<<ContentChunk(IF thinkOpen THEN <<piece>> ELSE <<Open, piece>>)>>)
    /\ thinkOpen' = TRUE /\ summaryStreamed' = TRUE
    /\ UNCHANGED <<reasoning, toolIndex, toolArgs>>

\* response.reasoning_summary_text.done: the end of what was streamed, or,
\* if nothing was, the whole text.
SummaryDone(i) ==
    /\ OpenItem(i, "reasoning")
    /\ \/ /\ style = "deltas" /\ items[i].partOpen
          /\ items' = [items EXCEPT ![i].partOpen = FALSE]
          /\ UNCHANGED style
       \/ style = "done" /\ Grow(i)
    /\ IF ~ summaryStreamed
       THEN /\ Yields(<<ContentChunk(<<Open, <<i, items[i].size + 1>>, Close>>)>>)
            /\ UNCHANGED thinkOpen
       ELSE Yields(CloseThink) /\ thinkOpen' = FALSE
    /\ UNCHANGED <<reasoning, summaryStreamed, toolIndex, toolArgs>>

\* response.output_item.done: a summary that was not streamed is shown whole.
ReasoningDone(i) ==
    \E sealed \in BOOLEAN,
       size \in IF style = "item" THEN 0 .. Room ELSE {items[i].size} :
        /\ OpenItem(i, "reasoning")
        /\ items' = [items EXCEPT ![i].done = TRUE, ![i].sealed = @ \/ sealed,
                                  ![i].size = size]
        /\ UNCHANGED style
        /\ IF ToolCallsSeen
           THEN Fails("adapter") /\ UNCHANGED machine
           ELSE /\ reasoning' = Stored(i, sealed, size)
                /\ Yields(IF summaryStreamed \/ size = 0 THEN <<>>
                          ELSE <<ContentChunk(<<Open>> \o Text(i, size) \o <<Close>>)>>)
                /\ UNCHANGED <<summaryStreamed, thinkOpen, toolIndex, toolArgs>>
-----------------------------------------------------------------------------
(* Messages and items of other types *)

MessageAdded ==
    /\ NewItem("message", FALSE, 0, FALSE) /\ Yields(<<>>) /\ UNCHANGED machine

\* Faulty: the tag stays open when the answer begins.
TextDeltaUnclosed(i) ==
    /\ OpenItem(i, "message") /\ Grow(i)
    /\ Yields(<<ContentChunk(<<<<i, items[i].size + 1>>>>)>>)
    /\ UNCHANGED machine

\* response.output_text.delta; an empty delta only closes the tag.
TextDelta(i) ==
    /\ OpenItem(i, "message")
    /\ \/ /\ Grow(i)
          /\ Yields(CloseThink \o <<ContentChunk(<<<<i, items[i].size + 1>>>>)>>)
       \/ thinkOpen /\ UNCHANGED upstream /\ Yields(CloseThink)
    /\ thinkOpen' = FALSE
    /\ UNCHANGED <<reasoning, summaryStreamed, toolIndex, toolArgs>>

MessageDone(i) ==
    /\ OpenItem(i, "message")
    /\ items' = [items EXCEPT ![i].done = TRUE] /\ UNCHANGED style
    /\ Yields(<<>>) /\ UNCHANGED machine

\* observe_output_item_type: an item of a type ending in _call cannot be
\* represented, any other is passed over.  observe_terminal_output does the
\* same for an item that only the terminal event names.
OtherItem ==
    /\ \/ NewItem("inert", FALSE, 0, TRUE) /\ Yields(<<>>)
       \/ NewItem("foreign", FALSE, 0, TRUE) /\ Fails("adapter")
    /\ UNCHANGED machine
-----------------------------------------------------------------------------
(* Function calls *)

\* wire_tool_id: the id carries all reasoning so far, or is the upstream's own
\* if there was none; it fails when that cannot be replayed.
Replayable ==
    \/ reasoning = Empty
    \/ capsule = "on" /\ \A j \in DOMAIN reasoning : reasoning[j].sealed

Carried == [j \in DOMAIN reasoning |-> reasoning[j].size]

\* Faulty: the arguments are sent again from their beginning.
SuffixWhole(i, sent, full) == IF sent = full THEN <<>> ELSE <<ArgsChunk(i, full)>>

\* complete_tool_arguments: what the deltas have left out.
Suffix(i, sent, full) ==
    IF sent = full THEN <<>>
    ELSE <<ArgsChunk(i, SubSeq(full, Len(sent) + 1, Len(full)))>>

Sent(i) == IF i \in DOMAIN toolArgs THEN toolArgs[i] ELSE <<>>

\* Faulty: every event of the item announces the call.
CallItemRepeated(i, full) ==
    /\ toolIndex' = With(toolIndex, i, IndexOf(i))
    /\ toolArgs' = With(toolArgs, i, full)
    /\ thinkOpen' = FALSE
    /\ UNCHANGED <<reasoning, summaryStreamed>>
    /\ IF Replayable
       THEN Yields(CloseThink \o <<CallChunk(i, Carried)>> \o Suffix(i, Sent(i), full))
       ELSE Fails("adapter")

\* output_item.added and .done of a function call: the call is announced by
\* the first of them, and .done sends the rest of the arguments.
CallItem(i, full) ==
    LET new == i \notin DOMAIN toolIndex
    IN  /\ toolIndex' = With(toolIndex, i, IndexOf(i))
        /\ thinkOpen' = FALSE
        /\ UNCHANGED <<reasoning, summaryStreamed>>
        /\ \/ /\ new /\ ~ Replayable
              /\ Fails("adapter") /\ toolArgs' = With(toolArgs, i, Sent(i))
           \/ /\ ~ (new /\ ~ Replayable) /\ ~ IsPrefix(Sent(i), full)
              /\ Fails("upstream") /\ toolArgs' = With(toolArgs, i, Sent(i))
           \/ /\ ~ (new /\ ~ Replayable) /\ IsPrefix(Sent(i), full)
              /\ Yields(CloseThink \o (IF new THEN <<CallChunk(i, Carried)>> ELSE <<>>)
                           \o Suffix(i, Sent(i), full))
              /\ toolArgs' = With(toolArgs, i, full)

CallAdded == NewItem("call", FALSE, 0, FALSE) /\ CallItem(Len(items) + 1, <<>>)

\* A call that was never added is done at once.
CallWhole ==
    \E n \in 0 .. Room :
        NewItem("call", FALSE, n, TRUE) /\ CallItem(Len(items) + 1, Text(Len(items) + 1, n))

\* The rest of the arguments may come with the event, or not match.
Full(i) == {Text(i, n) : n \in items[i].size .. items[i].size + Room}
               \cup (IF items[i].size = 0 THEN {} ELSE {Garbage})

CallDone(i) ==
    /\ OpenItem(i, "call")
    /\ \E full \in Full(i) :
          /\ items' = [items EXCEPT ![i].done = TRUE, ![i].size = Len(full)]
          /\ CallItem(i, full)
    /\ UNCHANGED style

ArgsDelta(i) ==
    /\ OpenItem(i, "call") /\ Grow(i)
    /\ LET text == <<<<i, items[i].size + 1>>>>
       IN  /\ toolArgs' = [toolArgs EXCEPT ![i] = @ \o text]
           /\ Yields(<<ArgsChunk(i, text)>>)
    /\ UNCHANGED <<reasoning, summaryStreamed, thinkOpen, toolIndex>>

\* response.function_call_arguments.done
ArgsDone(i) ==
    /\ OpenItem(i, "call")
    /\ \E full \in Full(i) :
          /\ items' = [items EXCEPT ![i].size = Len(full)]
          /\ IF IsPrefix(Sent(i), full)
             THEN /\ Yields(Suffix(i, Sent(i), full))
                  /\ toolArgs' = [toolArgs EXCEPT ![i] = full]
             ELSE Fails("upstream") /\ UNCHANGED toolArgs
    /\ UNCHANGED <<style, reasoning, summaryStreamed, thinkOpen, toolIndex>>
-----------------------------------------------------------------------------
(* The end of the upstream *)

FinishReason(t) ==
    IF t = "incomplete" THEN "length" ELSE IF ToolCallsSeen THEN "tool_calls" ELSE "stop"

\* response.completed and response.incomplete; what is open then is cut off.
\* The usage chunk is for requests that set include_usage.
Terminal(t) ==
    /\ Receiving
    /\ t = "completed" => \A i \in DOMAIN items : items[i].done
    /\ over' = t
    /\ \E metered \in {<<>>, <<UsageChunk>>} :
          pending' = CloseThink \o <<FinishChunk(FinishReason(t))>> \o metered
    /\ thinkOpen' = FALSE
    /\ UNCHANGED <<upstream, reasoning, summaryStreamed, toolIndex, toolArgs,
                   router, client, capsule, input>>

\* Faulty: bytes that end are taken for an answer that ended.
BreaksQuietly ==
    /\ Receiving /\ over' = "upstream"
    /\ UNCHANGED <<upstream, machine, pending, router, client, capsule, input>>

\* response.failed and error, a transport error, an event that is no JSON or
\* lacks a field, arguments for an item nobody announced, or the end of the
\* bytes without a terminal event.
UpstreamBreaks ==
    /\ Receiving /\ Fails("upstream") /\ UNCHANGED <<upstream, machine>>
-----------------------------------------------------------------------------
(* The router and the client *)

provider == <<capsule, upstream, over, machine>>

\* What a client makes of one chunk.
Read(c) ==
    /\ role' = (role \/ c.kind = "role")
    /\ content' = IF c.kind = "content" THEN content \o c.text ELSE content
    /\ calls' = IF c.kind = "call"
                THEN With(calls, c.index, [item |-> c.item, carries |-> c.carries, args |-> <<>>])
                ELSE IF c.kind = "args"
                THEN [calls EXCEPT ![c.index].args = @ \o c.text]
                ELSE calls
    /\ finish' = IF c.kind = "finish" THEN c.reason ELSE finish
    /\ usage' = (usage \/ c.kind = "usage")
    /\ UNCHANGED error

Forward ==
    /\ router = "forwarding" /\ pending # <<>> /\ Head(pending).kind # "failure"
    /\ Read(Head(pending))
    /\ pending' = Tail(pending)
    /\ UNCHANGED <<provider, router, input>>

ForwardError ==
    /\ router = "forwarding" /\ pending # <<>> /\ Head(pending).kind = "failure"
    /\ router' = "failed" /\ pending' = <<>> /\ error' = TRUE
    /\ UNCHANGED <<provider, role, content, calls, finish, usage, input>>

\* Faulty: a failed stream is left without its end.
SendDoneIfClean ==
    /\ pending = <<>>
    /\ router = "forwarding" /\ over # "no"
    /\ router' = "done"
    /\ UNCHANGED <<provider, pending, client, input>>

\* data: [DONE] ends every stream, failed or not.
SendDone ==
    /\ pending = <<>>
    /\ router = "failed" \/ (router = "forwarding" /\ over # "no")
    /\ router' = "done"
    /\ UNCHANGED <<provider, pending, client, input>>

ClientDrop ==
    /\ router \in {"forwarding", "failed"}
    /\ router' = "dropped"
    /\ UNCHANGED <<provider, pending, client, input>>
-----------------------------------------------------------------------------
(* The next turn: append_message_items over what the client hands back     *)

Indices(type) == {i \in DOMAIN items : items[i].type = type}
Pieces(type)  == Indices(type) \X Nat

IsAnswer(t) == t[1] \in DOMAIN items /\ items[t[1]].type = "message"
IsThought(t) == t[1] \in DOMAIN items /\ items[t[1]].type = "reasoning"

Entry(type, i, text) == [type |-> type, item |-> i, text |-> text]
Rejected == <<Entry("rejected", 0, <<>>)>>

\* The items a capsule carries, and their summary.
Thoughts(carried) ==
    InOrder(DOMAIN carried, LAMBDA i : <<Entry("reasoning", i, Text(i, carried[i]))>>)
Summary(carried) == InOrder(DOMAIN carried, LAMBDA i : Text(i, carried[i]))

\* strip_replayed_summary
Strip(text, summary) ==
    LET prefix == <<Open>> \o summary \o <<Close>>
    IN  IF summary # <<>> /\ IsPrefix(prefix, text)
        THEN SubSeq(text, Len(prefix) + 1, Len(text)) ELSE text

\* append_assistant_items: calls of one message either all carry the same
\* reasoning or none carries any.
Assistant(text, turn) ==
    LET carried  == {turn[k].carries : k \in DOMAIN turn}
        thoughts == IF turn = <<>> THEN Empty ELSE turn[1].carries
        rest     == IF thoughts = Empty THEN text ELSE Strip(text, Summary(thoughts))
    IN  IF Cardinality(carried) > 1 THEN Rejected
        ELSE Thoughts(thoughts)
             \o (IF rest = <<>> THEN <<>> ELSE <<Entry("message", 0, rest)>>)
             \o [k \in DOMAIN turn |-> Entry("call", turn[k].item, turn[k].args)]

\* The result of a call goes by the call id of the upstream.
Results(turn) == [k \in DOMAIN turn |-> Entry("output", turn[k].item, <<>>)]

\* Faulty: nothing is deduplicated.
DedupeNothing(s) == s

\* dedupe_replayed_reasoning_items: the first of equal items stays, items that
\* only share their id are refused.
Dedupe(s) ==
    LET Twin(k, j) == /\ j < k /\ s[j].type = "reasoning" /\ s[k].type = "reasoning"
                      /\ s[j].item = s[k].item
        Kept == {k \in DOMAIN s : \A j \in DOMAIN s : ~ Twin(k, j)}
    IN  IF \E j, k \in DOMAIN s : s[k].type = "rejected" \/ (Twin(k, j) /\ s[j] # s[k])
        THEN Rejected
        ELSE InOrder(Kept, LAMBDA k : <<s[k]>>)

\* All calls in one message, or, as some clients keep them, one message each.
Joint(echo, turn) == Assistant(echo, turn) \o Results(turn)
Apart(echo, turn) ==
    IF turn = <<>> THEN Assistant(echo, turn)
    ELSE FlattenSeq([k \in DOMAIN turn |->
             Assistant(IF k = 1 THEN echo ELSE <<>>, <<turn[k]>>) \o Results(<<turn[k]>>)])

\* chat_request_to_responses, for a client that echoes the content as it got
\* it, without what is in the tags, or not at all.
Continue ==
    /\ router = "done" /\ finish # "none" /\ input = NoTurn
    /\ LET turn == [k \in 1 .. Cardinality(DOMAIN calls) |-> calls[k - 1]]
       IN  \E echo \in {content, Among(content, Pieces("message")), <<>>} :
           \E entries \in {Joint(echo, turn), Apart(echo, turn)} :
               input' = [echo |-> echo, entries |-> Dedupe(entries)]
    /\ UNCHANGED <<provider, pending, router, client>>
-----------------------------------------------------------------------------
Next ==
    \/ ReasoningAdded \/ MessageAdded \/ CallAdded \/ CallWhole \/ OtherItem
    \/ \E i \in DOMAIN items :
          \/ SummaryDelta(i) \/ SummaryDone(i) \/ ReasoningDone(i)
          \/ TextDelta(i) \/ MessageDone(i)
          \/ ArgsDelta(i) \/ ArgsDone(i) \/ CallDone(i)
    \/ Terminal("completed") \/ Terminal("incomplete") \/ UpstreamBreaks
    \/ Forward \/ ForwardError \/ SendDone \/ ClientDrop
    \/ Continue

Spec == Init /\ [][Next]_vars

\* The server polls the body it writes; the upstream and the client promise
\* nothing.
Fairness == WF_vars(Forward \/ ForwardError \/ SendDone)
FairSpec == Spec /\ Fairness
-----------------------------------------------------------------------------
(* Properties *)

\* Which reasoning items a call id carries, and how much of each.
Capsules == UNION {[S -> 0 .. MaxPieces] : S \in SUBSET (1 .. MaxItems)}

Chunk == [kind : {"role", "content", "call", "args", "finish", "usage", "failure"},
          text : Seq(Piece), index : Nat, item : 0 .. MaxItems, carries : Capsules,
          reason : {"none", "stop", "length", "tool_calls", "upstream", "adapter"}]

\* Every variable has its type, and tool indices are handed out in the order
\* in which calls appear: 0, 1, 2, ...
TypeOK ==
    /\ capsule \in {"on", "off", "overflows"} /\ style \in Styles
    /\ items \in Seq(Item) /\ Len(items) <= MaxItems
    /\ over \in {"no", "completed", "incomplete", "upstream", "adapter"}
    /\ DOMAIN reasoning \subseteq DOMAIN items
    /\ \A i \in DOMAIN reasoning : reasoning[i] \in [sealed : BOOLEAN, size : 0 .. MaxPieces]
    /\ summaryStreamed \in BOOLEAN /\ thinkOpen \in BOOLEAN
    /\ DOMAIN toolIndex \subseteq DOMAIN items /\ DOMAIN toolArgs = DOMAIN toolIndex
    /\ \A i \in DOMAIN toolIndex :
          toolIndex[i] = Cardinality({j \in DOMAIN toolIndex : j < i})
    /\ \A i \in DOMAIN toolArgs : toolArgs[i] \in Seq(Piece)
    /\ pending \in Seq(Chunk)
    /\ router \in {"forwarding", "failed", "done", "dropped"}
    /\ role \in BOOLEAN /\ usage \in BOOLEAN /\ error \in BOOLEAN
    /\ content \in Seq(Piece)
    /\ finish \in {"none", "stop", "length", "tool_calls"}

\* The tag is open at the end of the text.
OpenAtEnd(text) == \E o \in DOMAIN text :
                      text[o] = Open /\ \A c \in o .. Len(text) : text[c] # Close

\* The k-th piece of the content lies between the tags.
Inside(k) == \E o \in 1 .. k - 1 :
                content[o] = Open /\ \A c \in o .. k : content[c] # Close

\* Whatever the order of events, a client that hides what is between the tags
\* shows the answer and nothing else, and the tag is closed before the client
\* hears of a tool call and before the finish (the adapter's second promise).
ThinkSeparates ==
    /\ \A k \in DOMAIN content :
          /\ IsThought(content[k]) => Inside(k)
          /\ IsAnswer(content[k]) => ~ Inside(k)
    /\ calls # Empty \/ finish # "none" => ~ OpenAtEnd(content)

AllText(type) == FlattenSeq([i \in DOMAIN items |->
                     IF items[i].type = type THEN Text(i, items[i].size) ELSE <<>>])

\* responses_to_chat, the adapter of the other mode, applied to the response
\* that the upstream streamed: the turns it refuses,
WholeFails ==
    \/ Indices("foreign") # {}
    \/ \E c \in Indices("call"), r \in Indices("reasoning") :
           \/ c < r
           \/ capsule # "on"
           \/ ~ items[r].sealed
\* and the calls it answers with.
WholeCalls ==
    [k \in 0 .. Cardinality(Indices("call")) - 1 |->
        LET i == CHOOSE i \in Indices("call") :
                     Cardinality({j \in Indices("call") : j < i}) = k
        IN  [item |-> i, carries |-> [r \in Indices("reasoning") |-> items[r].size],
             args |-> Text(i, items[i].size)]]

Delivered == pending = <<>> /\ router \in {"forwarding", "done"}

\* A client gets the same turn from both modes: calls with the same ids and
\* arguments, the same answer and, unless the upstream sent a summary without
\* streaming it, the same summary; and the stream refuses a turn for itself
\* only if the other mode would.
StreamAgreesWithWhole ==
    /\ over = "completed" /\ Delivered =>
          /\ ~ WholeFails /\ calls = WholeCalls
          /\ Among(content, Pieces("message")) = AllText("message")
          /\ style # "done" => Among(content, Pieces("reasoning")) = AllText("reasoning")
    /\ over = "adapter" => WholeFails

\* A stream that ends without a terminal event, or whose turn could not be
\* replayed, is not passed off as an answer: [DONE] comes after a finish or
\* after an error, never after both and never after neither.
VerdictBeforeDone ==
    router = "done" => /\ finish # "none" <=> ~ error
                       /\ error <=> over \notin {"completed", "incomplete"}

Where(type) == {k \in DOMAIN input.entries : input.entries[k].type = type}

\* One summary, shown in one block before everything else.
OneThought ==
    /\ Cardinality(Indices("reasoning")) = 1 /\ items[1].type = "reasoning"
    /\ items[1].parts <= 1 /\ style # "done"

\* A turn with calls that the client hands back, in one message or one per
\* call, with or without the content, is never refused, and reaches the
\* upstream as it came: every reasoning item once and before every call, every
\* call once with its arguments and its result after it, and the whole answer,
\* without the summary if that was shown once and in one block.
ReplayFaithful ==
    input # NoTurn =>
        /\ Where("rejected") = {}
        /\ calls # Empty =>
              /\ \A i \in Indices("reasoning") :
                    Cardinality({k \in Where("reasoning") : input.entries[k].item = i}) = 1
              /\ \A k \in Where("reasoning"), c \in Where("call") : k < c
              /\ LET answer == Among(input.echo, Pieces("message"))
                     texts  == {input.entries[k].text : k \in Where("message")}
                 IN  /\ answer # <<>> => texts # {}
                     /\ \A text \in texts : Among(text, Pieces("message")) = answer
                     /\ OneThought => texts \subseteq {answer}
        /\ {<<input.entries[k].item, input.entries[k].text>> : k \in Where("call")}
               = {<<i, toolArgs[i]>> : i \in DOMAIN toolIndex}
        /\ Cardinality(Where("call")) = Cardinality(DOMAIN toolIndex)
        /\ \A k \in Where("call") : \E o \in Where("output") :
              o > k /\ input.entries[o].item = input.entries[k].item

\* The client's view as an abstract chat stream.
Heard ==
    IF usage THEN "metered" ELSE IF finish # "none" THEN "finished"
    ELSE IF role THEN "body" ELSE "new"
Stage ==
    IF router \in {"done", "dropped"} THEN "ended"
    ELSE IF router = "failed" THEN "failed" ELSE Heard
ThinkShown == OpenAtEnd(content)
Argued     == [i \in DOMAIN calls |-> Len(calls[i].args)]
Wire == INSTANCE ChatWire WITH
            stage <- Stage,
            think <- ThinkShown,
            shown <- Len(content),
            args  <- Argued

\* The adapter keeps the protocol of a chat stream.
WireHolds == Wire!Spec

\* Once the upstream's part is over a connected client gets the [DONE] that
\* compatible clients wait for.
DoneFollowsEnd == over # "no" ~> router \in {"done", "dropped"}
=============================================================================
