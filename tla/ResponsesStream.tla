-------------------------- MODULE ResponsesStream --------------------------
(***************************************************************************)
(* The typed Converse lane of POST /v1/responses with stream = true        *)
(* (bedrock/responses_stream.rs): the state machine that turns one Bedrock *)
(* ConverseStream into Responses lifecycle events, the driver that awaits  *)
(* the upstream receiver under an idle timeout and yields the events one   *)
(* by one, the upstream it reads and the client it writes to.              *)
(*                                                                         *)
(* Text is a sequence of fragments <<block, ordinal>>, in the order in     *)
(* which it is put together, so that what a "done" event or the terminal   *)
(* Response repeats can be compared with what was streamed; tool input is  *)
(* only "empty", "partial" or "valid" JSON.                                *)
(***************************************************************************)
EXTENDS Integers, Sequences, SequencesExt, Selection

CONSTANTS
    LastBlock,     \* bound: the largest contentBlockIndex the upstream uses
    ToolKinds,     \* kinds of tool the registry of this request can resolve
    StopReasons,   \* stopReason values the upstream may report
    MaxFragments   \* bound: fragments the upstream sends in one block

AllToolKinds == {"function", "custom", "local_shell", "shell"}
LateKinds    == {"local_shell", "shell"}
IncompleteStops == {"max_tokens", "content_filtered"}

ASSUME LastBlockAssumption == LastBlock \in Nat
ASSUME ToolKindsAssumption == ToolKinds \subseteq AllToolKinds
ASSUME StopReasonsAssumption ==
    StopReasons \subseteq IncompleteStops \cup {"end_turn", "tool_use"}
ASSUME MaxFragmentsAssumption == MaxFragments \in Nat

VARIABLES
    \* Upstream: the ConverseStream protocol and what was really sent.
    phase,        \* "init", "body", "stopped" (messageStop sent)
    blk,          \* block -> [kind, stage, sent, text, args, late]
    \* ResponsesStreamState.
    started,      \* created and in_progress were emitted
    nextIndex,    \* next_output_index
    message,      \* [open, index, text]: the message item
    reasoning,    \* [open, index, text]: the reasoning item
    thought,      \* reasoning_by_block: block -> [text, seen]
    tools,        \* accumulators in arrival order
    stopReason,   \* captured stopReason, or "none"
    finalized,
    final,        \* the Response the terminal event carries
    \* The driver.
    driver,       \* "running", "ended", "dropped"
    pending,      \* events computed for one upstream event, not yet yielded
    \* The client.
    envelope, item, terminal,   \* see ResponsesWire
    streamed,     \* output_index -> fragments delivered in deltas (a summary
                  \* delta, the twin of a reasoning delta, is not counted)
    doneText,     \* output_index -> text its text-done event repeated
    lastDone      \* last reasoning and message items the client got whole

upstream == <<phase, blk>>
machine  == <<started, nextIndex, message, reasoning, thought, tools,
              stopReason, finalized, final>>
client   == <<envelope, item, terminal, streamed, doneText, lastDone>>
vars     == <<upstream, machine, driver, pending, client>>

Wire == INSTANCE ResponsesWire
-----------------------------------------------------------------------------
(* Data *)

Blocks == 0 .. LastBlock

FragmentsOf(b) == {b} \X (1 .. MaxFragments)
Fragments == Blocks \X (1 .. MaxFragments)
ArgStates == {"empty", "partial", "valid"}
ContentKinds == {"text", "reasoning", "redacted"}
BlockKinds == ContentKinds \cup ToolKinds

\* One wire event: its type, the kind of item it announces or closes, its
\* output_index, the text it carries and, for a reasoning item, the blocks
\* sealed in its encrypted_content.
Ev(t, k, i, txt, env) ==
    [type |-> t, kind |-> k, index |-> i, text |-> txt, env |-> env]
Plain(t, k, i) == Ev(t, k, i, <<>>, {})

Nothing == [text |-> <<>>, env |-> {}]

NoFinal == [status |-> "none", reasoning |-> Nothing, message |-> <<>>, tools |-> {}]

\* normalized_arguments: blank input is the valid object {}.
ParsesAsJson(args) == args # "partial"

\* The texts of the blocks, f, one after the other by block index.
Joined(f) == FlattenSeq([n \in 1 .. LastBlock + 1 |-> f[n - 1]])

Sealed == {b \in Blocks : thought[b].seen # "none"}

\* Where the item that is about to be open has its output_index.
IndexFor(it) == IF it.open THEN it.index ELSE nextIndex
NextAfter(it) == IF it.open THEN nextIndex ELSE nextIndex + 1
-----------------------------------------------------------------------------
(* Event vectors of the machine's helpers *)

\* Faulty variants of this kind are what the properties are shown to catch:
\* this one forgets that the envelope was already sent.
StartedEveryTime ==
    <<Plain("Created", "none", 0), Plain("InProgress", "none", 0)>>

Started == IF started THEN <<>>
           ELSE <<Plain("Created", "none", 0), Plain("InProgress", "none", 0)>>

EnsureItem(it, k) ==
    IF it.open THEN <<>>
    ELSE <<Plain("Added", k, nextIndex), Plain("PartAdded", k, nextIndex)>>

CloseMessage ==
    IF ~ message.open THEN <<>>
    ELSE <<Ev("TextDone", "message", message.index, message.text, {}),
           Plain("PartDone", "message", message.index),
           Ev("ItemDone", "message", message.index, message.text, {})>>

ReasoningTexts ==
    IF reasoning.text = <<>> THEN <<>>
    ELSE <<Ev("TextDone", "reasoning", reasoning.index, reasoning.text, {}),
           Ev("TextDone", "summary", reasoning.index, reasoning.text, {})>>

CloseReasoning ==
    IF ~ reasoning.open THEN <<>>
    ELSE ReasoningTexts \o
         <<Plain("PartDone", "reasoning", reasoning.index),
           Ev("ItemDone", "reasoning", reasoning.index, reasoning.text, Sealed)>>

\* finalize_tool_block emits exactly two events for every kind of tool: the
\* late announcement or the complete input, then the item.
ToolEvents(t) ==
    <<Plain(IF t.kind \in LateKinds THEN "Added" ELSE "ArgsDone", t.kind, t.index),
      Plain("ItemDone", t.kind, t.index)>>

FinalizeTools ==
    [n \in 1 .. 2 * Len(tools) |-> ToolEvents(tools[(n + 1) \div 2])[2 - (n % 2)]]
-----------------------------------------------------------------------------
(* Initial state *)

UpstreamInit ==
    /\ phase = "init"
    /\ blk = [b \in Blocks |->
                 [kind |-> "text", stage |-> "idle", sent |-> 0, text |-> {},
                  args |-> "empty", late |-> FALSE]]

MachineInit ==
    /\ started = FALSE
    /\ nextIndex = 0
    /\ message = [open |-> FALSE, index |-> 0, text |-> <<>>]
    /\ reasoning = [open |-> FALSE, index |-> 0, text |-> <<>>]
    /\ thought = [b \in Blocks |-> [text |-> <<>>, seen |-> "none"]]
    /\ tools = <<>>
    /\ stopReason = "none"
    /\ finalized = FALSE
    /\ final = NoFinal

ClientInit ==
    /\ Wire!WireInit
    /\ streamed = [i \in {} |-> <<>>]
    /\ doneText = [i \in {} |-> <<>>]
    /\ lastDone = [message |-> Nothing, reasoning |-> Nothing]

Init == /\ UpstreamInit
        /\ MachineInit
        /\ driver = "running" /\ pending = <<>>
        /\ ClientInit
-----------------------------------------------------------------------------
(* What the upstream may send: blocks are numbered in the order they start *)
(* and may overlap; each is fragments, then a stop; messageStop comes once *)
(* and only metadata follows it.  The stream may end, fail or fall silent  *)
(* at any point.                                                           *)

\* recv().await: the driver asks only when the last vector was yielded.
Receiving == driver = "running" /\ pending = <<>> /\ ~ finalized

Body == Receiving /\ phase = "body"

Fragment(b, kind) ==
    /\ Body
    /\ blk[b].stage = "open" /\ blk[b].kind = kind /\ blk[b].sent < MaxFragments
    /\ UNCHANGED phase

\* A text fragment may be empty.
TextOf(b) == { <<>>, << <<b, blk[b].sent + 1>> >> }

\* A later block of the same kind has already sent text.
Overtaken(b) == \E c \in Blocks : c > b /\ blk[c].kind = blk[b].kind /\ blk[c].text # {}

Sent(b, txt) ==
    blk' = [blk EXCEPT ![b].sent = @ + 1, ![b].text = @ \cup Range(txt),
                       ![b].late = @ \/ (txt # <<>> /\ Overtaken(b))]
-----------------------------------------------------------------------------
(* map_event: one action per upstream event.  ensure_started comes first.  *)

Emit(evs) == pending' = Started \o evs /\ started' = TRUE

MessageStart ==
    /\ Receiving /\ phase = "init"
    /\ phase' = "body"
    /\ Emit(<<>>)
    /\ UNCHANGED <<blk, nextIndex, message, reasoning, thought, tools,
                   stopReason, finalized, final, driver, client>>

Opened(b, k) ==
    /\ Body
    /\ blk[b].stage = "idle" /\ \A c \in Blocks : c < b => blk[c].stage # "idle"
    /\ blk' = [blk EXCEPT ![b].stage = "open", ![b].kind = k]
    /\ UNCHANGED <<phase, thought, stopReason, finalized, final, driver, client>>

\* Text and reasoning items open lazily: the start of their block is inert.
ContentBlockStart(b) ==
    /\ \E k \in ContentKinds : Opened(b, k)
    /\ Emit(<<>>)
    /\ UNCHANGED <<nextIndex, message, reasoning, tools>>

ToolBlockStart(b) ==
    \E k \in ToolKinds :
        /\ Opened(b, k)
        /\ Emit(CloseMessage \o CloseReasoning \o
                IF k \in LateKinds THEN <<>> ELSE <<Plain("Added", k, nextIndex)>>)
        /\ message' = [message EXCEPT !.open = FALSE]
        /\ reasoning' = [reasoning EXCEPT !.open = FALSE]
        /\ tools' = Append(tools, [block |-> b, kind |-> k, args |-> "empty",
                                   index |-> nextIndex, closed |-> FALSE,
                                   done |-> FALSE])
        /\ nextIndex' = nextIndex + 1

\* Faulty: the delta repeats the text accumulated so far.
CumulativeTextDelta(b) ==
    \E txt \in TextOf(b) :
        /\ Fragment(b, "text") /\ Sent(b, txt)
        /\ Emit(CloseReasoning \o EnsureItem(message, "message") \o
                <<Ev("Delta", "message", IndexFor(message), message.text \o txt, {})>>)
        /\ reasoning' = [reasoning EXCEPT !.open = FALSE]
        /\ message' = [open |-> TRUE, index |-> IndexFor(message),
                       text |-> message.text \o txt]
        /\ nextIndex' = NextAfter(message)
        /\ UNCHANGED <<thought, tools, stopReason, finalized, final, driver, client>>

TextDelta(b) ==
    \E txt \in TextOf(b) :
        /\ Fragment(b, "text") /\ Sent(b, txt)
        /\ Emit(CloseReasoning \o EnsureItem(message, "message") \o
                <<Ev("Delta", "message", IndexFor(message), txt, {})>>)
        /\ reasoning' = [reasoning EXCEPT !.open = FALSE]
        /\ message' = [open |-> TRUE, index |-> IndexFor(message),
                       text |-> message.text \o txt]
        /\ nextIndex' = NextAfter(message)
        /\ UNCHANGED <<thought, tools, stopReason, finalized, final, driver, client>>

\* Opening the reasoning item leaves an open message item open.
OpenReasoning(txt) ==
    /\ reasoning' = [open |-> TRUE, index |-> IndexFor(reasoning),
                     text |-> reasoning.text \o txt]
    /\ nextIndex' = NextAfter(reasoning)
    /\ UNCHANGED <<message, tools, stopReason, finalized, final, driver, client>>

EmptyReasoningText(b) ==
    /\ Fragment(b, "reasoning") /\ Sent(b, <<>>)
    /\ Emit(<<>>)
    /\ UNCHANGED <<nextIndex, message, reasoning, thought, tools, stopReason,
                   finalized, final, driver, client>>

ReasoningText(b) ==
    LET txt == << <<b, blk[b].sent + 1>> >>
    IN  /\ Fragment(b, "reasoning") /\ Sent(b, txt)
        /\ Emit(EnsureItem(reasoning, "reasoning") \o
                <<Ev("Delta", "reasoning", IndexFor(reasoning), txt, {}),
                  Ev("Delta", "summary", IndexFor(reasoning), txt, {})>>)
        /\ OpenReasoning(txt)
        /\ thought' = [thought EXCEPT ![b].text = @ \o txt]

\* Faulty: the seal is kept, but no item is opened to carry it.
SealUnopened(b, kind, seen) ==
    /\ Fragment(b, kind) /\ Sent(b, <<>>)
    /\ Emit(<<>>)
    /\ thought' = [thought EXCEPT ![b].seen = seen]
    /\ UNCHANGED <<nextIndex, message, reasoning, tools, stopReason, finalized,
                   final, driver, client>>

\* A signature or a redacted payload opens the item though it has no text.
Seal(b, kind, seen) ==
    /\ Fragment(b, kind) /\ Sent(b, <<>>)
    /\ Emit(EnsureItem(reasoning, "reasoning"))
    /\ OpenReasoning(<<>>)
    /\ thought' = [thought EXCEPT ![b].seen = seen]

ReasoningSignature(b) == Seal(b, "reasoning", "signature")
ReasoningRedacted(b)  == Seal(b, "redacted", "redacted")

\* Appending a fragment to tool input: blank input stays blank, anything else
\* may or may not parse.
ToolInput(b) ==
    \E a \in ArgStates, k \in ToolKinds, p \in DOMAIN tools :
        /\ tools[p].block = b
        /\ Fragment(b, k)
        /\ a = "empty" => blk[b].args = "empty"
        /\ blk' = [blk EXCEPT ![b].sent = @ + 1, ![b].args = a]
        /\ tools' = [tools EXCEPT ![p].args = a]
        /\ Emit(IF k = "function" THEN <<Plain("Delta", k, tools[p].index)>> ELSE <<>>)
        /\ UNCHANGED <<nextIndex, message, reasoning, thought, stopReason,
                       finalized, final, driver, client>>

\* contentBlockStop only records that a tool's input ended.
CloseToolBlock(b) ==
    tools' = [p \in DOMAIN tools |->
                 IF tools[p].block = b THEN [tools[p] EXCEPT !.closed = TRUE]
                 ELSE tools[p]]

ContentBlockStop(b) ==
    /\ Body /\ blk[b].stage = "open"
    /\ blk' = [blk EXCEPT ![b].stage = "stopped"]
    /\ CloseToolBlock(b)
    /\ Emit(<<>>)
    /\ UNCHANGED <<phase, nextIndex, message, reasoning, thought, stopReason,
                   finalized, final, driver, client>>

MessageStop ==
    /\ Body
    /\ phase' = "stopped"
    /\ stopReason' \in StopReasons
    /\ Emit(CloseMessage \o CloseReasoning)
    /\ message' = [message EXCEPT !.open = FALSE]
    /\ reasoning' = [reasoning EXCEPT !.open = FALSE]
    /\ UNCHANGED <<blk, nextIndex, thought, tools, finalized, final, driver, client>>
-----------------------------------------------------------------------------
(* finish and fail *)

IsIncompleteStop == stopReason \in IncompleteStops

\* Faulty: input that happens to parse is taken for a block that ended.
ToolsReadyIfParsed ==
    \A p \in DOMAIN tools : ParsesAsJson(tools[p].args)

\* finalize_closed_tools validates the whole batch before it emits anything.
ToolsReady ==
    \A p \in DOMAIN tools : tools[p].closed /\ ParsesAsJson(tools[p].args)

\* Faulty: the status of the announcement is left on the final item.
FinalToolStatusOfAdded(k) == IF k = "shell" THEN "in_progress" ELSE "none"

FinalToolStatus(k) == IF k = "shell" THEN "completed" ELSE "none"

\* build_final_response: the whole answer again, from the accumulators; the
\* reasoning is read block by block, in the order of their indices.
FinalResponse ==
    [status    |-> IF IsIncompleteStop THEN "incomplete" ELSE "completed",
     reasoning |-> [text |-> Joined([b \in Blocks |-> thought[b].text]), env |-> Sealed],
     message   |-> message.text,
     tools     |-> {[index |-> tools[p].index, status |-> FinalToolStatus(tools[p].kind)] :
                       p \in {q \in DOMAIN tools : ParsesAsJson(tools[q].args)}}]

Finish(before) ==
    LET closing == before \o CloseMessage \o CloseReasoning
    IN  /\ message' = [message EXCEPT !.open = FALSE]
        /\ reasoning' = [reasoning EXCEPT !.open = FALSE]
        /\ finalized' = TRUE
        /\ IF IsIncompleteStop
           THEN /\ pending' = Append(closing, Plain("incomplete", "none", 0))
                /\ final' = FinalResponse
                /\ UNCHANGED tools
           ELSE IF ToolsReady
           THEN /\ pending' = closing \o FinalizeTools \o
                              <<Plain("completed", "none", 0)>>
                /\ final' = FinalResponse
                /\ tools' = [p \in DOMAIN tools |-> [tools[p] EXCEPT !.done = TRUE]]
           ELSE /\ pending' = Append(closing, Plain("failed", "none", 0))
                /\ UNCHANGED <<final, tools>>
        /\ UNCHANGED <<upstream, nextIndex, thought, stopReason, driver, client>>

\* metadata is the last event of the protocol: the stream ends with it.
Metadata == Receiving /\ phase = "stopped" /\ Finish(Started) /\ started' = TRUE

UpstreamEof == Receiving /\ Finish(<<>>) /\ UNCHANGED started

\* Faulty: a stream that never started fails without a terminal event.
FailIfStarted ==
    /\ Receiving
    /\ finalized' = TRUE
    /\ pending' = IF started THEN <<Plain("failed", "none", 0)>> ELSE <<>>
    /\ UNCHANGED <<upstream, started, nextIndex, message, reasoning, thought,
                   tools, stopReason, final, driver, client>>

\* A receiver error and an idle timeout both end in one response.failed;
\* items that were open stay as they are.
Fail ==
    /\ Receiving
    /\ finalized' = TRUE
    /\ pending' = <<Plain("failed", "none", 0)>>
    /\ UNCHANGED <<upstream, started, nextIndex, message, reasoning, thought,
                   tools, stopReason, final, driver, client>>

UpstreamError == Fail
IdleTimeout   == Fail
-----------------------------------------------------------------------------
(* The driver yields, the client reads *)

WireKind(k) == IF k \in {"message", "reasoning", "summary"} THEN "content"
               ELSE IF k \in LateKinds THEN "late_call" ELSE "call"

PhaseAfter == [Added |-> "added", PartAdded |-> "part", TextDone |-> "text_done",
               PartDone |-> "part_done", ArgsDone |-> "args_done", ItemDone |-> "done"]

Put(f, i, v) == [j \in DOMAIN f \cup {i} |-> IF j = i THEN v ELSE f[j]]
Get(f, i) == IF i \in DOMAIN f THEN f[i] ELSE <<>>

Deliver(e) ==
    /\ envelope' = IF e.type = "Created" THEN "created"
                   ELSE IF e.type = "InProgress" THEN "in_progress" ELSE envelope
    /\ item' = IF e.type \in DOMAIN PhaseAfter
               THEN Put(item, e.index, [kind |-> WireKind(e.kind),
                                        phase |-> PhaseAfter[e.type]])
               ELSE item
    /\ terminal' = IF e.type \in Wire!Terminals THEN e.type ELSE terminal
    /\ streamed' = IF e.type = "Delta" /\ e.kind # "summary"
                   THEN Put(streamed, e.index, Get(streamed, e.index) \o e.text)
                   ELSE streamed
    /\ doneText' = IF e.type = "TextDone" THEN Put(doneText, e.index, e.text)
                   ELSE doneText
    /\ lastDone' = IF e.type = "ItemDone" /\ e.kind \in DOMAIN lastDone
                   THEN [lastDone EXCEPT ![e.kind] = [text |-> e.text, env |-> e.env]]
                   ELSE lastDone

\* The driver leaves its loop after the last event of a finalized stream.
Yield ==
    /\ driver = "running" /\ pending # <<>>
    /\ Deliver(Head(pending))
    /\ pending' = Tail(pending)
    /\ driver' = IF finalized /\ Tail(pending) = <<>> THEN "ended" ELSE driver
    /\ UNCHANGED <<upstream, machine>>

\* The client goes away: the generator is dropped at its await or its yield.
ClientDrop ==
    /\ driver = "running"
    /\ driver' = "dropped" /\ pending' = <<>>
    /\ UNCHANGED <<upstream, machine, client>>
-----------------------------------------------------------------------------
UpstreamEvent ==
    \/ MessageStart
    \/ \E b \in Blocks : ContentBlockStart(b) \/ ToolBlockStart(b)
    \/ \E b \in Blocks : TextDelta(b) \/ EmptyReasoningText(b) \/ ReasoningText(b)
    \/ \E b \in Blocks : ReasoningSignature(b) \/ ReasoningRedacted(b) \/ ToolInput(b)
    \/ \E b \in Blocks : ContentBlockStop(b)
    \/ MessageStop
    \/ Metadata
    \/ UpstreamEof
    \/ UpstreamError

Next == UpstreamEvent \/ IdleTimeout \/ Yield \/ ClientDrop

Spec == Init /\ [][Next]_vars

\* hyper polls the body, so yields happen; tokio's timer fires when the
\* upstream stays silent.  Nothing is assumed of the upstream or the client.
Fairness == WF_vars(Yield) /\ WF_vars(IdleTimeout)

FairSpec == Spec /\ Fairness
-----------------------------------------------------------------------------
(* Properties *)

Texts == Seq(Fragments)
Item == [open : BOOLEAN, index : Nat, text : Texts]
Tool == [block : Blocks, kind : ToolKinds, args : ArgStates, index : Nat,
         closed : BOOLEAN, done : BOOLEAN]
Block == [kind : BlockKinds, stage : {"idle", "open", "stopped"},
          sent : 0 .. MaxFragments, text : SUBSET Fragments, args : ArgStates,
          late : BOOLEAN]
Thought == [text : Texts, seen : {"none", "signature", "redacted"}]
Response == [status : {"none", "completed", "incomplete"},
             reasoning : [text : Texts, env : SUBSET Blocks], message : Texts,
             tools : SUBSET [index : Nat, status : {"none", "completed"}]]
EventTypes == DOMAIN PhaseAfter \cup {"Created", "InProgress", "Delta"} \cup Wire!Terminals
EventKinds == {"none", "message", "reasoning", "summary"} \cup AllToolKinds
Event == [type : EventTypes, kind : EventKinds, index : Nat, text : Texts,
          env : SUBSET Blocks]

\* Type invariant: every part of the gateway's state keeps its shape.
TypeOK ==
    /\ phase \in {"init", "body", "stopped"}
    /\ blk \in [Blocks -> Block]
    /\ started \in BOOLEAN /\ finalized \in BOOLEAN
    /\ nextIndex \in Nat
    /\ message \in Item /\ reasoning \in Item
    /\ thought \in [Blocks -> Thought]
    /\ tools \in Seq(Tool)
    /\ stopReason \in StopReasons \cup {"none"}
    /\ final \in Response
    /\ driver \in {"running", "ended", "dropped"}
    /\ pending \in Seq(Event)

IsCall(i) == item[i].kind \in Wire!CallKinds
CallDone(i) == IsCall(i) /\ item[i].phase = "done"
Answered == terminal \in {"completed", "incomplete"}

\* Once the client holds one executable call, every call the upstream began
\* is whole: its block was stopped, its input parses, and the answer was
\* neither truncated nor filtered (finalize_closed_tools, finish).
ExecutableOnlyWhenWhole ==
    (\E i \in DOMAIN item : CallDone(i)) =>
        /\ ~ IsIncompleteStop
        /\ \A b \in Blocks :
              blk[b].kind \in ToolKinds /\ blk[b].stage # "idle" =>
                  blk[b].stage = "stopped" /\ ParsesAsJson(blk[b].args)

\* The fragments of each block together, the blocks by their indices.
ByBlock(txt) == Joined([b \in Blocks |-> Among(txt, FragmentsOf(b))])

\* A reasoning block got text after a later one had.
ReasoningOverlaps == \E b \in Blocks : blk[b].kind = "reasoning" /\ blk[b].late

\* The Response in the terminal event is rebuilt from accumulators of its own.
\* It has the last message, the sealed envelope of the last reasoning item and,
\* on completion, exactly the calls done.  Its reasoning text is that of the
\* last reasoning item, which is in the order of arrival, regrouped by block:
\* the same text, unless the upstream went back to an earlier block.
FinalAgreesWithStream ==
    Answered =>
        /\ lastDone.message.text = final.message
        /\ lastDone.reasoning.env = final.reasoning.env
        /\ final.reasoning.text = ByBlock(lastDone.reasoning.text)
        /\ ~ ReasoningOverlaps => final.reasoning.text = lastDone.reasoning.text
        /\ terminal = "completed" =>
              {i \in DOMAIN item : CallDone(i)} = {t.index : t \in final.tools}

\* Inside one item no fragment comes twice, and those of a block in its order.
InOrder(txt) ==
    \A m, n \in DOMAIN txt : m < n /\ txt[m][1] = txt[n][1] => txt[m][2] < txt[n][2]

\* Every fragment the upstream sent reaches an answered client in the deltas
\* of exactly one item, once and in order, however often items were closed and
\* reopened.
NoFragmentLostOrRepeated ==
    Answered =>
        /\ UNION {Range(streamed[i]) : i \in DOMAIN streamed} = UNION {blk[b].text : b \in Blocks}
        /\ \A i, j \in DOMAIN streamed :
              i # j => Range(streamed[i]) \cap Range(streamed[j]) = {}
        /\ \A i \in DOMAIN streamed : InOrder(streamed[i])

\* The delivered events follow the documented lifecycle.
LifecycleHolds == Wire!WireSpec

\* Every stream ends: with one typed terminal event, or because the client
\* left (the idle timeout covers an upstream that falls silent).
EveryStreamEnds == <>(terminal # "none" \/ driver = "dropped")

\* The accumulators mirror the tool blocks of the upstream, one for one.
ToolsAgree ==
    /\ \A p \in DOMAIN tools :
          LET b == tools[p].block
          IN  /\ blk[b].stage # "idle"
              /\ blk[b].kind = tools[p].kind
              /\ blk[b].args = tools[p].args
              /\ tools[p].closed => blk[b].stage = "stopped"
    /\ \A p, q \in DOMAIN tools : tools[p].block = tools[q].block => p = q
    /\ \A b \in Blocks :
          blk[b].kind \in ToolKinds /\ blk[b].stage # "idle" =>
              \E p \in DOMAIN tools : tools[p].block = b
    /\ \A b \in Blocks : blk[b].stage = "idle" => blk[b].args = "empty"

\* The event that makes a call executable, and when it may be on its way.
CallDoneEvent(e) == e.type = "ItemDone" /\ WireKind(e.kind) \in Wire!CallKinds

WholeBatch == finalized /\ ~ IsIncompleteStop /\ ToolsReady

OnlyWholeBatches ==
    /\ (\E n \in DOMAIN pending : CallDoneEvent(pending[n])) => WholeBatch
    /\ (\E i \in DOMAIN item : CallDone(i)) => WholeBatch

\* Inductive: what ExecutableOnlyWhenWhole rests on.
StreamInv == TypeOK /\ ToolsAgree /\ OnlyWholeBatches

\* Documented, and not what the code does (see the README's findings).

\* docs/openai-protocol-compatibility.md: "an unfinished tool input must never
\* be marked completed" -- also not inside the Response of the terminal event.
UnfinishedNeverMarkedCompleted ==
    terminal # "none" =>
        \A t \in final.tools : t.status = "completed" =>
            t.index \in DOMAIN item /\ CallDone(t.index)

\* Head of responses_stream.rs: a call is done "only after a successful
\* messageStop".
CallDoneOnlyAfterMessageStop ==
    (\E i \in DOMAIN item : CallDone(i)) => phase = "stopped"

\* close_reasoning_item: "Text-bearing done events are emitted only when text
\* was streamed" for the item that closes.
TextDoneOnlyIfStreamed ==
    \A i \in DOMAIN doneText : doneText[i] # <<>> => Get(streamed, i) # <<>>
=============================================================================
