---------------------------- MODULE ChatStream ----------------------------
(***************************************************************************)
(* The Converse lane of POST /v1/chat/completions with stream = true: the  *)
(* state machine that turns one Bedrock ConverseStream into chat chunks    *)
(* with inline <think> tags and, when the capsule encoder is on, tool call *)
(* ids that carry the reasoning of the turn (bedrock/stream.rs); the       *)
(* provider stream that drives it; the router that writes the chunks and   *)
(* the final [DONE] (server/routers/mod.rs); the client that reads them.   *)
(*                                                                         *)
(* Text is a set of fragments <<block, ordinal>>.                          *)
(***************************************************************************)
EXTENDS Integers, FiniteSets

CONSTANTS
    Blocks,        \* contentBlockIndex values the upstream may use
    MaxFragments   \* bound: fragments the upstream sends in one block

ASSUME BlocksAssumption == Blocks \subseteq Nat /\ IsFiniteSet(Blocks)
ASSUME MaxFragmentsAssumption == MaxFragments \in Nat

VARIABLES
    capsule,        \* is the capsule encoder on
    \* Upstream.
    phase,          \* "init", "body", "stopped", "metered"
    blk,            \* block -> [kind, stage, sent, text, seal]
    \* StreamState.
    thinkEmitted,
    toolMeta,       \* block -> tool index, or Unknown
    nextToolIndex,
    reasoningTokens,
    accum,          \* reasoning_by_block: block -> accumulator, or Absent
    reasoningBlocks,\* sealed blocks, by index
    incomplete,     \* incomplete_reasoning
    toolUseSeen,
    \* The provider stream and the item it handed to the router.
    driver,         \* "running", "ended"
    slot,
    \* The router.
    router,         \* "forwarding", "failed", "done", "dropped"
    \* The client.
    inThink,        \* parsing between <think> and </think>
    inside, outside,\* content read inside and outside of the tags
    calls,          \* tool index -> [announced, block, capsule, args]
    finish,         \* finish_reason received
    usage           \* reasoning_tokens of the usage chunk, or Unknown

upstream == <<phase, blk>>
thinking == <<accum, reasoningBlocks, incomplete>>
client   == <<inThink, inside, outside, calls, finish, usage>>
vars == <<capsule, upstream, thinkEmitted, toolMeta, nextToolIndex,
          reasoningTokens, thinking, toolUseSeen, driver, slot, router, client>>
-----------------------------------------------------------------------------
(* Data *)

Unknown == -1
Seals   == {"none", "signature", "redacted"}
Fragments == Blocks \X (1 .. MaxFragments)

\* ReasoningBlockAccum: the text, whether text was seen, and the seal.
Accum  == [text : SUBSET Fragments, textSeen : BOOLEAN, seal : Seals]
Absent == [text |-> {}, textSeen |-> FALSE, seal |-> "none"]

\* A block as a capsule carries it.
Sealed == [block : Blocks, text : SUBSET Fragments, seal : Seals \ {"none"}]

\* One chunk; only the fields of its kind are set.
Blank == [kind |-> "role", opens |-> FALSE, closes |-> FALSE, text |-> {},
          index |-> Unknown, block |-> Unknown, capsule |-> {},
          stop |-> FALSE, tokens |-> 0]
Failure == [Blank EXCEPT !.kind = "failure"]
Empty   == [Blank EXCEPT !.kind = "empty"]
Kinds   == {"role", "content", "call", "args", "stop", "usage", "failure", "empty"}

NoCall == [announced |-> FALSE, block |-> Unknown, capsule |-> {}, args |-> {}]
-----------------------------------------------------------------------------
Init ==
    /\ capsule \in BOOLEAN
    /\ phase = "init"
    /\ blk = [b \in Blocks |->
                 [kind |-> "text", stage |-> "idle", sent |-> 0, text |-> {},
                  seal |-> "none"]]
    /\ thinkEmitted = FALSE
    /\ toolMeta = [b \in Blocks |-> Unknown]
    /\ nextToolIndex = 0
    /\ reasoningTokens = 0
    /\ accum = [b \in Blocks |-> Absent]
    /\ reasoningBlocks = {}
    /\ incomplete = FALSE
    /\ toolUseSeen = FALSE
    /\ driver = "running"
    /\ slot = Empty
    /\ router = "forwarding"
    /\ inThink = FALSE /\ inside = {} /\ outside = {}
    /\ calls = [i \in {} |-> NoCall]
    /\ finish = FALSE
    /\ usage = Unknown
-----------------------------------------------------------------------------
(* What the upstream may send: blocks are numbered in the order they start,*)
(* may overlap and may never be stopped; the text of a reasoning block     *)
(* comes before its signature; messageStop comes once and only metadata    *)
(* follows it.  The stream may end or fail at any point.                   *)

\* The provider stream is polled only when the router has taken the last item.
Receiving == driver = "running" /\ router = "forwarding" /\ slot = Empty

Body == Receiving /\ phase = "body"

Open(b, kind) == Body /\ blk[b].stage = "open" /\ blk[b].kind = kind

Fragment(b, kind) ==
    /\ Open(b, kind)
    /\ blk[b].seal = "none" /\ blk[b].sent < MaxFragments

\* A text fragment may be empty.
TextOf(b) == { {}, {<<b, blk[b].sent + 1>>} }

Sent(b, txt) == blk' = [blk EXCEPT ![b].sent = @ + 1, ![b].text = @ \cup txt]

Opened(b, k) ==
    /\ Body
    /\ blk[b].stage = "idle" /\ \A c \in Blocks : c < b => blk[c].stage # "idle"
    /\ blk' = [blk EXCEPT ![b].stage = "open", ![b].kind = k]

Emit(chunk) == slot' = chunk /\ UNCHANGED <<driver, router, client, capsule>>
Quiet       == UNCHANGED <<slot, driver, router, client, capsule>>

\* yield Err(error); break
Fail == slot' = Failure /\ driver' = "ended"
        /\ UNCHANGED <<router, client, capsule>>
-----------------------------------------------------------------------------
(* Reasoning blocks *)

IsPending(b) == accum[b].textSeen \/ accum[b].seal # "none"
Pending == {b \in Blocks : IsPending(b)}
Completed(S) == {b \in S : accum[b].seal # "none"}

\* finalize_reasoning_block for every block of S: what is sealed is kept,
\* content without a seal makes the turn incomplete.
Finalize(S) ==
    /\ reasoningBlocks' = reasoningBlocks \cup
           {[block |-> b, text |-> accum[b].text, seal |-> accum[b].seal] :
                b \in Completed(S)}
    /\ incomplete' = (incomplete \/ S # Completed(S))
    /\ accum' = [b \in Blocks |-> IF b \in S THEN Absent ELSE accum[b]]
-----------------------------------------------------------------------------
(* Tool indices *)

\* Faulty: the counter moves before it is read.
PreIncremented(b) ==
    IF toolMeta[b] # Unknown THEN toolMeta[b] ELSE nextToolIndex + 1

\* Faulty: every fragment is taken for a new call.
AlwaysFresh(b) == nextToolIndex

ToolIndexFor(b) == IF toolMeta[b] # Unknown THEN toolMeta[b] ELSE nextToolIndex

Allocate(b) ==
    /\ toolMeta' = [toolMeta EXCEPT ![b] = ToolIndexFor(b)]
    /\ nextToolIndex' = IF toolMeta[b] = Unknown THEN nextToolIndex + 1
                        ELSE nextToolIndex
-----------------------------------------------------------------------------
(* map_event: one action per upstream event *)

MessageStart ==
    /\ Receiving /\ phase = "init"
    /\ phase' = "body"
    /\ Emit(Blank)
    /\ UNCHANGED <<blk, thinkEmitted, toolMeta, nextToolIndex, reasoningTokens,
                   thinking, toolUseSeen>>

\* The start of a block that is no tool call is inert.
ContentBlockStart(b) ==
    /\ \E k \in {"text", "reasoning"} : Opened(b, k)
    /\ Quiet
    /\ UNCHANGED <<phase, thinkEmitted, toolMeta, nextToolIndex, reasoningTokens,
                   thinking, toolUseSeen>>

CallChunk(b, blocks) ==
    [Blank EXCEPT !.kind = "call", !.index = ToolIndexFor(b), !.block = b,
                  !.capsule = blocks]

\* Faulty: only blocks that were stopped are finalized.
ToolUseStartStoppedOnly(b) ==
    /\ Opened(b, "tool") /\ Allocate(b)
    /\ UNCHANGED <<phase, thinkEmitted, reasoningTokens, thinking>>
    /\ IF capsule /\ incomplete THEN Fail /\ UNCHANGED toolUseSeen
       ELSE /\ toolUseSeen' = (toolUseSeen \/ capsule)
            /\ \/ Emit(CallChunk(b, reasoningBlocks))
               \/ reasoningBlocks # {} /\ Fail

\* The start of a tool call bounds the reasoning of the turn: pending blocks
\* are finalized, and the call's id must carry all of them.  encode_capsule
\* fails when the id would be too long for the wire.
ToolUseStart(b) ==
    /\ Opened(b, "tool") /\ Allocate(b)
    /\ UNCHANGED <<phase, thinkEmitted, reasoningTokens>>
    /\ \/ /\ ~ capsule
          /\ Emit(CallChunk(b, {}))
          /\ UNCHANGED <<thinking, toolUseSeen>>
       \/ /\ capsule /\ Finalize(Pending) /\ incomplete'
          /\ Fail
          /\ UNCHANGED toolUseSeen
       \/ /\ capsule /\ Finalize(Pending) /\ ~ incomplete'
          /\ toolUseSeen' = TRUE
          /\ \/ Emit(CallChunk(b, reasoningBlocks'))
             \/ reasoningBlocks' # {} /\ Fail

\* Faulty: the open tag is forgotten.
TextDeltaUnclosed(b) ==
    \E txt \in TextOf(b) :
        /\ Fragment(b, "text") /\ Sent(b, txt)
        /\ Emit([Blank EXCEPT !.kind = "content", !.text = txt])
        /\ UNCHANGED <<phase, thinkEmitted, toolMeta, nextToolIndex,
                       reasoningTokens, thinking, toolUseSeen>>

TextDelta(b) ==
    \E txt \in TextOf(b) :
        /\ Fragment(b, "text") /\ Sent(b, txt)
        /\ Emit([Blank EXCEPT !.kind = "content", !.closes = thinkEmitted,
                              !.text = txt])
        /\ thinkEmitted' = FALSE
        /\ UNCHANGED <<phase, toolMeta, nextToolIndex, reasoningTokens,
                       thinking, toolUseSeen>>

\* Reasoning after a tool call cannot be carried by an id already sent.
Interleaved == capsule /\ toolUseSeen

\* accumulate_reasoning_delta, when the encoder is on.
Accumulate(b, new) ==
    /\ accum' = [accum EXCEPT ![b] = IF capsule THEN new ELSE @]
    /\ UNCHANGED <<reasoningBlocks, incomplete>>

\* Whether it is text, a signature or a redacted payload.
InterleavedReasoning(b) ==
    /\ Interleaved
    /\ Open(b, "reasoning") /\ blk[b].seal = "none"
    /\ \/ blk[b].sent < MaxFragments /\ \E txt \in TextOf(b) : Sent(b, txt)
       \/ \E seal \in {"signature", "redacted"} :
             /\ seal = "redacted" => blk[b].sent = 0
             /\ blk' = [blk EXCEPT ![b].seal = seal]
    /\ Fail
    /\ UNCHANGED <<phase, thinkEmitted, toolMeta, nextToolIndex, reasoningTokens,
                   thinking, toolUseSeen>>

\* Faulty: only the fragment that opens the tag is counted.
CountOpening(txt) == IF thinkEmitted THEN 0 ELSE Cardinality(txt)

\* estimate_reasoning_tokens: one token a fragment, none for an empty one.
CountTokens(txt) == Cardinality(txt)

ReasoningText(b) ==
    \E txt \in TextOf(b) :
        /\ ~ Interleaved
        /\ Fragment(b, "reasoning") /\ Sent(b, txt)
        /\ Accumulate(b, [text |-> accum[b].text \cup txt, textSeen |-> TRUE,
                          seal |-> accum[b].seal])
        /\ reasoningTokens' = reasoningTokens + CountTokens(txt)
        /\ Emit([Blank EXCEPT !.kind = "content", !.opens = ~ thinkEmitted,
                              !.text = txt])
        /\ thinkEmitted' = TRUE
        /\ UNCHANGED <<phase, toolMeta, nextToolIndex, toolUseSeen>>

\* A signature closes the tag; a redacted payload is not shown.
ReasoningSeal(b, seal) ==
    /\ ~ Interleaved
    /\ Open(b, "reasoning") /\ blk[b].seal = "none"
    /\ seal = "redacted" => blk[b].sent = 0
    /\ blk' = [blk EXCEPT ![b].seal = seal]
    /\ Accumulate(b, [accum[b] EXCEPT !.seal = seal])
    /\ IF seal = "signature" /\ thinkEmitted
       THEN /\ Emit([Blank EXCEPT !.kind = "content", !.closes = TRUE])
            /\ thinkEmitted' = FALSE
       ELSE Quiet /\ UNCHANGED thinkEmitted
    /\ UNCHANGED <<phase, toolMeta, nextToolIndex, reasoningTokens, toolUseSeen>>

ToolInput(b) ==
    /\ Fragment(b, "tool")
    /\ LET txt == {<<b, blk[b].sent + 1>>}
       IN  /\ Sent(b, txt)
           /\ Emit([Blank EXCEPT !.kind = "args", !.index = ToolIndexFor(b),
                                 !.text = txt])
    /\ Allocate(b)
    /\ UNCHANGED <<phase, thinkEmitted, reasoningTokens, thinking, toolUseSeen>>

ContentBlockStop(b) ==
    /\ Body /\ blk[b].stage = "open"
    /\ blk' = [blk EXCEPT ![b].stage = "stopped"]
    /\ IF capsule THEN Finalize({b} \cap Pending) ELSE UNCHANGED thinking
    /\ Quiet
    /\ UNCHANGED <<phase, thinkEmitted, toolMeta, nextToolIndex, reasoningTokens,
                   toolUseSeen>>

\* Faulty: the tag is left open.
MessageStopUnclosed ==
    /\ Body
    /\ phase' = "stopped"
    /\ Emit([Blank EXCEPT !.kind = "stop", !.stop = TRUE])
    /\ UNCHANGED <<blk, thinkEmitted, toolMeta, nextToolIndex, reasoningTokens,
                   thinking, toolUseSeen>>

\* An open tag is closed in the chunk that carries the finish reason.
MessageStop ==
    /\ Body
    /\ phase' = "stopped"
    /\ Emit([Blank EXCEPT !.kind = "stop", !.closes = thinkEmitted, !.stop = TRUE])
    /\ thinkEmitted' = FALSE
    /\ UNCHANGED <<blk, toolMeta, nextToolIndex, reasoningTokens, thinking,
                   toolUseSeen>>

\* The usage chunk is for requests that set include_usage, which is read
\* nowhere else.
Metadata ==
    /\ Receiving /\ phase = "stopped"
    /\ phase' = "metered"
    /\ \/ Emit([Blank EXCEPT !.kind = "usage", !.tokens = reasoningTokens])
       \/ Quiet
    /\ UNCHANGED <<blk, thinkEmitted, toolMeta, nextToolIndex, reasoningTokens,
                   thinking, toolUseSeen>>

\* Ok(None) => break: nothing asks whether the message was stopped.
UpstreamEof ==
    /\ Receiving
    /\ driver' = "ended"
    /\ UNCHANGED <<capsule, upstream, thinkEmitted, toolMeta, nextToolIndex,
                   reasoningTokens, thinking, toolUseSeen, slot, router, client>>

UpstreamError ==
    /\ Receiving
    /\ Fail
    /\ UNCHANGED <<upstream, thinkEmitted, toolMeta, nextToolIndex,
                   reasoningTokens, thinking, toolUseSeen>>
-----------------------------------------------------------------------------
(* The router and the client *)

provider == <<capsule, upstream, thinkEmitted, toolMeta, nextToolIndex,
              reasoningTokens, thinking, toolUseSeen, driver>>

Call(i) == IF i \in DOMAIN calls THEN calls[i] ELSE NoCall

WithCall(i, call) ==
    [j \in DOMAIN calls \cup {i} |-> IF j = i THEN call ELSE calls[j]]

\* What a chat client makes of one chunk: it tracks the tags, assembles tool
\* calls by index and keeps the finish reason and the usage.
Read(c) ==
    LET thinks == IF c.opens THEN TRUE ELSE IF c.closes THEN FALSE ELSE inThink
    IN  /\ inThink' = thinks
        /\ inside'  = IF c.kind = "content" /\ thinks THEN inside \cup c.text ELSE inside
        /\ outside' = IF c.kind = "content" /\ ~ thinks THEN outside \cup c.text ELSE outside
        /\ calls' =
             IF c.kind = "call"
             THEN WithCall(c.index, [announced |-> TRUE, block |-> c.block,
                                     capsule |-> c.capsule, args |-> {}])
             ELSE IF c.kind = "args"
             THEN WithCall(c.index, [Call(c.index) EXCEPT !.args = @ \cup c.text])
             ELSE calls
        /\ finish' = (finish \/ c.stop)
        /\ usage' = IF c.kind = "usage" THEN c.tokens ELSE usage

Forward ==
    /\ router = "forwarding" /\ slot \notin {Empty, Failure}
    /\ Read(slot)
    /\ slot' = Empty
    /\ UNCHANGED <<provider, router>>

\* The error envelope is written and the loop is left.
ForwardError ==
    /\ router = "forwarding" /\ slot = Failure
    /\ router' = "failed" /\ slot' = Empty
    /\ UNCHANGED <<provider, client>>

\* Faulty: a failed stream is truncated, as the raw lane does.
SendDoneIfClean ==
    /\ router = "forwarding" /\ driver = "ended" /\ slot = Empty
    /\ router' = "done"
    /\ UNCHANGED <<provider, slot, client>>

\* data: [DONE] ends every stream, failed or not.
SendDone ==
    /\ slot = Empty
    /\ router = "failed" \/ (router = "forwarding" /\ driver = "ended")
    /\ router' = "done"
    /\ UNCHANGED <<provider, slot, client>>

\* A disconnect drops the body between two polls; within a poll an item goes
\* from the provider stream to the connection.
ClientDrop ==
    /\ slot = Empty
    /\ router \in {"forwarding", "failed"}
    /\ router' = "dropped"
    /\ UNCHANGED <<provider, slot, client>>

Next ==
    \/ MessageStart
    \/ \E b \in Blocks :
          \/ ContentBlockStart(b) \/ ToolUseStart(b)
          \/ TextDelta(b) \/ ReasoningText(b) \/ InterleavedReasoning(b)
          \/ ReasoningSeal(b, "signature") \/ ReasoningSeal(b, "redacted")
          \/ ToolInput(b) \/ ContentBlockStop(b)
    \/ MessageStop \/ Metadata
    \/ UpstreamEof \/ UpstreamError
    \/ Forward \/ ForwardError \/ SendDone
    \/ ClientDrop

Spec == Init /\ [][Next]_vars

\* The server polls the body stream of a connection it still writes to; what
\* the upstream sends, and when it ends, is nobody's promise here.
Fairness == WF_vars(Forward \/ ForwardError \/ SendDone)
FairSpec == Spec /\ Fairness
-----------------------------------------------------------------------------
(* Properties *)

Block == [kind : {"text", "reasoning", "tool"},
          stage : {"idle", "open", "stopped"}, sent : 0 .. MaxFragments,
          text : SUBSET Fragments, seal : Seals]

Chunk == [kind : Kinds, opens : BOOLEAN, closes : BOOLEAN,
          text : SUBSET Fragments, index : Nat \cup {Unknown},
          block : Blocks \cup {Unknown}, capsule : SUBSET Sealed,
          stop : BOOLEAN, tokens : Nat]

ClientCall == [announced : BOOLEAN, block : Blocks, capsule : SUBSET Sealed,
               args : SUBSET Fragments]

ToolBlocks == {b \in Blocks : toolMeta[b] # Unknown}

\* Every variable has its type, and the tool indices handed out are the
\* contiguous 0, 1, 2, ... of tool_index_for, one to each block.
TypeOK ==
    /\ capsule \in BOOLEAN
    /\ phase \in {"init", "body", "stopped", "metered"}
    /\ blk \in [Blocks -> Block]
    /\ accum \in [Blocks -> Accum]
    /\ thinkEmitted \in BOOLEAN /\ incomplete \in BOOLEAN /\ toolUseSeen \in BOOLEAN
    /\ toolMeta \in [Blocks -> Nat \cup {Unknown}]
    /\ nextToolIndex = Cardinality(ToolBlocks)
    /\ {toolMeta[b] : b \in ToolBlocks} = 0 .. nextToolIndex - 1
    /\ reasoningTokens \in Nat
    /\ reasoningBlocks \subseteq Sealed
    /\ driver \in {"running", "ended"}
    /\ router \in {"forwarding", "failed", "done", "dropped"}
    /\ slot \in Chunk
    /\ inThink \in BOOLEAN /\ finish \in BOOLEAN
    /\ inside \subseteq Fragments /\ outside \subseteq Fragments
    /\ DOMAIN calls \subseteq Nat /\ calls \in [DOMAIN calls -> ClientCall]
    /\ usage \in Nat \cup {Unknown}

Shown(kind) == UNION {blk[b].text : b \in {c \in Blocks : blk[c].kind = kind}}

\* A client that hides what is between the tags shows the answer and nothing
\* else: whatever the order of text, reasoning, signatures and tool calls, no
\* fragment of reasoning is ever read outside of the tags and no fragment of
\* the answer inside, and neither is lost on the way.
TagsSeparateReasoning ==
    /\ inside \subseteq Shown("reasoning") /\ outside \subseteq Shown("text")
    /\ (Receiving => inside = Shown("reasoning") /\ outside = Shown("text"))

\* A client that assembles the calls by index gets every tool block exactly
\* once, announced before its input, at contiguous indices, with the input of
\* that block and of no other.
CallsReassemble ==
    /\ \A i \in DOMAIN calls :
          /\ calls[i].announced /\ i \in 0 .. Cardinality(DOMAIN calls) - 1
          /\ calls[i].args \subseteq blk[calls[i].block].text
          /\ Receiving => calls[i].args = blk[calls[i].block].text
    /\ \A i, j \in DOMAIN calls : calls[i].block = calls[j].block => i = j

\* Everything the upstream reasoned so far, as a capsule should carry it.
Reasoned ==
    {[block |-> b, text |-> blk[b].text, seal |-> blk[b].seal] :
        b \in {c \in Blocks : /\ blk[c].kind = "reasoning"
                              /\ blk[c].sent > 0 \/ blk[c].seal # "none"}}

FailedStream == slot = Failure \/ router = "failed"

\* As long as the stream has not failed, the id of each tool call the client
\* holds carries all reasoning of the turn, sealed: replaying any of them on
\* the next turn loses nothing, even when a block was never stopped.
CapsuleCarriesReasoning ==
    (capsule /\ router = "forwarding" /\ ~ FailedStream) =>
        \A i \in DOMAIN calls : calls[i].capsule = Reasoned

\* The reasoning tokens a client is billed for in the usage chunk are those of
\* the reasoning it was shown.
UsageCountsReasoning == usage # Unknown => usage = Cardinality(inside)

\* The client's view as an abstract chat stream: nothing but the role comes
\* before the body, and the client leaves it where it was when it leaves.
Stage ==
    IF router \in {"done", "dropped"} THEN "ended"
    ELSE IF router = "failed" THEN "failed"
    ELSE IF usage # Unknown THEN "metered"
    ELSE IF finish THEN "finished"
    ELSE IF phase = "init" \/ slot.kind = "role" THEN "new"
    ELSE "body"
Delivered == Cardinality(inside) + Cardinality(outside)
Argued    == [i \in DOMAIN calls |-> Cardinality(calls[i].args)]
Wire == INSTANCE ChatWire WITH
            stage <- Stage, think <- inThink, shown <- Delivered, args <- Argued

\* The Converse lane keeps the protocol of a chat stream.
WireHolds == Wire!Spec

\* Once the provider stream ended, cleanly or not, a connected client gets the
\* [DONE] that compatible clients wait for.
DoneFollowsEnd == driver = "ended" ~> router \in {"done", "dropped"}
-----------------------------------------------------------------------------
(* The inductive invariant *)

\* Nothing has failed on the way to the client.
Healthy == router = "forwarding" /\ slot.kind # "failure"

\* What a block has sent and what is accumulated of it.
BlocksFit ==
    \A b \in Blocks :
       /\ blk[b].text \subseteq {b} \X (1 .. blk[b].sent)
       /\ blk[b].stage = "idle" =>
             blk[b].kind = "text" /\ blk[b].sent = 0 /\ blk[b].seal = "none"
       /\ toolMeta[b] # Unknown <=> blk[b].kind = "tool"
       /\ ~ IsPending(b) => accum[b].text = {}

\* The item on its way to the router fits the state that produced it.
SlotFits ==
    /\ slot.kind = "empty" <=> slot = Empty
    /\ slot.kind = "failure" <=> slot = Failure
    /\ slot.kind = "failure" => router = "forwarding" /\ driver = "ended"
    /\ router # "forwarding" => slot = Empty
    /\ router = "failed" => driver = "ended"
    /\ slot.opens => slot.kind = "content"
    /\ slot.closes => slot.kind \in {"content", "stop"}
    /\ slot.stop <=> slot.kind = "stop"
    /\ slot.kind = "call" =>
          /\ slot.block \in Blocks /\ blk[slot.block].text = {}
          /\ slot.index = nextToolIndex - 1 /\ slot.index # Unknown
          /\ toolMeta[slot.block] = slot.index
    /\ slot.kind = "args" =>
          \E b \in Blocks : /\ toolMeta[b] = slot.index /\ slot.index # Unknown
                            /\ slot.text = {<<b, blk[b].sent>>}

\* What the client may have been told in each phase of the upstream.
PhaseFits ==
    /\ phase = "init" =>
          slot.kind \in {"empty", "failure"} /\ ~ finish /\ usage = Unknown
    /\ phase = "body" =>
          slot.kind \notin {"stop", "usage"} /\ ~ finish /\ usage = Unknown
    /\ phase = "stopped" =>
          /\ slot.kind \in {"stop", "empty", "failure"} /\ usage = Unknown
          /\ slot.kind = "stop" => ~ finish
          /\ Healthy => finish \/ slot.kind = "stop"
    /\ phase = "metered" =>
          /\ slot.kind \in {"usage", "empty", "failure"}
          /\ slot.kind = "usage" => usage = Unknown /\ finish

\* The client will have the tag open when the stream has it open.
ThinkFits ==
    /\ Healthy => (slot.opens \/ (~ slot.closes /\ inThink)) = thinkEmitted
    /\ slot.kind = "stop" => ~ thinkEmitted

\* The text that the next chunk brings.
Arriving == IF slot.kind = "content" THEN slot.text ELSE {}

\* With the text on its way, the client has what was sent, each on its side.
TextFits ==
    /\ inside \subseteq Shown("reasoning") /\ outside \subseteq Shown("text")
    /\ Healthy =>
          /\ Shown("reasoning") = inside \cup (IF thinkEmitted THEN Arriving ELSE {})
          /\ Shown("text") = outside \cup (IF thinkEmitted THEN {} ELSE Arriving)

\* The tokens counted are those of the reasoning sent.
TokensFit ==
    /\ Healthy => reasoningTokens = Cardinality(Shown("reasoning"))
    /\ slot.kind = "usage" => slot.tokens = Cardinality(inside)
    /\ usage # Unknown => phase = "metered" /\ usage = Cardinality(inside)

\* With the chunk on its way, the client has every call and its input.
CallsFit ==
    /\ DOMAIN calls = 0 .. Cardinality(DOMAIN calls) - 1
    /\ Healthy =>
          DOMAIN calls =
              0 .. (IF slot.kind = "call" THEN nextToolIndex - 2 ELSE nextToolIndex - 1)
    /\ \A i \in DOMAIN calls :
          /\ calls[i].announced
          /\ toolMeta[calls[i].block] = i
          /\ calls[i].args \subseteq blk[calls[i].block].text
          /\ Healthy =>
                blk[calls[i].block].text =
                    calls[i].args \cup
                    (IF slot.kind = "args" /\ slot.index = i THEN slot.text ELSE {})
          /\ slot.kind = "args" /\ slot.index = i => slot.text \cap calls[i].args = {}

\* While no reasoning was lost, each block is accumulated or sealed, and once
\* a call was announced everything is sealed and in its capsule.
CapsuleFits ==
    (capsule /\ Healthy) =>
       /\ ~ toolUseSeen => DOMAIN calls = {} /\ slot.kind # "call"
       /\ toolUseSeen => ~ incomplete /\ Pending = {}
       /\ slot.kind = "call" => slot.capsule = reasoningBlocks
       /\ \A i \in DOMAIN calls : calls[i].capsule = reasoningBlocks
       /\ ~ incomplete =>
             /\ \A b \in Pending :
                   blk[b].kind = "reasoning" /\ accum[b].text = blk[b].text
                   /\ accum[b].textSeen = (blk[b].sent > 0)
                   /\ accum[b].seal = blk[b].seal
             /\ reasoningBlocks = {r \in Reasoned : r.block \notin Pending}

StreamInv ==
    /\ TypeOK /\ BlocksFit /\ SlotFits /\ PhaseFits /\ ThinkFits
    /\ TextFits /\ TokensFit /\ CallsFit /\ CapsuleFits
=============================================================================
