# Bedrock gateway: TLA+ models and proofs

The gateway accepts OpenAI requests (chat completions, completions, Responses,
embeddings, models) and answers them from Amazon Bedrock, through the Converse
API or through a Bedrock "mantle" endpoint that speaks OpenAI already. It keeps
almost nothing between requests. What is hard is inside one answer (three state
machines that turn an upstream event stream into a client event stream), between
two answers (the client hands back what it was given, and the gateway must make
of it what Bedrock will accept), and in the few things requests share (a
negative cache, a catalog, a profile map).

## Inventory

| Part (under `src/src/`) | State it keeps | Operations | What makes it correct |
| --- | --- | --- | --- |
| Responses Converse stream, `bedrock/responses_stream.rs`, `responses_response.rs` | per stream: open message and reasoning item, output indices, tool accumulators, stop reason, `finalized` | one per upstream event, `finish`, `fail`, idle timeout, drop | documented lifecycle on the wire; executable calls only from a whole answer; terminal event agrees with the stream; always ends |
| Chat Converse stream, `bedrock/stream.rs`, and `sse_response` in `server/routers/mod.rs` | per stream: open `<think>`, tool indices, reasoning blocks, capsule flags | one per upstream event; write chunk, error, `[DONE]` | tags separate reasoning from the answer; calls reassemble; call ids carry the reasoning |
| Responses-to-chat adapter, `bedrock/responses_chat_provider.rs` | per stream: frame decoder, reasoning items, tool arguments, terminal | one per SSE event; the conversion of the other mode; the replay of assistant messages | one finish, whole arguments, both modes agree, what it gave is accepted back |
| Request assembly, `bedrock/translate.rs`, `tools.rs`, `cache.rs`, `reasoning.rs`, `provider.rs` and `responses_translate.rs`, `responses_provider.rs` | none | messages or items to turns, merging, tool results, tool configuration, cache points, reasoning and sampling fields | signed turns intact, results follow calls, cache points within budget, parameters agree |
| Capsules, `bedrock/capsule.rs` | a keyring | encode, decode | what is decoded is what was encoded, over key rotation too |
| Prompt-cache safety net, `bedrock/cache_support.rs`, called by both Converse providers | process-wide set of models that reject `cachePoint` | read at assembly, mark on rejection, strip and send again | marks only what a refusal taught, never makes a request worse, sends at most twice |
| Catalog, `bedrock/models.rs`, `server/mod.rs` | catalog and profile map, replaced periodically | list, install, look up | what is advertised resolves; failures do not end it |
| Capability table, routing, `bedrock/capabilities.rs`, `server/composite*.rs` | static table, the shared profile map | resolve, select backend | a request is routed by what its model means, on every surface |
| Mantle lanes, `bedrock/mantle_*.rs` | per stream: the terminator's current line | forward bytes, stop after the terminal frame | terminal frame recognized wherever it is split |
| Embeddings, auth, telemetry, settings, schemas | none | stateless conversion | field by field |

Interaction: the router normalizes a request, asks the composite provider for a
raw lane and then for a typed one; the composite resolves the backend from the
capability table (and the profile map the catalog refresh replaces) each time.
A Converse provider assembles the call, consulting the negative cache, and
sends it through the safety net; a streaming send returns a generator that owns
the upstream receiver and the state machine and is polled by the HTTP server.
On mantle the lane's terminator, and for the adapter its decoder, stand between
the HTTP client and that machine.

Hard behaviours: overlapping and unfinished content blocks; an upstream that
ends early, fails or falls silent between any two events; a client that leaves;
several calls of which one is unfinished; bytes cut anywhere; a transcript that
comes back split, repeated, without its reasoning or under rotated keys;
requests in flight while the model they use is marked; a refresh between two
reads of one request. They are listed, at their lines, as `hazards` in
`PROJECT.json`.

## Modules

Specifications of what a client may rely on, as protocols over delivered events:
`ResponsesWire` (Responses: `envelope`, `item`, `terminal`), implemented by
`ResponsesStream`; `ChatWire` (chat: role, content, calls under the next index,
one finish, usage, `[DONE]`), implemented by both `ChatStream` and
`ChatAdapter`, so that a client cannot tell which backend answered.

`ResponsesStream` is the machine, its driver, the upstream and the client.
`machine` holds the fields of `ResponsesStreamState`; one action is one upstream
event together with every helper `map_event` calls for it (`ensure_started`,
the closes, the index allocation), and puts the resulting vector in `pending`.
`Yield` delivers one event of the vector, so that the client can leave or the
driver be dropped in the middle of it, and the next upstream event is asked for
only when the vector is empty, as in the generator. `Finish` and `Fail` are the
two ends. Text is a sequence of fragments `<<block, ordinal>>`, so "repeats", "loses"
and "agrees" can be stated: `reasoning.text` grows in the order of arrival, while
the terminal Response joins `thought`, the text kept by block, in the order of
the block indices (`Joined`). Blocks are `0 .. LastBlock`; `late` remembers that
a block got text after a later one of its kind had. Tool input is blank, partial
or parsable. `"shell"` stands for the
delayed kinds whose items have a status (shell and apply_patch).

`ChatStream` is the chat machine, the provider stream, the router's loop and a
client that tracks tags and assembles calls by index. `slot` is the item that the
provider stream yielded and the router has not written yet. The upstream may
leave blocks unstopped and overlap them. `capsule` is whether the encoder is on;
a capsule is the set of sealed blocks, and encoding may fail (the size limit).

`ChatAdapter` is the machine of the Responses-to-chat adapter with the router
and a client that keeps the text in order: text is a sequence of pieces
`<<item, ordinal>>` and the tags are pieces of item 0. `style` says how the
upstream tells a summary: by deltas, only by its `.done` event, or only in the
item. An event is one action and leaves its chunks in `pending`, or the error
that ends the stream. `WholeCalls` and `WholeFails` are `responses_to_chat`, the
adapter of the other mode, a reference to compare with. `Continue` is the next
turn: the client hands the answer back whole, without what is in the tags or
without content, with its calls in one message or one message each, and
`Assistant`, `Strip` and `Dedupe` are what `append_message_items` makes of it.
`Among`, in `Selection`, keeps the members of a sequence that are in a set, in
order: `SelectSeq` over `FlattenSeq`, whose recursion a proof can unfold.

`SseLane` is the same stream as bytes: `Receive` hands over a chunk that ends
anywhere, `Observe` is the terminator of the raw lane byte by byte (`Watch`), and
`Push` the decoder, frame by frame (`Taken`), whose events are the ones
`ChatAdapter` starts from. A byte says
only which part of which line of which frame it is, and the line and frame
limits are constants.

`Converse`, `ChatRequest` and `ResponsesRequest` are operators: what `tools.rs`,
`cache.rs` and `reasoning.rs` do for both surfaces, and each surface's way from
messages or items to a Converse request and back. A block is `[kind, of, tag]`;
`Blank` is a text of length 0; the budget floor and headroom are scaled down to
2 and 1. `Conversation` puts them to work: a client that keeps the transcript,
the gateway that assembles a request from all of it or refuses (`Submit`), an
upstream that answers what the request allows (`Reply`), and between exchanges
repeated answers, changed options and a restart with other capsule keys.

`CacheSupport` has a program counter per request, the process-wide set `marked`,
and every send with whether it carried `cachePoint` blocks. The reading of the
set, the send and the marking are separate actions, since an `await` lies
between them; requests of both surfaces and both modes behave alike here.
`Rejects` is an error that satisfies `is_cache_unsupported_error`, which looks for
words in the message. Any model may give one at any time: one that accepts no
cache points (`Rejecting`; it serves no request that carries some), one that
supports them and was sent too many or a time-to-live it refuses, or one whose
request carried none. `Heal` cannot tell the first two apart, so a supporting
model may be marked too, and marks last as long as the process.

`Routing` is the refresh task, call by call (`Tick` to `InstallCatalog`, or
`ListingFails` from any call), the control plane that changes meanwhile, and one
request at a time that walks guard, raw lane, typed lane, region gate and
rewriting of the body; each place resolves the model afresh, as each reads the
profile map under its own lock. Identifiers are opaque: `entry_for_match` is by
exact key, so only a foundation has a backend. `Served` is the abstract
specification: what the tables say of a foundation on a surface, without lanes.
`disturbed` is a history variable, set when the map's swap changes what the
request's model resolves to. A paginated call is one step, and so is the swap of
a map. With `MODEL_CATALOG_REFRESH_SECS = 0` the task does not exist: these are
the behaviours without `Tick`.

`MC*` modules give constants; `*_proofs` modules hold the theorems. An operator
whose comment says "faulty" is not part of the model: it is what a plausible bug
would make of the definition after it, and the property that notices is named
with it in `PROJECT.json`.

## Runs

| Run | Bounds | Shows |
| --- | --- | --- |
| `responses_stream` | 2 blocks, 2 fragments each, 3 tool kinds, 2 stop reasons | lifecycle, whole calls, terminal agrees but for the order of overlapping blocks, no fragment lost, repeated or out of order, every stream ends |
| `responses_unfinished`, `responses_eof_call`, `responses_text_done` | same module | findings 1 to 3 |
| `chat_stream` | 3 blocks, 1 fragment each | tags, calls, capsules, usage, the abstract chat stream, `[DONE]` |
| `chat_adapter` | 3 items, 2 pieces of text, 3 styles | tags, both modes agree, a verdict before `[DONE]`, faithful replay, the abstract chat stream, `[DONE]` |
| `sse_lane` | 2 frames in 9 layouts, 2 line ends, cut anywhere | frames once and in order, the lane ends with the terminal event, usage is recorded |
| `conversation` | 2 questions, 2 answers, 1 surprise; 4 models, 5 sets of options, 4 keyrings, 5 shapes of answers | signed turns intact, results follow calls, cache points within budget and on a stable prefix, parameters agree, replay accepted |
| `cache_ceiling` | same module | finding 4 |
| `cache_support` | 3 requests, 3 models, 2 keys | marks are earned and none is missed, rejections healed, only requests in flight relapse, no retry loop |
| `routing` | 2 profiles, 5 foundations, 2 aliases, 3 surfaces | routed by backend, advertised profiles resolve, a lasting profile is learned |
| `routing_typed_lane` | same module | finding 5 |

Why the bounds are enough. *Responses stream*: its properties relate one block to
another (reopening, overlap, one finished call beside an unfinished one), and
two fragments allow a delta before and after any event of the other block; the
invariants were also checked once with three blocks of one fragment and two
kinds of tools. *Chat stream*: three
blocks for reasoning, a call, and reasoning after it; larger instances are
covered by the proofs. *Adapter*: three items for reasoning, an answer and a
call in any order, or two calls that share one reasoning item; two pieces for
arguments of which some came by delta and the rest with the end. *Lane*: an
event and the terminal one; a long line exceeds the line limit by one, and only a
long line with an event line and CRLF exceeds the frame limit, so each limit is
met just below and just above. *Conversation*: two answers are one that must
survive and one that could merge with it, the models differ so that each flag
and each reasoning path holds of one and not of another, with a ceiling of 1 and
of 4; one surprise per behaviour (the proofs have no such bound). One shape has
two texts, which a Responses message joins and the non-stream rendering of chat,
the one modelled, reduces to the last. *Cache*: one
request that marks, one in flight and one later; two of three models share a
normalized key. *Routing*: one profile of each listing call, and one foundation
of each shape `models.toml` can give: no entry, mantle chat, adapted chat in and
out of region, Responses only; an alias of a foundation and one of a profile;
requests only read what the task writes, so more of them at once would see
nothing else. Every constant named `Max...`, `LastBlock` or `NumFrames` is a bound of the
model; `MaxLine` and `MaxFrame` are limits of the code, scaled down.

Findings: (1) a truncated answer reports shell calls it withheld as `completed`
inside `response.incomplete`; (2) the Responses stream executes closed calls when
the upstream ends without `messageStop`, against its header; (3) a reopened
reasoning item that only carries a signature repeats the earlier item's text;
(4) the system zone takes its cache point whatever the tools have left of the
budget, where comments and the caching document say that the three zones together
never exceed the ceiling (the shipped table has a ceiling of 4 for every model,
which three zones of one point cannot exceed; an operator's table with a ceiling
of 1 shows it); (5) the typed methods of the mantle chat provider, "UNREACHABLE" in
its header, are reached by a request whose profile the refresh installs after
the raw lane stepped aside. `RoutedByBackend` is therefore claimed of
undisturbed requests only, and says nothing of the hazards of a refresh in the
middle of one. For others the same gap between region gate and
rewriting lets mantle be asked for a profile's id.

Deadlock is checked for routing, where something can always happen; a stream that
ended, a set of requests that were all answered and a conversation at its bounds
really stop, so not there.

### What the properties leave out, and why

These behaviours were met while modelling, and each property names what it leaves
out. No document speaks against the first group, so they are not findings.

- A summary told only by `reasoning_summary_text.done` is shown by it and again
  by `output_item.done` (style `done` in `StreamAgreesWithWhole`, `OneThought`).
- A summary of several parts is streamed as several `<think>` blocks, of which
  the replay strips none (`OneThought`).
- The two modes of the adapter give an incomplete turn with calls different
  finish reasons, so they are compared for complete ones.
- A terminal event whose data is split over lines or longer than the limit, and
  that has no event line, is not recognized by the raw lane.
- `TemperatureToppConflict` and the placeholder are chat's alone, and so are the
  normalization and deduplication of repeated results; the client of the
  Responses model does not repeat an answer.
- An error that speaks of cache points on a request that carried some marks its
  model, whether or not the model supports them; `MarksAreEarned` says what the
  set does promise.
- A reasoning item that came without `encrypted_content` is refused on replay
  (`noEnvelope` in `ReplayAccepted`).
- A cache point on the gateway's own continuation turn is never met again
  (`Continues` in `PrefixStable`).

A document or a comment does speak against the second group. They are left out of
the passing properties, and have no run of their own because what the code does is
plain at the line named.

- A Responses stream tells overlapping reasoning blocks in two orders: the item
  has the text as it arrived, the terminal Response block by block
  (`ReasoningOverlaps` in `FinalAgreesWithStream`). A comment
  (`responses_stream.rs:167`) calls the former the text "for the
  `reasoning_text.done` + final item", which holds while blocks do not overlap.
- A custom tool in a namespace comes back without it (`Nameless`;
  `responses_response.rs:238-318`), where `docs/openai-protocol-compatibility.md`
  asks in lines 46 and 177 that namespaces be kept.
- `extra_body.thinking` switches reasoning on past `has_tool_context`
  (`Uncovered`; `translate.rs:797`), where lines 84-89 of that document say that
  extended thinking for a tool request on chat is not enabled or is rejected.
- A forced tool choice beside signed reasoning is rejected by the chat assembly
  (`provider.rs:784-799`) when an effort asked for the reasoning, which is what
  `InferenceFits` says. It is sent when `extra_body.thinking` asked for it
  (`Reasoned` leaves that field out), and on Responses always
  (`responses_provider.rs:425`), against line 129 of that document. Nor does the
  part of `InferenceFits` about the budget speak of a `budget_tokens` the client
  wrote into `extra_body.thinking`.

## Fairness

`ResponsesStream`: weak fairness of `Yield` (the server polls a body it writes)
and of `IdleTimeout` (tokio's timer around every `recv`). Nothing is assumed of
the upstream or of the client, so `EveryStreamEnds` is due to the timeout.
`ChatStream` and `ChatAdapter`: weak fairness of the router's steps only. These
streams have no timeout, on purpose, so liveness is stated from the end of the
provider stream (`DoneFollowsEnd`). `CacheSupport`: weak fairness of each
handler; the SDK client has connect and read timeouts and bounded attempts
(`client.rs`). `Routing`: weak fairness of the ticker and the swaps, and strong
fairness of each listing call: calls may fail for as long as they like, but tried
for ever each succeeds for ever (an assumption on Bedrock, without which nothing
can be learned). Requests and the control plane are under no fairness, and
`SseLane` and `Conversation` state safety only.

## Proofs

All of them are about `Spec`, for every value of the constants that meets the
named assumptions.

`ResponsesStream_proofs`: `TypeCorrect` and `CallsAreWhole`, for every set of
blocks, registry, set of stop reasons and fragment bound. A call that is done on
the wire says nothing by itself about the upstream, so the inductive invariant
`StreamInv` adds that the accumulators mirror the tool blocks (`ToolsAgree`) and
that an event that makes a call executable is pending or delivered only once the
machine is finalized on an untruncated batch that is ready (`OnlyWholeBatches`).
After `finalized` the upstream is no longer read, so the batch cannot change.

`FinalAgrees`, `FragmentsWhole` and the refinement `LifecycleImplemented` are of
the same module and rest on a second invariant, `DeliveryInv`, since the three
tell of the client, who is behind the machine by the events in `pending`. What a
client holds is a view (`Now`: its items, their text, what is open, what is
done); an event leads from the view it is due in to the next. `PendingFits` says
that the events in `pending` lead, one by one, from the client's view to the one
the machine stands for, `DriverFits` what driver and machine know of each other,
`FragmentsFit` that what the upstream sent is in the text of the items delivered
or on its way, and `FinalFits` that the accumulators from which the terminal
Response is rebuilt, which are not the ones the item events were made of, agree
with them. None is inductive alone: a handler that closes an item relies on the
machine's belief of what is open, and that belief is true of a view, not of the
client. `FinalFits` relates two sequences: the text of the last reasoning item,
regrouped by block, is the text kept by block, and the regrouping changes nothing
while no block was overtaken. TLC checked `DeliveryInv` before it was proved
(401,245 states).

`ChatStream_proofs`: the five invariants of the run and the refinement
`WireImplemented`, for every finite set of blocks and every fragment bound. None
of them is inductive alone, since what a client has lags behind what the machine
said by the chunk in `slot`, which may yet be lost. The invariant, at the end of
`ChatStream`, says for each thing that is promised where it is meanwhile:
`BlocksFit` and `SlotFits` that the chunk on its way is the last one produced;
`PhaseFits` what may have been told in each phase; `ThinkFits` that the client
will have the tag open when the stream has; `TextFits`, `TokensFit` and
`CallsFit` that what the client has and what is on its way make up what was sent;
`CapsuleFits` that while no reasoning was lost every block is either being
accumulated or sealed, and that after the first call nothing is pending. A
failed stream keeps only the inclusions. For the refinement, a step of the
provider leaves the mapped state alone (`WireProvider`) and a step of the router
is the action of `ChatWire` that its chunk calls for.

`ChatAdapter_proofs`: `TypeCorrect`, `TagsSeparate`, `VerdictGiven` and the
refinement `WireImplemented`, for responses of any number of items and pieces
(`BoundsAssumption`: the bounds are numbers). One event may yield several chunks,
so the client is several steps behind the machine. `AdapterInv` says so with
paths: a view is what a client has made of the stream (which chunk may come next,
whether the tag is open, how many calls there are), a chunk leads from the view it
is due in to another (`Leads`), and the chunks in `pending` are a path from the
client's view (`Seen`) to the one the machine believes it has (`Promised`), or to
failure. A handler runs only when `pending` is empty, so that the client's view
is the machine's, and is proved by the path of the chunks it yields; the router
takes the first step of the path. `ItemsFit` adds what the handlers rely on:
reasoning is over when a call was seen, or the stream is cut.

`AgreesWithWhole` compares the two modes of the adapter, and needs a second
invariant. `StreamAgreesWithWhole` speaks of a stream that is complete and
delivered; before that, `AgreeInv` says that what will have been delivered
(`Told`: the client's transcript after the chunks in `pending`) is what the
conversion of the other mode would make of the items so far: the text of the
messages in order and, unless `style` is `done`, of the summaries (`TextAgrees`),
and the calls in order, each with the reasoning so far and its arguments so far
(`CallsAgree`). Beside it `ItemsAgree` ties the machine's maps to the items, since
a handler writes what the map lacks: the arguments of a call are what its deltas
gave, a reasoning item has its envelope once it is done, only the last item is
open. It holds unless the stream is `Cut`. TLC checked `AgreeInv` before it was
proved (599,214 states).

`ReplayKept` follows the turn that comes back. What `Continue` computes is a pure
function of what the client holds, and the client holds what `AgreeInv` says once
the stream is done, so most of the argument is about the operators: `Joint` and
`Apart` hand back the thoughts of the capsule, the text and the calls with their
results (`Hands`, by induction over the calls for `Apart`), and `Dedupe` keeps of
such a sequence each thought once and leaves the rest in place (`DedupeReplays`).
`Strip` removes only pieces of reasoning and tags, so the answer is whole
(`RestKeeps`). That it removes all of a summary shown in one block is more than
`AgreeInv` knows, which compares texts without their tags; `SingleInv` says of a
response whose only reasoning is its first item, in one part, that the content is
`<think>`, that summary, `</think>`, the answer (`Laid`), or will be when `pending`
was read. Only then is the summary of the capsule the prefix that
`strip_replayed_summary` looks for. TLC checked `SingleInv` on the bounds of
`MCChatAdapter` before it was proved.

`SequenceLemmas` is what these proofs need of `FlattenSeq` and `Among`: that they
respect concatenation, what is kept when all, none or one of the members is in
the set, and that two sets that agree on a sequence keep the same of it. The
induction theorems of the library take an operator as a parameter and cannot be
cited here; induction is instead stated for a set (`NatInductionSet`,
`SeqInductionSet`: a set that holds the beginning and every successor of its
members holds all there is), which first-order provers can instantiate, and a
recursive function is shown to exist as the union of its finite approximations.

`SseLane_proofs`: all four invariants of the run, for any number of frames, any
layouts, either line end, any way to cut the bytes into chunks and any limits that
admit an event line (`LimitsAssumption`). The inductive invariant `SseInv` says
that cuts do not matter. The terminator is a state machine over bytes, so what
it has after the chunks is what it would have after all bytes sent in one piece
(`TerminatorFollows`); that it is then at the first frame it can tell, if there is
one, is a fact about `Watch` (`WatchedAt`), proved by following a frame line by
line: a line comes to its effect (`LineEffect`), cut at the limit or not, and the
effects of the lines of each layout are a verdict (`FrameJudged`). The decoder
holds the bytes behind the frames that are complete and has given their events
(`DecoderFollows`): no blank line ends before the frame does, whatever comes after
it (`BoundariesFit`), so each step of `Push` takes one frame and the last finds
none (`PushedAt`), and what is flushed at the end has data only if the next frame
has (`FlushedAt`). TLC checked `SseInv` before it was proved (40,238 states).

`CacheSupport_proofs`: `TypeCorrect`, `MarksEarned`, `Healed`, `NoRelapse` from
`CacheInv`, whose `Progress` ties the program counter to the sends made: a
request that resends last sent without cache points, after a send with them, and a
request that carries less than it wanted has its key in the set.

`Routing_proofs`: `TypeCorrect`, `RoutedAsConfigured` and `AdvertisedAreKnown`, for
every table, allow-list, region and set of profiles. That the tables say where a
request ends is not inductive by itself; `Established` says for each place what
the steps before it have found out about the model, so that, for instance, a chat
request arrives in the typed lane only with a backend other than mantle or with
mantle disabled, and the typed mantle method is not reached. Any swap either
leaves the meaning alone or sets `disturbed`. `AdvertisedAreKnown` needs
`OneListing`: the map belongs to the served catalog or, between the two swaps, to
the fresh one. They rest on the shipped rule that a model is adapted to chat
only if mantle serves its Responses (`EntryAssumption`).

`Conversation_proofs`: `TypesKept`, `ParametersFit`, `BudgetKept`, `ReplayServed`,
`ResultsKept`, `SignedServed` and `PrefixKept`, every property of the run, for every
table of models, all options, keyrings and shapes of answers and all bounds. The
assumptions say what the constants are: a ceiling and a limit are numbers, names
and times-to-live strings, an active key is none of the strings that mean no key
(`KeyringsAssumption`), an answer is a sequence of texts, reasoning and calls
(`ShapesAssumption`). `StringsAssumption` says that a few literals are strings,
which TLC knows and the provers do not.

A request is a function of the transcript, so nothing about it is inductive by
itself. What is inductive speaks of `Framed`, the turns that the transcript has
become so far: each action of the client or the upstream appends messages, a
message is at most one more turn, and one more turn either ends `Framed` or
extends its last content (`Place`). On this rest five parts (`ConversationInv`; the
action property needs one more, below):

- `Typed`: what each variable holds; with it `ConversationTyped`. `BudgetKept`
  needs nothing more, for the blocks of a transcript hold no cache points, so
  those of a request are the ones `DecorateZones` placed.
- `Origins`: where each message of the transcript comes from: a question of the
  client's, an answer of the gateway's, whose calls share one capsule, a result
  whose wire id is that of a call. A refusal names a message, so `ReplayServed`
  follows.
- `CallsAnswered`: in `Framed`, results stand only behind calls they answer and
  only the last calls may be open, which are then the ones `unanswered` holds
  (`Paired`); what can be resent belongs to the last turn (`Resendable`), and on
  Responses no result comes twice. An accepted request has none open, and then
  `NormalizeToolResultTurns` leaves each result once: `ResultsKept`, and since no
  turn is emptied by it, `TypesKept`.
- `SignedKept`: each binding answer, with its texts joined as Responses joins
  them (`Rejoined`), opens a turn of `Framed`. When it comes, its rendering is
  parsed back into that content, block by block (`ChatRestored`,
  `CallsRestored`), and framed as one turn of its own (`ChatOpens`,
  `SayingOpens`); later turns only append to it; continuing, marking and
  normalising leave a prefix alone, so `SignedServed` follows.
- `BareThinking`: with the encoder off, a chat request that declares tools asks
  for no reasoning by itself, so an answer with reasoning beside calls is either
  `uncovered` or rides in a capsule.

`Binding` names the answers this is about: on a model that replays signatures,
with reasoning that is all sealed, on chat with calls, in the order in which
Bedrock sends blocks (`Orderly`; the renderings put reasoning, text and calls into
this order whatever the answer's, and chat keeps one text), and not `uncovered`,
which is judged by the options the answer came under.

TLC checked `ConversationInv` before it was proved, on two questions and two
answers without a surprise and on one question, two answers and one surprise.

`PrefixKept` is the action property `PrefixStable`. A step of it relates two
accepted requests with any number of appended messages, refused requests and
restarts of the keyring between them, so its invariant, `Remembered`, is what the
transcript still knows of the request accepted last: that request was made of turns
`old` which the transcript's turns prolong (`Prolongs`: all but the last unchanged,
the last with the content it had as a beginning), with the same system blocks
(nothing a client appends directs the model) and the mark of `MarkFinal`. Both
requests are then read entry by entry (`Shows`): their system blocks and one line
of entries per turn, cache points aside. What is cached stops at the mark, which
sits on a turn with a question. Either that turn is before the last of `old`, and
its line is the same in the new request, or it is the last, and its line is a
beginning of the new one, unless the mark sits behind the text a continuation put
there, which `Continues` excludes. What is between the two (other marks, dropped
and repeated results, thinking switched) puts down cache points and nothing else.
The tools come before all this in what Bedrock caches: `SameTools` says they are
the same, and nothing else in the argument depends on them.

Out of this prover's reach are the liveness properties (fairness and `ENABLED`):
`EveryStreamEnds`, `EveryRequestEnds`, `DoneFollowsEnd` and `ProfileLearned`.

## Not modelled, and what is left

Image modalities and the predicate that reads them under `try_read`, usage
figures other than reasoning tokens, ids and timestamps, logging, HTTP,
cryptography (a capsule is known by its key), JSON schemas of tools, strict
formats and structured output, stop sequences, passthrough fields, beta headers,
region overrides, and embeddings, authentication, settings and telemetry: each is
a stateless, field-by-field conversion or I/O, where a unit test says as much.
In the adapter, refusal parts, events after the terminal one in one batch, and
the translation of tools and sampling fields are left out. Interleaved thinking
(a call, then more reasoning in one answer) is in the streams, where it is an
error with the encoder on, but not among the answers of `conversation`.
