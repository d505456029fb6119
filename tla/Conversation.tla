---------------------------- MODULE Conversation ----------------------------
(***************************************************************************)
(* A conversation over a stateless gateway.  The client keeps the          *)
(* transcript and sends all of it each time; the gateway assembles a       *)
(* Converse request from it, the upstream answers, and the gateway's       *)
(* rendering of the answer joins the transcript.  Between two exchanges    *)
(* the client may ask, answer calls or send an answer twice, and the       *)
(* gateway may restart with other capsule keys.                            *)
(*                                                                         *)
(* One conversation is on one surface, chat or Responses, with one model.  *)
(***************************************************************************)
EXTENDS ChatRequest, ResponsesRequest, FiniteSets

CONSTANTS
    Models,      \* rows of the capability table
    Options,     \* what a request may say besides its messages
    Keyrings,    \* capsule settings the gateway may (re)start with
    Setting,     \* [caching, ttl]: the server's defaults
    Shapes,      \* what the upstream may answer, as kinds of blocks
    MaxAsks,     \* bound: messages of the user
    MaxReplies,  \* bound: answers of the upstream
    MaxSurprises \* bound: answers sent twice, restarts and changes of options

ASSUME BoundsAssumption == {MaxAsks, MaxReplies, MaxSurprises} \subseteq Nat
ASSUME ModelsAssumption == \A m \in Models : m.ceiling \in Nat
ASSUME OptionsAssumption ==
    \A o \in Options : o.max \in Int /\ o.ttl \in STRING /\ o.tools \in Seq(DeclaredTools)
ASSUME SettingAssumption == Setting.ttl \in STRING
ASSUME KeyringsAssumption == Keyrings # {} /\ \A k \in Keyrings : k.active \in STRING \ {None}
ASSUME ShapesAssumption == Shapes \subseteq Seq(Answered)

VARIABLES
    surface, model, keys,
    transcript,  \* messages or input items, as the client sends them
    phase,       \* "client" or "upstream": who is to act
    verdict,     \* None, "accepted", or why the last request was refused
    request,     \* the last accepted request
    options,     \* what requests say besides their messages
    answers,     \* the upstream's answers: [content, uncovered]
    unanswered,  \* calls the client has not answered
    asks, surprises

vars == <<surface, model, keys, transcript, phase, verdict, request, options, answers,
          unanswered, asks, surprises>>

NoRequest == [messages |-> <<>>, system |-> <<>>, config |-> NoConfig,
              inference |-> [fields |-> {}, budget |-> 0, max |-> 0,
                             temperature |-> FALSE, topP |-> FALSE]]

(* A conversation opens with a message of the system's.                    *)
Opening(first) ==
    IF ~first THEN <<>>
    ELSE IF surface = "chat" THEN <<[role |-> "system", parts |-> <<Text(0)>>]>>
    ELSE <<[type |-> "message", role |-> "system", parts |-> <<Text(0)>>]>>

Question(parts) ==
    IF surface = "chat" THEN [role |-> "user", parts |-> parts]
    ELSE [type |-> "message", role |-> "user", parts |-> parts]

Init ==
    /\ surface \in {"chat", "responses"}
    /\ model \in Models
    /\ keys \in IF surface = "chat" THEN Keyrings ELSE {CHOOSE k \in Keyrings : TRUE}
    /\ transcript = <<>>
    /\ phase = "client" /\ verdict = None
    /\ request = NoRequest /\ options \in Options
    /\ answers = <<>> /\ unanswered = <<>>
    /\ asks = 0 /\ surprises = 0

-----------------------------------------------------------------------------
(* The client *)

\* A question holds a text, or an empty part and an image besides, or nothing.
Parts(n) == {<<Text(n)>>, <<Blank, Text(n), Image>>, <<Blank>>}

Ask ==
    /\ phase = "client" /\ unanswered = <<>> /\ asks < MaxAsks
    /\ \E parts \in Parts(asks + 1) :
          transcript' = transcript \o Opening(transcript = <<>>) \o <<Question(parts)>>
    /\ asks' = asks + 1 /\ verdict' = None
    /\ UNCHANGED <<surface, model, keys, phase, request, options, answers, unanswered, surprises>>

\* An answer names its call by the id that the client was given.
Answer(call) ==
    IF surface = "chat" THEN [role |-> "tool", wire |-> call.wire]
    ELSE [type |-> "output", id |-> call.id]

AnswerCall ==
    /\ phase = "client"
    /\ \E i \in DOMAIN unanswered :
          /\ transcript' = Append(transcript, Answer(unanswered[i]))
          /\ unanswered' = RemoveAt(unanswered, i)
    /\ UNCHANGED <<surface, model, keys, phase, verdict, request, options, answers, asks, surprises>>

Reconsider ==
    /\ phase = "client" /\ surprises < MaxSurprises
    /\ options' \in Options \ {options}
    /\ surprises' = surprises + 1 /\ verdict' = None
    /\ UNCHANGED <<surface, model, keys, transcript, phase, request, answers, unanswered, asks>>

IsAnswer(message) == surface = "chat" /\ message.role = "tool"

Resend ==
    /\ phase = "client" /\ surprises < MaxSurprises
    /\ transcript # <<>> /\ IsAnswer(Last(transcript))
    /\ \E i \in DOMAIN transcript :
          /\ \A j \in i .. Len(transcript) : IsAnswer(transcript[j])
          /\ transcript' = Append(transcript, transcript[i])
    /\ surprises' = surprises + 1 /\ verdict' = None
    /\ UNCHANGED <<surface, model, keys, phase, request, options, answers, unanswered, asks>>

-----------------------------------------------------------------------------
(* The gateway *)

Refusal(o) ==
    IF surface = "chat" THEN ChatRefusal(transcript, model, o, keys)
    ELSE ResponsesRefusal(transcript, model, o)

Assemble(o) ==
    IF surface = "chat" THEN ChatAssemble(transcript, model, o, keys, Setting)
    ELSE ResponsesAssemble(transcript, model, o, Setting)

Submit ==
    /\ phase = "client" /\ unanswered = <<>> /\ transcript # <<>>
    /\ IF Refusal(options) # None
       THEN verdict' = Refusal(options) /\ UNCHANGED <<phase, request>>
       ELSE verdict' = "accepted" /\ phase' = "upstream" /\ request' = Assemble(options)
    /\ UNCHANGED <<surface, model, keys, transcript, options, answers, unanswered, asks, surprises>>

\* The gateway restarts with other keys, or with the encoder switched.
Restart ==
    /\ phase = "client" /\ surface = "chat" /\ surprises < MaxSurprises
    /\ keys' \in Keyrings \ {keys}
    /\ surprises' = surprises + 1 /\ verdict' = None
    /\ UNCHANGED <<surface, model, transcript, phase, request, options, answers, unanswered, asks>>

-----------------------------------------------------------------------------
(* The upstream *)

\* Bedrock calls only tools it was told of, and a model that replays signatures
\* reasons only when it is asked to.
Thinking(inference) == inference.fields \cap {"thinking", "reasoning_config"} # {}

CanAnswer(shape) ==
    /\ Carries(shape, "toolUse") => Of(request.config.tools, "tool") # <<>>
    /\ Carries(shape, "reasoning") =>
          /\ Thinking(request.inference) \/ ~RequiresSignatureReplay(model.path)
          /\ \A i \in DOMAIN shape : shape[i].kind = "reasoning" => shape[i].tag[1] \in model.sorts

\* Texts, reasoning blocks and calls are numbered through the conversation.
Given(shape) ==
    LET base   == 10 * (Len(answers) + 1)
        tools  == Of(request.config.tools, "tool")
        Name(i) == tools[(i % Len(tools)) + 1].tag
    IN  [i \in DOMAIN shape |->
            IF shape[i].kind = "toolUse" THEN ToolUse(base + i, Name(i))
            ELSE [shape[i] EXCEPT !.of = base + i]]

\* A client may keep the <think> part of what it was shown, or not.
Rendered(content, keepThink) ==
    IF surface = "responses" THEN ResponsesOutput(content, options.tools)
    ELSE LET message == ChatResponse(content, keys)
         IN  << IF keepThink THEN message ELSE [message EXCEPT !.think = <<>>] >>

CallsGiven(rendered) ==
    IF surface = "chat" THEN rendered[1].calls
    ELSE Among(rendered, {it \in ToSet(rendered) : it.type = "call"})

Representable(content) == surface = "chat" => ChatResponseRefusal(content, keys) = None

\* A tool that is not a plain function keeps no namespace in what the client gets.
Nameless(block) ==
    /\ block.kind = "toolUse"
    /\ \E i \in DOMAIN options.tools : /\ options.tools[i].kind # "function"
                                       /\ options.tools[i].ns # None
                                       /\ BedrockName(options.tools[i]) = block.tag

\* What the gateway cannot give back: the client switched thinking on past it, in
\* extra_body, which no guard looks at, and no capsule is written; or a call loses
\* its namespace.
Uncovered(content) ==
    IF surface = "chat" THEN options.thinking /\ ~keys.encoder
    ELSE \E i \in DOMAIN content : Nameless(content[i])

Reply ==
    /\ phase = "upstream" /\ Len(answers) < MaxReplies
    /\ \E shape \in Shapes, keepThink \in BOOLEAN :
          /\ CanAnswer(shape)
          /\ LET content  == Given(shape)
                 rendered == Rendered(content, keepThink)
             IN  /\ Representable(content)
                 /\ transcript' = transcript \o rendered
                 /\ answers' = Append(answers, [content |-> content, uncovered |-> Uncovered(content)])
                 /\ unanswered' = CallsGiven(rendered)
    /\ phase' = "client" /\ verdict' = None
    /\ UNCHANGED <<surface, model, keys, request, options, asks, surprises>>

\* The upstream fails, or answers what the surface cannot represent; the client
\* has learned nothing and may try again.
Fail ==
    /\ phase = "upstream"
    /\ phase' = "client" /\ verdict' = None
    /\ UNCHANGED <<surface, model, keys, transcript, request, options, answers, unanswered, asks,
                   surprises>>

Next == Ask \/ AnswerCall \/ Resend \/ Reconsider \/ Submit \/ Restart \/ Reply \/ Fail

Spec == Init /\ [][Next]_vars

-----------------------------------------------------------------------------
(* Properties *)

Refusals == {"forced", "unknownKid", "mismatch", "image", "empty", "systemPart",
             "noEnvelope", "duplicateTool", "unknownTool"}

\* That these literals are strings is nothing the provers know by themselves.
ASSUME StringsAssumption ==
    Refusals \cup {None, "function", "think", "joined", "_placeholder", "5m"} \subseteq STRING

\* Every variable has its type, an accepted request speaks of the transcript it
\* was made from, and the client answers each call it was given once.
TypeOK ==
    /\ surface \in {"chat", "responses"} /\ model \in Models /\ keys \in Keyrings
    /\ phase \in {"client", "upstream"}
    /\ verdict \in Refusals \cup {None, "accepted"}
    /\ phase = "upstream" <=> verdict = "accepted"
    /\ options \in Options
    /\ asks \in 0 .. MaxAsks /\ surprises \in 0 .. MaxSurprises /\ Len(answers) <= MaxReplies
    /\ phase = "upstream" => unanswered = <<>> /\ request.messages # <<>>
    /\ \A n \in DOMAIN request.messages :
          /\ request.messages[n].role \in {"user", "assistant"}
          /\ request.messages[n].content # <<>>

\* The order in which Bedrock answers: reasoning, text, calls; the rendering puts
\* what comes in another order into this one, and on chat (where only the rendering
\* that is not streamed is modelled) keeps the last text.
Orderly(content) ==
    /\ content = Of(content, "reasoning") \o Of(content, "text") \o Of(content, "toolUse")
    /\ surface = "chat" => Len(Of(content, "text")) <= 1

\* What Bedrock must get back as it was: signed reasoning, on Responses always
\* and on chat with calls.
Binding(answer) ==
    /\ RequiresSignatureReplay(model.path)
    /\ ~answer.uncovered
    /\ Carries(answer.content, "reasoning")
    /\ Of(answer.content, "reasoning") = SealedOf(answer.content)
    /\ surface = "chat" => Carries(answer.content, "toolUse")
    /\ Orderly(answer.content)

\* An answer with its texts as one, which is how a Responses message holds them.
Rejoined(content) ==
    Of(content, "reasoning") \o OneText(Of(content, "text")) \o Of(content, "toolUse")

\* A turn of the upstream with signed reasoning opens one assistant turn of every
\* later request: but for texts that Responses makes one text, nothing of it is
\* lost, altered, reordered or moved to another turn, whatever was asked, resent or
\* rotated in between (translate.rs 436-661, responses_translate.rs 824-882,
\* responses_response.rs 118-186, capsule.rs 156-259).
SignedTurnsIntact ==
    phase = "upstream" =>
        \A k \in DOMAIN answers :
            Binding(answers[k]) => \E n \in DOMAIN request.messages :
                                      /\ request.messages[n].role = "assistant"
                                      /\ IsPrefix(Rejoined(answers[k].content),
                                                  request.messages[n].content)

\* In every request each turn with calls is followed by the results of exactly
\* these calls, each once, although results come one message at a time, in any
\* order and some of them twice (tools.rs 292-370).
ResultsFollowCalls ==
    phase = "upstream" =>
        \A n \in DOMAIN request.messages :
            LET calls    == CallsOf(request.messages[n].content)
                next     == IF n = Len(request.messages) THEN <<>>
                            ELSE Of(request.messages[n + 1].content, "toolResult")
                results  == {next[i].of : i \in DOMAIN next}
            IN  /\ calls # {} => results = calls /\ Len(next) = Cardinality(calls)
                /\ results # {} => calls # {}

\* The zones that look at the budget keep it: the tools take a cache point only
\* within the ceiling of the model, the messages only if that leaves the total of
\* all three zones within it.  There is one in each zone at most, all with one
\* time-to-live that the model supports (provider.rs 815-945, cache.rs).
PointsOf(blocks) == Of(blocks, "cachePoint")

CheckpointBudget ==
    phase = "upstream" =>
        LET tools    == PointsOf(request.config.tools)
            system   == PointsOf(request.system)
            messages == PointsOf(AllBlocks(request.messages))
            all      == tools \o system \o messages
        IN  /\ \A zone \in {tools, system, messages} : Len(zone) <= 1
            /\ Len(tools) <= model.ceiling
            /\ messages # <<>> => Len(all) <= model.ceiling
            /\ \A p, q \in DOMAIN all : all[p] = all[q]
            /\ CachePoint("1h") \in ToSet(all) => model.ttl1h
            /\ all # <<>> => model.caching /\ ~options.strip

\* "so the GRAND total across all three zones never exceeds the configured ceiling"
\* (provider.rs 833-835, 890-892; docs/caching-and-reasoning.md 41): said of all
\* zones, the one of the system blocks included, which does not look.
CeilingKept ==
    phase = "upstream" =>
        Len(PointsOf(request.config.tools)) + Len(PointsOf(request.system))
            + Len(PointsOf(AllBlocks(request.messages))) <= model.ceiling

\* The effort asked for switched on reasoning that is signed.
Reasoned == RequiresSignatureReplay(model.path) /\ request.inference.fields \ {"thinking"} # {}

\* The sampling parameters and the limit agree with the reasoning that was
\* switched on: no topP beside thinking, a budget below the limit, nothing a
\* model drops; and on chat no conflict and no forced choice (reasoning.rs
\* 151-246, translate.rs 712-759, provider.rs 786-798, 840-849).
InferenceFits ==
    phase = "upstream" =>
        LET inference == request.inference
        IN  /\ Thinking(inference) /\ model.path # "deepseek" => ~inference.topP
            /\ inference.budget > 0 => inference.budget < inference.max
            /\ model.dropSampling => ~inference.temperature /\ ~inference.topP
            /\ surface = "chat" =>
                  /\ model.conflict => ~(inference.temperature /\ inference.topP)
                  /\ Reasoned => ~Forced(request.config.choice)

\* A client that hands back what it was given is refused for a reason it has to
\* answer for or that the operator made: a blank question, an image the model does
\* not see, a forced choice, tools of one name; a key that is gone, or reasoning
\* that came without a signature (translate.rs 436-545, responses_translate.rs
\* 489-650).
ReplayAccepted ==
    /\ verdict = "unknownKid" =>
          \E i \in DOMAIN transcript :
             /\ transcript[i].role = "assistant"
             /\ \E c \in DOMAIN transcript[i].calls :
                   transcript[i].calls[c].wire.kid \notin keys.known
    /\ verdict = "noEnvelope" =>
          \E k \in DOMAIN answers :
             /\ Carries(answers[k].content, "reasoning")
             /\ \A i \in DOMAIN answers[k].content : ~Sealed(answers[k].content[i])
    /\ verdict = "image" => ~model.sees
    /\ verdict = "forced" => surface = "chat" /\ options.effort # None
    /\ verdict = "empty" =>
          \E i \in DOMAIN transcript : transcript[i] = Question(<<Blank>>)
    /\ verdict \notin {"mismatch", "systemPart"}

\* What a request caches is a prefix of the next request, so the cache point pays
\* off: the system blocks, then the turns up to the last cache point, unless the
\* tools changed or the point sits on the gateway's own continuation.
Flat(req) ==
    LET Marked(n) == [i \in DOMAIN req.messages[n].content |->
                         <<n, req.messages[n].role, req.messages[n].content[i]>>]
    IN  [i \in DOMAIN req.system |-> <<0, "system", req.system[i]>>]
           \o FlattenSeq([n \in DOMAIN req.messages |-> Marked(n)])

IsPoint(entry) == entry[3].kind = "cachePoint"
\* (Named once more, so that TLC works the entries out once.)
WithoutPoints(entries) ==
    LET all == entries IN Among(all, {e \in ToSet(all) : ~IsPoint(e)})

Cached(req) ==
    LET flat   == Flat(req)
        points == {i \in DOMAIN flat : IsPoint(flat[i])}
    IN  IF points = {} THEN <<>>
        ELSE WithoutPoints(SubSeq(flat, 1, CHOOSE i \in points : \A j \in points : j <= i))

SameTools(one, two) == Of(one.config.tools, "tool") = Of(two.config.tools, "tool")

Continues(req) == \E n \in DOMAIN req.messages : req.messages[n].content[1] = Text(0)

PrefixStable ==
    [][ (request' # request /\ SameTools(request, request') /\ ~Continues(request))
            => IsPrefix(Cached(request), WithoutPoints(Flat(request'))) ]_vars
-----------------------------------------------------------------------------
(***************************************************************************)
(* The inductive invariant.  It speaks of the turns that the transcript    *)
(* has become so far: every message the client appends is one more step of *)
(* the framing, so what holds of the turns is kept action by action.       *)
(***************************************************************************)
Turns  == IF surface = "chat" THEN BuildIntermediateMessages(transcript)
          ELSE ParseInputItems(transcript)
Framed == Reframe(surface, Turns)

\* A turn of the user holds questions or results, never both.
Results   == [kind : {"toolResult"}, of : Int, tag : {<<>>}]
UserTurns == [role : {"user"}, content : (Seq(Spoken) \cup Seq(Results)) \ {<<>>}]
AssistantTurns == [role : {"assistant"}, content : Seq(Answered) \ {<<>>}]
AllTurns  == UserTurns \cup AssistantTurns

\* The variables have their types, and what they hold fits together.
Typed ==
    /\ surface \in {"chat", "responses"} /\ model \in Models /\ keys \in Keyrings
    /\ transcript \in Seq(IF surface = "chat" THEN ChatMessages ELSE InputItems)
    /\ phase \in {"client", "upstream"} /\ verdict \in Refusals \cup {None, "accepted"}
    /\ phase = "upstream" <=> verdict = "accepted"
    /\ options \in Options
    /\ request.config.tools \in Seq(BlocksOf({"tool", "cachePoint"}))
    /\ answers \in Seq([content : Seq(Answered), uncovered : BOOLEAN])
    /\ unanswered \in Seq(IF surface = "chat" THEN ChatCalls
                          ELSE {item \in InputItems : item.type = "call"})
    /\ phase = "upstream" => unanswered = <<>>
    /\ asks \in 0 .. MaxAsks /\ surprises \in 0 .. MaxSurprises /\ Len(answers) <= MaxReplies

ResultsOf(content) ==
    {content[i].of : i \in {j \in DOMAIN content : content[j].kind = "toolResult"}}

CallsAt(framed, n)   == CallsOf(framed[n].content)
ResultsAt(framed, n) == ResultsOf(framed[n].content)

\* Results stand behind the calls they answer, none of which stays open when more
\* follows; the open ones are those of the last calls.
Paired(framed, open) ==
    LET last == Len(framed)
    IN  /\ framed # <<>> => ResultsAt(framed, 1) = {}
        /\ \A n \in 1 .. last - 1 :
              /\ ResultsAt(framed, n + 1) \subseteq CallsAt(framed, n)
              /\ CallsAt(framed, n) # {} =>
                    /\ ResultsAt(framed, n + 1) # {}
                    /\ CallsAt(framed, n) \ ResultsAt(framed, n + 1)
                          = IF n + 1 < last THEN {} ELSE open
        /\ framed # <<>> /\ CallsAt(framed, last) # {} => CallsAt(framed, last) = open
        /\ open # {} => /\ framed # <<>>
                        /\ CallsAt(framed, last) # {} \/ ResultsAt(framed, last) # {}

IdOf(call) == IF surface = "chat" THEN call.wire.id ELSE call.id
Open == {IdOf(unanswered[i]) : i \in DOMAIN unanswered}

\* What can be resent is a result of the last turn.
Resendable ==
    \A i \in DOMAIN transcript :
        (\A j \in i .. Len(transcript) : IsAnswer(transcript[j]))
            => Framed # <<>> /\ transcript[i].wire.id \in ResultsOf(Last(Framed).content)

\* No result comes twice on Responses, where nothing is resent.
Single(content) ==
    \A i, j \in DOMAIN content :
        content[i].kind = "toolResult" /\ content[i] = content[j] => i = j

CallsAnswered ==
    /\ Paired(Framed, Open)
    /\ \A i, j \in DOMAIN unanswered : IdOf(unanswered[i]) = IdOf(unanswered[j]) => i = j
    /\ Resendable
    /\ surface = "responses" => \A n \in DOMAIN Framed : Single(Framed[n].content)

\* Where each message of the transcript comes from.
FromCall(wire) ==
    \E i \in DOMAIN transcript :
        /\ transcript[i].role = "assistant"
        /\ \E c \in DOMAIN transcript[i].calls : transcript[i].calls[c].wire = wire

Asked(message) == \E n \in 1 .. MaxAsks : \E parts \in Parts(n) : message = Question(parts)

Told(message) ==
    /\ message.role = "system" => message = Opening(TRUE)[1]
    /\ message.role = "user" => Asked(message)

ChatOrigin(message) ==
    /\ Told(message)
    /\ message.role = "assistant" =>
          \A c, d \in DOMAIN message.calls :
              IsCapsule(message.calls[c].wire) /\ IsCapsule(message.calls[d].wire)
                  => message.calls[c].wire.reasoning = message.calls[d].wire.reasoning
    /\ message.role = "tool" => FromCall(message.wire)

ItemOrigin(item) ==
    /\ item.type = "message" => Told(item)
    /\ item.type = "reasoning" =>
          \E k \in DOMAIN answers : /\ Carries(answers[k].content, "reasoning")
                                    /\ item.blocks = SealedOf(answers[k].content)

Origins ==
    /\ \A i \in DOMAIN transcript : IF surface = "chat" THEN ChatOrigin(transcript[i])
                                    ELSE ItemOrigin(transcript[i])
    /\ surface = "chat" => \A i \in DOMAIN unanswered : FromCall(unanswered[i].wire)
    /\ transcript = <<>> => phase = "client" /\ unanswered = <<>>
    /\ transcript # <<>> => \E i \in DOMAIN transcript : Asked(transcript[i])

\* Signed turns stand in the transcript as they came, texts joined.
SignedKept ==
    \A k \in DOMAIN answers :
        Binding(answers[k]) => \E n \in DOMAIN Framed :
                                  /\ Framed[n].role = "assistant"
                                  /\ IsPrefix(Rejoined(answers[k].content), Framed[n].content)

\* On chat a turn that may both reason and call, without capsules, was switched to
\* thinking by the client.
BareThinking ==
    phase = "upstream" /\ surface = "chat" /\ RequiresSignatureReplay(model.path) /\ ~keys.encoder
       /\ Of(request.config.tools, "tool") # <<>> /\ Thinking(request.inference) => options.thinking

ConversationInv == Typed /\ CallsAnswered /\ Origins /\ SignedKept /\ BareThinking
=============================================================================
