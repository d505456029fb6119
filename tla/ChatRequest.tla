---------------------------- MODULE ChatRequest ----------------------------
(***************************************************************************)
(* The chat surface on Converse: a list of OpenAI messages becomes one     *)
(* Converse request (translate.rs and the assembly in provider.rs), and    *)
(* what Converse returns becomes an assistant message (response.rs).       *)
(*                                                                         *)
(* A message is [role, parts] for the user and the system, [role, think,   *)
(* parts, calls] for the assistant, [role, id] for a tool.  `think' is the *)
(* reasoning that the content shows between <think> tags.                  *)
(***************************************************************************)
EXTENDS Converse

(***************************************************************************)
(* Tool call ids on the wire: Bedrock's own, or a capsule that also holds  *)
(* the reasoning blocks of the turn and the key that signed it.            *)
(***************************************************************************)
WireId(id, kid, reasoning) == [id |-> id, kid |-> kid, reasoning |-> reasoning]
Raw(id) == WireId(id, None, <<>>)

EncodeCapsule(id, reasoning, keys) == WireId(id, keys.active, reasoning)

Wires == [id : Int, kid : STRING, reasoning : Seq(BlocksOf({"reasoning"}))]

ChatCalls == [wire : Wires, name : Seq(STRING)]

ChatMessages ==
    [role : {"system", "user"}, parts : Seq(Spoken)]
        \cup [role : {"assistant"}, think : Seq(Int), parts : Seq(BlocksOf({"text"})),
              calls : Seq(ChatCalls)]
        \cup [role : {"tool"}, wire : Wires]

IsCapsule(wire) == wire.kid # None

(* A faulty form: only the active key opens a capsule.                     *)
DecodeActiveOnly(wire, keys) ==
    IF IsCapsule(wire) /\ wire.kid # keys.active THEN "unknownKid" ELSE None

DecodeRefusal(wire, keys) ==
    IF IsCapsule(wire) /\ wire.kid \notin keys.known THEN "unknownKid" ELSE None

(***************************************************************************)
(* Messages to turns.                                                      *)
(***************************************************************************)
ParseContentParts(parts) == Among(parts, Spoken \ {Blank})

(* The blocks of the first capsule among the calls.                        *)
SharedReasoning(calls) ==
    LET capsules == Among(calls, {c \in ToSet(calls) : IsCapsule(c.wire)})
    IN  IF capsules = <<>> THEN <<>> ELSE Head(capsules).wire.reasoning

(* The texts that reasoning blocks show; a redacted block has none.        *)
Shown(reasoning) ==
    LET told == Among(reasoning, {b \in BlocksOf({"reasoning"}) : b.tag # <<"redacted">>})
    IN  [i \in DOMAIN told |-> told[i].of]

(* A replayed <think> prefix goes when it is what the capsule holds, and   *)
(* stays as text when it is not.                                           *)
StripReplayedReasoning(think, reasoning) ==
    IF think = Shown(reasoning) \/ think = <<>> THEN <<>>
    ELSE <<Block("text", Head(think), <<"think">>)>>

AssistantContent(message) ==
    LET reasoning == SharedReasoning(message.calls)
        uses      == [i \in DOMAIN message.calls |->
                         ToolUse(message.calls[i].wire.id, message.calls[i].name)]
    IN  reasoning \o StripReplayedReasoning(message.think, reasoning)
           \o ParseContentParts(message.parts) \o uses

IntermediateMessage(message) ==
    CASE message.role = "user"      -> Turn("user", ParseContentParts(message.parts))
      [] message.role = "assistant" -> Turn("assistant", AssistantContent(message))
      [] message.role = "tool"      -> Turn("user", <<ToolResult(message.wire.id)>>)

(* A faulty form: only the last assistant message replays its reasoning.   *)
ReplayLastOnly(messages) ==
    LET Old(i) == /\ messages[i].role = "assistant"
                  /\ \E j \in (i + 1) .. Len(messages) : messages[j].role = "assistant"
        Forget(turn) == [turn EXCEPT !.content =
                            SelectSeq(@, LAMBDA b : b.kind # "reasoning")]
        Said(i) == IF messages[i].role = "system" THEN <<>>
                   ELSE IF Old(i) THEN <<Forget(IntermediateMessage(messages[i]))>>
                   ELSE <<IntermediateMessage(messages[i])>>
    IN  SelectSeq(FlattenSeq([i \in DOMAIN messages |-> Said(i)]), LAMBDA t : t.content # <<>>)

(* System messages become no turn, an assistant without content neither.   *)
MessageTurns(message) ==
    IF message.role = "system" THEN <<>>
    ELSE LET turn == IntermediateMessage(message)
         IN  IF turn.content = <<>> THEN <<>> ELSE <<turn>>

BuildIntermediateMessages(messages) ==
    FlattenSeq([i \in DOMAIN messages |-> MessageTurns(messages[i])])

ParseSystemPrompts(messages) ==
    LET Parts(message) == IF message.role = "system" THEN message.parts ELSE <<>>
    IN  ParseContentParts(FlattenSeq([i \in DOMAIN messages |-> Parts(messages[i])]))

CallRefusal(calls, i, keys) ==
    LET wire == calls[i].wire
    IN  IF DecodeRefusal(wire, keys) # None THEN DecodeRefusal(wire, keys)
        ELSE IF IsCapsule(wire) /\ wire.reasoning # SharedReasoning(calls) THEN "mismatch"
        ELSE None

(* A faulty form: a blank question passes.                                 *)
BlankPasses(message, model, keys) ==
    IF message.role = "user" /\ Contains(message.parts, Image) /\ ~model.sees THEN "image"
    ELSE None

MessageRefusal(message, model, keys) ==
    CASE message.role = "system"    -> None
      [] message.role = "user"      ->
            IF Contains(message.parts, Image) /\ ~model.sees THEN "image"
            ELSE IF ParseContentParts(message.parts) = <<>> THEN "empty" ELSE None
      [] message.role = "assistant" ->
            FirstRefusal([i \in DOMAIN message.calls |-> CallRefusal(message.calls, i, keys)])
      [] message.role = "tool"      -> DecodeRefusal(message.wire, keys)

SystemRefusal(messages) ==
    IF \E i \in DOMAIN messages :
          messages[i].role = "system" /\ Contains(messages[i].parts, Image)
    THEN "systemPart" ELSE None

(***************************************************************************)
(* The request.  `o' holds what the request says besides its messages.     *)
(***************************************************************************)
HasToolContext(messages, o) ==
    \/ o.tools # <<>>
    \/ \E i \in DOMAIN messages :
          \/ messages[i].role = "tool"
          \/ messages[i].role = "assistant" /\ messages[i].calls # <<>>

(* Signed reasoning next to tools needs the capsule.                       *)
ChatReasoning(messages, model, o, keys) ==
    IF HasToolContext(messages, o) /\ RequiresSignatureReplay(model.path) /\ ~keys.encoder
    THEN NoReasoning
    ELSE BuildReasoningConfig(model, o.effort, o.max)

(* The choice `required', a tool by its name, or else `auto'.              *)
MapToolChoice(choice) ==
    IF choice = <<"required">> THEN <<"any">>
    ELSE IF Len(choice) > 1 THEN choice
    ELSE <<"auto">>

BuildToolConfig(model, o) ==
    IF o.tools = <<>> \/ o.choice = <<"none">> THEN NoConfig
    ELSE ToolConfig([i \in DOMAIN o.tools |-> Tool(o.tools[i].name)],
                    IF model.skipChoice THEN <<>> ELSE MapToolChoice(o.choice))

Forced(choice) == choice \notin {<<>>, <<"auto">>, <<"none">>}

(* A forced choice next to signed reasoning.                               *)
ForcedWhileReasoning(messages, model, o, keys) ==
    /\ Forced(o.choice) /\ RequiresSignatureReplay(model.path)
    /\ ChatReasoning(messages, model, o, keys) # NoReasoning

ChatRefusal(messages, model, o, keys) ==
    IF ForcedWhileReasoning(messages, model, o, keys) THEN "forced"
    ELSE FirstRefusal([i \in DOMAIN messages |-> MessageRefusal(messages[i], model, keys)]
                      \o << SystemRefusal(messages) >>)

(* What inferenceConfig and additionalModelRequestFields end up with.      *)
ChatInference(model, o, reasoning) ==
    LET fields == reasoning.fields \cup (IF o.thinking THEN {"thinking"} ELSE {})
        conflict == o.temperature /\ o.topP /\ model.conflict
    IN  [fields |-> fields,
         budget |-> reasoning.budget,
         max |-> IF reasoning.max > 0 THEN reasoning.max ELSE o.max,
         temperature |-> o.temperature /\ ~model.dropSampling,
         topP |-> /\ o.topP /\ ~conflict /\ ~model.dropSampling
                  /\ "thinking" \notin fields /\ ~reasoning.dropTopP]

(* The scopes ask for caching one by one or follow the server's setting,   *)
(* and none gets it while the model is known not to take cache points.     *)
ChatScopes(o, default) ==
    [system   |-> ~o.strip /\ (IF o.cacheSystem = None THEN default ELSE o.cacheSystem = "on"),
     messages |-> ~o.strip /\ (IF o.cacheMessages = None THEN default ELSE o.cacheMessages = "on")]

ReframeMessages(turns, model) ==
    AppendContinuation(Reframe("chat", turns), model)

ChatAssemble(messages, model, o, keys, setting) ==
    LET turns  == ReframeMessages(BuildIntermediateMessages(messages), model)
        built  == BuildToolConfig(model, o)
        plain  == [messages  |-> turns,
                   system    |-> ParseSystemPrompts(messages),
                   config    |-> IF built = NoConfig THEN SynthesizeToolConfig(turns) ELSE built,
                   inference |-> ChatInference(model, o, ChatReasoning(messages, model, o, keys))]
        cached == DecorateZones(plain, model, ChatScopes(o, setting.caching),
                                ResolveCacheTtl(o.ttl, setting.ttl, model))
        normal == NormalizeToolResultTurns(cached.messages)
    IN  [cached EXCEPT !.messages = normal, !.config = InjectPlaceholder(normal, @)]

(***************************************************************************)
(* What comes back.                                                        *)
(***************************************************************************)
(* With the encoder on, a turn whose reasoning cannot ride in a capsule    *)
(* next to its calls is an error.                                          *)
ChatResponseRefusal(content, keys) ==
    LET calls(i) == content[i].kind = "toolUse"
        reasons(i) == content[i].kind = "reasoning"
    IN  IF ~keys.encoder THEN None
        ELSE IF \E i, j \in DOMAIN content : i < j /\ calls(i) /\ reasons(j) THEN "interleaved"
        ELSE IF /\ Carries(content, "toolUse")
                /\ \E i \in DOMAIN content : reasons(i) /\ ~Sealed(content[i]) THEN "unsigned"
        ELSE None

ChatResponse(content, keys) ==
    LET sealed == SealedOf(content)
        uses   == Of(content, "toolUse")
        texts  == Of(content, "text")
        Wire(id) == IF keys.encoder /\ sealed # <<>> THEN EncodeCapsule(id, sealed, keys)
                    ELSE Raw(id)
    IN  [role  |-> "assistant",
         think |-> Shown(Of(content, "reasoning")),
         parts |-> IF texts = <<>> THEN <<>> ELSE <<Last(texts)>>,
         calls |-> [i \in DOMAIN uses |-> [wire |-> Wire(uses[i].of), name |-> uses[i].tag]]]
=============================================================================
