-------------------------- MODULE ResponsesRequest --------------------------
(***************************************************************************)
(* The Responses surface on Converse: a list of input items becomes one    *)
(* Converse request (responses_translate.rs and the assembly in            *)
(* responses_provider.rs), and what Converse returns becomes output items  *)
(* (responses_response.rs).                                                *)
(*                                                                         *)
(* An item is [type, role, parts] for a message, [type, blocks] for        *)
(* reasoning, [type, kind, id, ns, name] for a call and [type, id] for the *)
(* output of a call.                                                       *)
(***************************************************************************)
EXTENDS Converse

OutputTexts == BlocksOf({"text"}) \cup {Blank}

InputItems ==
    [type : {"message"}, role : {"system", "user"}, parts : Seq(Spoken)]
        \cup [type : {"message"}, role : {"assistant"}, parts : Seq(OutputTexts)]
        \cup [type : {"reasoning"}, blocks : Seq(BlocksOf({"reasoning"}))]
        \cup [type : {"call"}, kind : STRING, id : Int, ns : STRING, name : Seq(STRING)]
        \cup [type : {"output"}, id : Int]

(***************************************************************************)
(* Tools.  A declared tool is [name, ns, kind]; Bedrock knows it by the    *)
(* namespace and the name joined.                                          *)
(***************************************************************************)
DeclaredTools == [name : Seq(STRING), ns : STRING, kind : STRING]

Joined(ns, name) == IF ns = None THEN name ELSE <<ns>> \o name

BuildResponsesTools(tools) == Among(tools, {t \in ToSet(tools) : t.kind # "hosted"})

BedrockName(tool) == Joined(tool.ns, tool.name)

Bindings(tools, name) ==
    Among(BuildResponsesTools(tools), {t \in ToSet(tools) : BedrockName(t) = name})

ToolsRefusal(tools) ==
    LET built == BuildResponsesTools(tools)
    IN  IF \E i, j \in DOMAIN built : i # j /\ BedrockName(built[i]) = BedrockName(built[j])
        THEN "duplicateTool" ELSE None

(* A specific choice names a tool as the client knows it.                  *)
Chosen(tools, choice) ==
    Among(BuildResponsesTools(tools), {t \in ToSet(tools) : t.name = Tail(choice)})

Specific(choice) == Len(choice) > 1

ChoiceRefusal(tools, choice) ==
    IF BuildResponsesTools(tools) # <<>> /\ Specific(choice) /\ Chosen(tools, choice) = <<>>
    THEN "unknownTool" ELSE None

ResponsesToolConfig(tools, choice) ==
    LET built == BuildResponsesTools(tools)
    IN  IF built = <<>> \/ choice = <<"none">> THEN NoConfig
        ELSE ToolConfig([i \in DOMAIN built |-> Tool(BedrockName(built[i]))],
                        IF Specific(choice)
                        THEN <<"tool">> \o BedrockName(Head(Chosen(tools, choice)))
                        ELSE IF choice = <<"required">> THEN <<"any">> ELSE choice)

(***************************************************************************)
(* Items to turns.                                                         *)
(***************************************************************************)
ParseMessageContent(parts) == Among(parts, Spoken \ {Blank})

(* The envelope of a reasoning item holds the blocks that can be replayed. *)
EncodeReasoningEnvelope(content) == SealedOf(content)

DecodeEnvelopeRefusal(item) == IF item.blocks = <<>> THEN "noEnvelope" ELSE None

FunctionCallOutput(item) == <<ToolResult(item.id)>>

(* A call of a kind of its own is replayed by the client's name alone.     *)
ItemTurn(item) ==
    CASE item.type = "message"   -> Turn(item.role, ParseMessageContent(item.parts))
      [] item.type = "reasoning" -> Turn("assistant", item.blocks)
      [] item.type = "call"      ->
            Turn("assistant", <<ToolUse(item.id, Joined(item.ns, item.name))>>)
      [] item.type = "output"    -> Turn("user", FunctionCallOutput(item))

IsSystem(item) == item.type = "message" /\ item.role = "system"

ItemTurns(item) ==
    IF IsSystem(item) THEN <<>>
    ELSE LET turn == ItemTurn(item)
         IN  IF turn.content = <<>> THEN <<>> ELSE <<turn>>

(* System and developer messages become system blocks, an assistant        *)
(* message without text nothing.                                           *)
ParseInputItems(items) ==
    FlattenSeq([i \in DOMAIN items |-> ItemTurns(items[i])])

PushSystemBlocks(items) ==
    LET Parts(item) == IF IsSystem(item) THEN item.parts ELSE <<>>
    IN  ParseMessageContent(FlattenSeq([i \in DOMAIN items |-> Parts(items[i])]))

ItemRefusal(item, model) ==
    CASE item.type = "message" /\ item.role = "system" ->
            IF Contains(item.parts, Image) THEN "systemPart" ELSE None
      [] item.type = "message" /\ item.role # "system" ->
            IF Contains(item.parts, Image) /\ ~model.sees THEN "image"
            ELSE IF item.role = "user" /\ ParseMessageContent(item.parts) = <<>> THEN "empty"
            ELSE None
      [] item.type = "reasoning"       -> DecodeEnvelopeRefusal(item)
      [] item.type \in {"call", "output"} -> None

ResponsesRefusal(items, model, o) ==
    FirstRefusal([i \in DOMAIN items |-> ItemRefusal(items[i], model)]
                 \o << ToolsRefusal(o.tools), ChoiceRefusal(o.tools, o.choice) >>)

(***************************************************************************)
(* The request.                                                            *)
(***************************************************************************)
ReasoningOutcome(model, o) == BuildReasoningConfig(model, o.effort, o.max)

ResponsesInference(model, o) ==
    LET reasoning == ReasoningOutcome(model, o)
    IN  [fields |-> reasoning.fields,
         budget |-> reasoning.budget,
         max |-> IF reasoning.max > 0 THEN reasoning.max ELSE o.max,
         temperature |-> o.temperature /\ ~model.dropSampling,
         topP |-> o.topP /\ ~model.dropSampling /\ ~reasoning.dropTopP]

ReframeTurns(turns) == Reframe("responses", turns)

ResponsesAssemble(items, model, o, setting) ==
    LET turns  == AppendContinuation(ReframeTurns(ParseInputItems(items)), model)
        built  == ResponsesToolConfig(o.tools, o.choice)
        on     == ~o.strip /\ setting.caching
        plain  == [messages  |-> turns,
                   system    |-> PushSystemBlocks(items),
                   config    |-> IF built = NoConfig THEN SynthesizeToolConfig(turns) ELSE built,
                   inference |-> ResponsesInference(model, o)]
    IN  DecorateZones(plain, model, [system |-> on, messages |-> on],
                      ResolveCacheTtl(o.ttl, setting.ttl, model))

(***************************************************************************)
(* What comes back: reasoning, then the text, then the calls.              *)
(***************************************************************************)
(* A tool the request did not declare comes back under Bedrock's name.     *)
ToolOutputItem(tools, block) ==
    LET bound == Bindings(tools, block.tag)
        Call(kind, ns, name) ==
            [type |-> "call", kind |-> kind, id |-> block.of, ns |-> ns, name |-> name]
    IN  IF bound = <<>> THEN Call("function", None, block.tag)
        ELSE IF Head(bound).kind = "function" THEN Call("function", Head(bound).ns, Head(bound).name)
        ELSE Call(Head(bound).kind, None, Head(bound).name)

\* Several texts become one text, of which the first one's number tells.
OneText(texts) ==
    IF Len(texts) <= 1 THEN texts
    ELSE <<Block("text", Head(texts).of, <<"joined">>)>>

\* A message has one part; an answer of nothing at all still has a message.
OutputText(texts) == IF texts = <<>> THEN <<Blank>> ELSE OneText(texts)

ResponsesOutput(content, tools) ==
    LET reasoning == Of(content, "reasoning")
        texts     == Of(content, "text")
        uses      == Of(content, "toolUse")
    IN  (IF reasoning = <<>> THEN <<>>
         ELSE <<[type |-> "reasoning", blocks |-> EncodeReasoningEnvelope(content)]>>)
        \o (IF texts = <<>> /\ uses # <<>> THEN <<>>
            ELSE <<[type |-> "message", role |-> "assistant", parts |-> OutputText(texts)]>>)
        \o [i \in DOMAIN uses |-> ToolOutputItem(tools, uses[i])]
=============================================================================
