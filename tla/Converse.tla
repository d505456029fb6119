------------------------------ MODULE Converse ------------------------------
(***************************************************************************)
(* The Bedrock side of a request: content blocks, turns, tool              *)
(* configuration, cache points and reasoning fields.  These operators are  *)
(* shared by the two surfaces that call Converse, as tools.rs, cache.rs    *)
(* and reasoning.rs are shared by provider.rs and responses_provider.rs.   *)
(***************************************************************************)
EXTENDS Integers, Sequences, SequencesExt, Selection

None == "none"

(***************************************************************************)
(* Blocks and turns.  `of' is the number of a call or of a payload, `tag'  *)
(* a sequence of strings: the parts of a tool's name, the sort of a        *)
(* reasoning block, the time-to-live of a cache point.                     *)
(***************************************************************************)
Block(kind, of, tag) == [kind |-> kind, of |-> of, tag |-> tag]
Text(of)            == Block("text", of, <<>>)
Image               == Block("image", 0, <<>>)
Blank               == Block("blank", 0, <<>>)   \* a piece of text of length 0
Reasoning(of, sort) == Block("reasoning", of, <<sort>>)
ToolUse(id, name)   == Block("toolUse", id, name)
ToolResult(id)      == Block("toolResult", id, <<>>)
CachePoint(ttl)     == Block("cachePoint", 0, <<ttl>>)
Tool(name)          == Block("tool", 0, name)

(* The blocks of a kind, and those that one party or another may write.    *)
BlocksOf(kinds) == [kind : kinds, of : Int, tag : Seq(STRING)]
Spoken    == BlocksOf({"text", "image", "blank"})
Answered  == BlocksOf({"text", "reasoning", "toolUse"})

Of(content, kind)      == Among(content, BlocksOf({kind}))
Carries(content, kind) == \E i \in DOMAIN content : content[i].kind = kind
EndsWith(content, kind) == content # <<>> /\ Last(content).kind = kind

(* A reasoning block can be replayed when it is signed or redacted.        *)
Sealed(block) == block.kind = "reasoning" /\ block.tag # <<"unsigned">>
SealedOf(content) == Among(content, {b \in BlocksOf({"reasoning"}) : b.tag # <<"unsigned">>})

(* The blocks at some places of a sequence, in their order.                *)
At(s, places) == FlattenSeq([k \in DOMAIN s |-> IF k \in places THEN <<s[k]>> ELSE <<>>])

Turn(role, content) == [role |-> role, content |-> content]

(***************************************************************************)
(* Consecutive turns of one role become one turn, except that tool blocks  *)
(* are kept apart from the rest.                                           *)
(***************************************************************************)
ShouldSplitSameRoleMerge(role, current, next) ==
    LET tool == IF role = "user" THEN "toolResult" ELSE "toolUse"
    IN  Carries(current, tool) # Carries(next, tool)

(* A faulty form: reasoning makes no difference to a split.                *)
SplitWithoutReasoning(role, current, next) == ShouldSplitSameRoleMerge(role, current, next)

(* The Responses rule: a reasoning block opens a provider response, and    *)
(* what follows stays in it.                                               *)
ShouldSplitResponseTurn(role, current, next) ==
    LET reasoned(content) == role = "assistant" /\ Carries(content, "reasoning")
    IN  \/ reasoned(next)
        \/ ~reasoned(current) /\ ShouldSplitSameRoleMerge(role, current, next)

ShouldSplit(surface, role, current, next) ==
    IF surface = "chat" THEN ShouldSplitSameRoleMerge(role, current, next)
    ELSE ShouldSplitResponseTurn(role, current, next)

Place(surface, framed, turn) ==
    IF \/ framed = <<>>
       \/ Last(framed).role # turn.role
       \/ ShouldSplit(surface, turn.role, Last(framed).content, turn.content)
    THEN Append(framed, turn)
    ELSE [framed EXCEPT ![Len(framed)].content = @ \o turn.content]

Reframe(surface, turns) ==
    LET framed[n \in 0 .. Len(turns)] ==
            IF n = 0 THEN <<>> ELSE Place(surface, framed[n - 1], turns[n])
    IN  framed[Len(turns)]

(* A model without assistant prefill never gets a conversation that ends   *)
(* on the assistant.                                                       *)
Continuation == Turn("user", <<Text(0)>>)

AppendContinuation(turns, model) ==
    IF turns # <<>> /\ Last(turns).role = "assistant" /\ model.noPrefill
    THEN Append(turns, Continuation)
    ELSE turns

(***************************************************************************)
(* Tool configuration: the declared tools and the choice among them.       *)
(***************************************************************************)
CallsOf(content) ==
    {content[i].of : i \in {j \in DOMAIN content : content[j].kind = "toolUse"}}

(* A faulty form: results that do not belong go, repeated ones stay.       *)
NormalizeWithRepeats(turns) ==
    LET Expected(n) == IF n = 1 THEN {} ELSE CallsOf(turns[n - 1].content)
        Known(n) == SelectSeq(turns[n].content, LAMBDA b : b.kind # "toolResult"
                                                          \/ b.of \in Expected(n))
    IN  [n \in DOMAIN turns |-> IF Expected(n) = {} THEN turns[n]
                                ELSE [turns[n] EXCEPT !.content = Known(n)]]

KeepExpected(content, expected) ==
    At(content, {k \in DOMAIN content :
                    \/ content[k].kind # "toolResult"
                    \/ /\ content[k].of \in expected
                       /\ \A j \in 1 .. (k - 1) : content[j] # content[k]})

(* Of the results that follow a turn with calls, the first one for each of *)
(* these calls stays.                                                      *)
NormalizeToolResultTurns(turns) ==
    LET Expected(n) == IF n = 1 \/ turns[n - 1].role # "assistant" THEN {}
                       ELSE CallsOf(turns[n - 1].content)
    IN  [n \in DOMAIN turns |->
            IF turns[n].role = "user" /\ Carries(turns[n].content, "toolResult") /\ Expected(n) # {}
            THEN [turns[n] EXCEPT !.content = KeepExpected(@, Expected(n))]
            ELSE turns[n]]

AllBlocks(turns) == FlattenSeq([n \in DOMAIN turns |-> turns[n].content])

ToolConfig(tools, choice) == [tools |-> tools, choice |-> choice]
NoConfig == ToolConfig(<<>>, <<>>)

(* A continuation that declares no tools gets the names its history used.  *)
SynthesizeToolConfig(turns) ==
    LET uses   == Of(AllBlocks(turns), "toolUse")
        firsts == At(uses, {k \in DOMAIN uses : \A j \in 1 .. (k - 1) : uses[j].tag # uses[k].tag})
    IN  ToolConfig([k \in DOMAIN firsts |-> Tool(firsts[k].tag)], <<>>)

PlaceholderToolConfig == ToolConfig(<<Tool(<<"_placeholder">>)>>, <<>>)

ContainToolContent(turns) ==
    Carries(AllBlocks(turns), "toolUse") \/ Carries(AllBlocks(turns), "toolResult")

InjectPlaceholder(turns, config) ==
    IF ContainToolContent(turns) /\ config.tools = <<>> THEN PlaceholderToolConfig ELSE config

(***************************************************************************)
(* Cache points, placed in the order tools, system, messages.              *)
(***************************************************************************)
ResolveCacheTtl(asked, default, model) ==
    LET requested == IF asked = None THEN default ELSE asked
    IN  IF requested = "1h" /\ ~model.ttl1h THEN "5m" ELSE requested

CountCachePoints(blocks) == Len(Of(blocks, "cachePoint"))

DecorateTools(tools, model, enabled, used, ttl) ==
    IF tools # <<>> /\ model.caching /\ enabled /\ used < model.ceiling
          /\ ~EndsWith(tools, "cachePoint")
    THEN Append(tools, CachePoint(ttl))
    ELSE tools

(* The system zone asks for a minimum of tokens (here: blocks) and does    *)
(* not look at the budget.                                                 *)
DecorateSystemBlocks(blocks, model, enabled, ttl) ==
    IF blocks # <<>> /\ model.caching /\ enabled /\ Len(blocks) >= model.floor
    THEN Append(blocks, CachePoint(ttl))
    ELSE blocks

(* A faulty form: one point too many.                                      *)
DecorateBeyond(turns, model, enabled, used, ttl) ==
    LET n == Len(turns)
    IN  IF model.caching /\ enabled /\ used <= model.ceiling /\ n > 0 /\ turns[n].role = "user"
        THEN [turns EXCEPT ![n].content = Append(@, CachePoint(ttl))]
        ELSE turns

DecorateMessages(turns, model, enabled, used, ttl) ==
    LET Eligible == {n \in DOMAIN turns :
                        /\ turns[n].role = "user"
                        /\ \E i \in DOMAIN turns[n].content :
                              turns[n].content[i].kind # "toolResult"
                        /\ ~EndsWith(turns[n].content, "cachePoint")}
        last == CHOOSE n \in Eligible : \A m \in Eligible : m <= n
    IN  IF model.caching /\ enabled /\ used < model.ceiling /\ Eligible # {}
        THEN [turns EXCEPT ![last].content = Append(@, CachePoint(ttl))]
        ELSE turns

(* All three zones; `scopes' says which of them want caching.              *)
DecorateZones(args, model, scopes, ttl) ==
    LET tools    == DecorateTools(args.config.tools, model, scopes.system, 0, ttl)
        system   == DecorateSystemBlocks(args.system, model, scopes.system, ttl)
        used     == CountCachePoints(tools) + CountCachePoints(system)
        messages == DecorateMessages(args.messages, model, scopes.messages, used, ttl)
    IN  [args EXCEPT !.config.tools = tools, !.system = system, !.messages = messages]

(***************************************************************************)
(* Reasoning effort.  The path comes from the capability table; `fields'   *)
(* are the keys of additionalModelRequestFields.                           *)
(***************************************************************************)
RequiresSignatureReplay(path) == path \in {"adaptive", "budget"}

MinBudget == 2            \* the budget floor, scaled down
CompletionHeadroom == 1   \* spare tokens above the budget, scaled down

CalcBudgetTokens(max, effort) == IF effort = "low" THEN max \div 2 ELSE max - 1

AtLeast(a, b) == IF a >= b THEN a ELSE b

NoReasoning == [fields |-> {}, budget |-> 0, max |-> 0, dropTopP |-> FALSE]

(* A faulty form: the limit stays what the client asked for.               *)
ReasoningWithinLimit(model, effort, max) ==
    IF effort = None \/ model.path # "budget" THEN NoReasoning
    ELSE [fields |-> {"reasoning_config"}, max |-> max, dropTopP |-> TRUE,
          budget |-> AtLeast(CalcBudgetTokens(max, effort), MinBudget)]

(* 0 stands for an absent limit.                                           *)
BuildReasoningConfig(model, effort, max) ==
    LET budget == AtLeast(CalcBudgetTokens(max, effort), MinBudget)
    IN  IF effort = None \/ model.path = None
        THEN NoReasoning
        ELSE IF model.path = "adaptive"
        THEN [fields |-> {"thinking", "output_config"}, budget |-> 0, max |-> max,
              dropTopP |-> TRUE]
        ELSE IF model.path = "budget"
        THEN [fields |-> {"reasoning_config"}, budget |-> budget,
              max |-> AtLeast(max, budget + CompletionHeadroom), dropTopP |-> TRUE]
        ELSE [fields |-> IF model.path = "deepseek" THEN {"reasoning_config"} ELSE {"reasoning"},
              budget |-> 0, max |-> 0, dropTopP |-> FALSE]

(* The first refusal of a sequence of checks, in their order.              *)
FirstRefusal(refusals) ==
    LET real == Among(refusals, STRING \ {None})
    IN  IF real = <<>> THEN None ELSE Head(real)
=============================================================================
