------------------------ MODULE Conversation_proofs ------------------------
(***************************************************************************)
(* The safety of a conversation, for every table of models,                *)
(* all options, keyrings and shapes of answers, and all bounds.            *)
(*                                                                         *)
(* The argument.  What a request sends is a function of the transcript, so *)
(* the inductive invariant speaks of the turns that the transcript has     *)
(* become so far (Framed) and each action of the client adds a step to     *)
(* that framing:                                                           *)
(*                                                                         *)
(*   sequences, Flatten, Among, At and prefixes;                           *)
(*   Reframe as a fold, and what one more turn does to it;                 *)
(*   the contents of turns, and what is kept, split or joined;             *)
(*   Typed, then CheckpointBudget, from the request's four zones;          *)
(*   Origins, then ReplayAccepted: whose every message is;                 *)
(*   CallsAnswered, then TypeOK and ResultsFollowCalls: calls and results  *)
(*     are paired in Framed, and what is assembled from it stays paired;   *)
(*   SignedKept with BareThinking, then SignedTurnsIntact: a signed turn   *)
(*     opens a turn of Framed, nothing later closes it off, and assembling *)
(*     and marking leave its prefix alone;                                 *)
(*   Remembered, then PrefixStable: the turns that the last accepted       *)
(*     request was made of are prolonged by those of the transcript, a     *)
(*     request is read entry by entry, and its mark ends what is cached.   *)
(***************************************************************************)
EXTENDS Conversation, SequenceLemmas, FiniteSetTheorems, SequenceTheorems, TLAPS

(***************************************************************************)
(* Reasoning.                                                              *)
(***************************************************************************)

(* What the effort switches on: topP goes where thinking comes, a          *)
(* budget is below the limit, and no field means no reasoning at all       *)
(* (build_reasoning_config, reasoning.rs 151-246).                         *)
LEMMA ReasoningFits ==
    ASSUME NEW row, NEW effort, NEW max \in Int
    PROVE  LET r == BuildReasoningConfig(row, effort, max)
           IN  /\ "thinking" \in r.fields => r.dropTopP
               /\ "reasoning_config" \in r.fields /\ row.path # "deepseek" => r.dropTopP
               /\ r.budget \in Int /\ r.max \in Int
               /\ r.budget > 0 => r.max > r.budget
<1> DEFINE b == AtLeast(CalcBudgetTokens(max, effort), MinBudget)
<1>1. CASE effort = None \/ row.path = None
  BY <1>1 DEF BuildReasoningConfig, NoReasoning
<1>2. CASE ~ (effort = None \/ row.path = None)
  BY <1>2 DEF BuildReasoningConfig, AtLeast, CompletionHeadroom, MinBudget, CalcBudgetTokens
<1>3. QED
  BY <1>1, <1>2

(***************************************************************************)
(* The chat surface.                                                       *)
(***************************************************************************)

(* Cache points change neither the reasoning nor the choice of a tool      *)
(* (provider.rs 859-945, cache.rs).                                        *)
LEMMA ChatDecorates ==
    ASSUME NEW messages, NEW system, NEW tools, NEW choice, NEW inference,
           NEW row, NEW scopes, NEW ttl
    PROVE  LET args == [messages |-> messages, system |-> system,
                        config |-> [tools |-> tools, choice |-> choice],
                        inference |-> inference]
               done == DecorateZones(args, row, scopes, ttl)
           IN  /\ done.inference = inference
               /\ done.config.choice = choice
               /\ DOMAIN done = {"messages", "system", "config", "inference"}
  BY DEF DecorateZones

(* What a chat request ends up with is the reasoning computed for it and   *)
(* the choice asked for, or none (provider.rs 700-960).                    *)
LEMMA ChatAssembled ==
    ASSUME NEW messages, NEW row, NEW o, NEW ring, NEW setting
    PROVE  LET args == ChatAssemble(messages, row, o, ring, setting)
           IN  /\ args.inference =
                     ChatInference(row, o, ChatReasoning(messages, row, o, ring))
               /\ args.config.choice \in {<<>>, BuildToolConfig(row, o).choice}
<1> DEFINE turns  == ReframeMessages(BuildIntermediateMessages(messages), row)
           system == ParseSystemPrompts(messages)
           built  == BuildToolConfig(row, o)
           inf    == ChatInference(row, o, ChatReasoning(messages, row, o, ring))
           synth  == SynthesizeToolConfig(turns)
           config == IF built = NoConfig THEN synth ELSE built
           plain  == [messages |-> turns, system |-> system, config |-> config,
                      inference |-> inf]
           scopes == ChatScopes(o, setting.caching)
           ttl    == ResolveCacheTtl(o.ttl, setting.ttl, row)
           cached == DecorateZones(plain, row, scopes, ttl)
           normal == NormalizeToolResultTurns(cached.messages)
           final  == [cached EXCEPT !.messages = normal,
                                    !.config = InjectPlaceholder(normal, @)]
<1>1. ChatAssemble(messages, row, o, ring, setting) = final
  BY DEF ChatAssemble
<1>2. built = [tools |-> built.tools, choice |-> built.choice]
  BY DEF BuildToolConfig, NoConfig, ToolConfig
<1>3. synth = [tools |-> synth.tools, choice |-> <<>>]
  BY DEF SynthesizeToolConfig, ToolConfig
<1>4. /\ config = [tools |-> config.tools, choice |-> config.choice]
      /\ config.choice \in {<<>>, built.choice}
  <2> HIDE DEF built, synth
  <2>1. CASE built = NoConfig
    BY <2>1, <1>3
  <2>2. CASE built # NoConfig
    BY <2>2, <1>2
  <2>3. QED
    BY <2>1, <2>2
<1>5. /\ cached.inference = inf
      /\ cached.config.choice = config.choice
      /\ DOMAIN cached = {"messages", "system", "config", "inference"}
  <2> HIDE DEF turns, system, config, inf, scopes, ttl
  <2>1. QED
    BY <1>4, ChatDecorates
<1>6. InjectPlaceholder(normal, cached.config).choice \in {<<>>, config.choice}
  <2> HIDE DEF normal, cached
  <2>1. QED
    BY <1>5 DEF InjectPlaceholder, PlaceholderToolConfig, ToolConfig
<1>7. /\ final.inference = inf
      /\ final.config = InjectPlaceholder(normal, cached.config)
  <2> HIDE DEF normal, cached, inf
  <2>1. QED
    BY <1>5
<1>8. QED
  <2> HIDE DEF final, built, inf, config, normal, cached
  <2>1. QED
    BY <1>1, <1>4, <1>6, <1>7 DEF built, inf

(* On chat a request that is not refused has consistent parameters and     *)
(* forces no tool while it reasons (provider.rs 784-799, 840-849,          *)
(* translate.rs 712-759).                                                  *)
LEMMA ChatFits ==
    ASSUME NEW messages, NEW row, NEW o, o.max \in Int, NEW ring, NEW setting,
           ~ ForcedWhileReasoning(messages, row, o, ring)
    PROVE  LET args == ChatAssemble(messages, row, o, ring, setting)
               inf  == args.inference
           IN  /\ Thinking(inf) /\ row.path # "deepseek" => ~ inf.topP
               /\ inf.budget > 0 => inf.budget < inf.max
               /\ row.dropSampling => ~ inf.temperature /\ ~ inf.topP
               /\ row.conflict => ~ (inf.temperature /\ inf.topP)
               /\ RequiresSignatureReplay(row.path) /\ inf.fields \ {"thinking"} # {}
                     => ~ Forced(args.config.choice)
<1> DEFINE args == ChatAssemble(messages, row, o, ring, setting)
           inf  == args.inference
           r    == ChatReasoning(messages, row, o, ring)
<1>1. /\ inf = ChatInference(row, o, r)
      /\ args.config.choice \in {<<>>, BuildToolConfig(row, o).choice}
  BY ChatAssembled
<1>2. /\ "thinking" \in r.fields => r.dropTopP
      /\ "reasoning_config" \in r.fields /\ row.path # "deepseek" => r.dropTopP
      /\ r.budget \in Int /\ r.max \in Int
      /\ r.budget > 0 => r.max > r.budget
  <2>1. CASE r = NoReasoning
    BY <2>1 DEF NoReasoning
  <2>2. CASE r = BuildReasoningConfig(row, o.effort, o.max)
    BY <2>2, ReasoningFits
  <2>3. QED
    BY <2>1, <2>2 DEF ChatReasoning
<1> HIDE DEF r, args
<1>3. /\ inf.fields = r.fields \cup (IF o.thinking THEN {"thinking"} ELSE {})
      /\ inf.budget = r.budget
      /\ inf.max = IF r.max > 0 THEN r.max ELSE o.max
      /\ inf.temperature = (o.temperature /\ ~ row.dropSampling)
      /\ inf.topP = (/\ o.topP /\ ~ (o.temperature /\ o.topP /\ row.conflict)
                     /\ ~ row.dropSampling /\ "thinking" \notin inf.fields /\ ~ r.dropTopP)
  BY <1>1 DEF ChatInference
<1>4. inf.budget > 0 => inf.budget < inf.max
  BY <1>2, <1>3
<1>5. row.conflict => ~ (inf.temperature /\ inf.topP)
  BY <1>3
<1>6. RequiresSignatureReplay(row.path) /\ inf.fields \ {"thinking"} # {}
         => ~ Forced(args.config.choice)
  <2>1. SUFFICES ASSUME RequiresSignatureReplay(row.path), inf.fields \ {"thinking"} # {}
                 PROVE  ~ Forced(args.config.choice)
    OBVIOUS
  <2>2. ~ Forced(o.choice)
    BY <1>3, <2>1 DEF r, ForcedWhileReasoning, NoReasoning
  <2>3. QED
    BY <1>1, <2>2 DEF Forced, BuildToolConfig, NoConfig, ToolConfig, MapToolChoice
<1>7. QED
  BY <1>2, <1>3, <1>4, <1>5, <1>6 DEF args, Thinking

(***************************************************************************)
(* The Responses surface.                                                  *)
(***************************************************************************)

(* Cache points do not change the reasoning (responses_provider.rs).       *)
LEMMA ResponsesDecorates ==
    ASSUME NEW messages, NEW system, NEW config, NEW inference,
           NEW row, NEW scopes, NEW ttl
    PROVE  LET args == [messages |-> messages, system |-> system, config |-> config,
                        inference |-> inference]
           IN  DecorateZones(args, row, scopes, ttl).inference = inference
  BY DEF DecorateZones

(* A Responses request has consistent parameters (responses_provider.rs,   *)
(* responses_translate.rs).                                                *)
LEMMA ResponsesFits ==
    ASSUME NEW items, NEW row, NEW o, o.max \in Int, NEW setting
    PROVE  LET inf == ResponsesAssemble(items, row, o, setting).inference
           IN  /\ Thinking(inf) /\ row.path # "deepseek" => ~ inf.topP
               /\ inf.budget > 0 => inf.budget < inf.max
               /\ row.dropSampling => ~ inf.temperature /\ ~ inf.topP
<1> DEFINE inf == ResponsesAssemble(items, row, o, setting).inference
           r   == ReasoningOutcome(row, o)
<1>1. inf = ResponsesInference(row, o)
  BY ResponsesDecorates DEF ResponsesAssemble
<1>2. /\ "thinking" \in r.fields => r.dropTopP
      /\ "reasoning_config" \in r.fields /\ row.path # "deepseek" => r.dropTopP
      /\ r.budget \in Int /\ r.max \in Int
      /\ r.budget > 0 => r.max > r.budget
  BY ReasoningFits DEF ReasoningOutcome
<1> HIDE DEF r, inf
<1>3. /\ inf.fields = r.fields
      /\ inf.budget = r.budget
      /\ inf.max = IF r.max > 0 THEN r.max ELSE o.max
      /\ inf.temperature = (o.temperature /\ ~ row.dropSampling)
      /\ inf.topP = (o.topP /\ ~ row.dropSampling /\ ~ r.dropTopP)
  BY <1>1 DEF ResponsesInference, r
<1>4. inf.budget > 0 => inf.budget < inf.max
  BY <1>2, <1>3
<1>5. QED
  BY <1>2, <1>3, <1>4 DEF inf, Thinking

(***************************************************************************)
(* The conversation.  A request is assembled by Submit alone, and neither  *)
(* the model nor the surface ever changes.                                 *)
(***************************************************************************)
FitsInv == options \in Options /\ InferenceFits

LEMMA SubmitFits == FitsInv /\ Submit => FitsInv'
<1>1. SUFFICES ASSUME FitsInv, Submit, phase' = "upstream" PROVE InferenceFits'
  BY DEF FitsInv, Submit, InferenceFits
<1>2. /\ Refusal(options) = None /\ request' = Assemble(options)
      /\ surface' = surface /\ model' = model /\ options.max \in Int
  BY <1>1, OptionsAssumption DEF Submit, FitsInv
<1>3. CASE surface = "chat"
  BY <1>2, <1>3, ChatFits DEF InferenceFits, Reasoned, Thinking, Assemble, Refusal,
     ChatRefusal, None
<1>4. CASE surface # "chat"
  BY <1>2, <1>4, ResponsesFits DEF InferenceFits, Thinking, Assemble
<1>5. QED
  BY <1>3, <1>4

(* The others hand over to the client or leave the request alone.          *)
LEMMA FitsStep == FitsInv /\ [Next]_vars => FitsInv'
<1>1. SUFFICES ASSUME FitsInv, [Next]_vars PROVE FitsInv'
  OBVIOUS
<1>2. CASE Submit
  BY <1>1, <1>2, SubmitFits
<1>3. CASE Ask \/ AnswerCall \/ Resend \/ Restart
  BY <1>1, <1>3 DEF FitsInv, InferenceFits, Ask, AnswerCall, Resend, Restart
<1>4. CASE Reconsider
  BY <1>1, <1>4 DEF Reconsider, FitsInv, InferenceFits
<1>5. CASE Reply \/ Fail
  BY <1>1, <1>5 DEF FitsInv, InferenceFits, Reply, Fail
<1>6. CASE UNCHANGED vars
  BY <1>1, <1>6 DEF FitsInv, InferenceFits, Reasoned, Thinking, vars
<1>7. QED
  BY <1>1, <1>2, <1>3, <1>4, <1>5, <1>6 DEF Next

(* Whatever the table of models, the request and the conversation before   *)
(* it: no topP beside thinking, a budget below the limit, nothing that the *)
(* model drops, and on chat no forced choice beside signed reasoning       *)
(* (reasoning.rs 151-246, provider.rs 784-849).                            *)
THEOREM ParametersFit == Spec => []InferenceFits
<1>1. Init => FitsInv
  BY DEF Init, FitsInv, InferenceFits
<1>2. FitsInv => InferenceFits
  BY DEF FitsInv
<1>3. QED
  BY <1>1, <1>2, FitsStep, PTL DEF Spec

(***************************************************************************)
(* Sequences.  What is mapped and flattened, what is kept at some places,  *)
(* and prefixes.                                                           *)
(***************************************************************************)

\* A sequence is known by its length and its elements.
LEMMA SameSeq ==
    ASSUME NEW T, NEW s \in Seq(T), NEW t \in Seq(T), Len(s) = Len(t),
           \A k \in 1 .. Len(s) : s[k] = t[k]
    PROVE  s = t
<1>1. QED
  OBVIOUS

\* An element appended to the second of two sequences is appended to both.
Follows(s, r, e, T) ==
    /\ s \o r \in Seq(T) /\ Append(r, e) \in Seq(T)
    /\ Append(s \o r, e) = s \o Append(r, e)

LEMMA ConcatOfAppend ==
    ASSUME NEW T, NEW s \in Seq(T), NEW r \in Seq(T), NEW e \in T
    PROVE  Follows(s, r, e, T)
  BY DEF Follows

\* A function from T into U.
Takes(g, T, U) == g \in [T -> U]

Mapped(s, g)  == [k \in DOMAIN s |-> g[s[k]]]
FlatMap(s, g) == FlattenSeq(Mapped(s, g))

\* What a map makes of one more element goes to the end,
LEMMA MapAppend ==
    ASSUME NEW T, NEW U, NEW s \in Seq(T), NEW e \in T, NEW g, Takes(g, T, U)
    PROVE  /\ Mapped(s, g) \in Seq(U)
           /\ Mapped(Append(s, e), g) = Append(Mapped(s, g), g[e])
<1> DEFINE m == Mapped(s, g)
           w == Append(s, e)
           v == Mapped(w, g)
<1>1. /\ DOMAIN s = 1 .. Len(s) /\ Len(s) \in Nat /\ \A k \in 1 .. Len(s) : s[k] \in T
      /\ w \in Seq(T) /\ DOMAIN w = 1 .. Len(s) + 1
      /\ \A k \in 1 .. Len(s) : w[k] = s[k]
      /\ w[Len(s) + 1] = e
  BY AppendProperties, LenProperties, ElementOfSeq
<1> HIDE DEF w
<1>2. m \in Seq(U) /\ Len(m) = Len(s)
  BY <1>1 DEF Mapped, Takes
<1>3. v \in Seq(U) /\ Len(v) = Len(s) + 1
  BY <1>1 DEF Mapped, Takes
<1>4. g[e] \in U
  BY DEF Takes
<1>5. \A k \in 1 .. Len(s) : v[k] = m[k]
  BY <1>1 DEF Mapped
<1>6. v[Len(s) + 1] = g[e]
  BY <1>1 DEF Mapped
<1> HIDE DEF m, v
<1>7. v = Append(m, g[e])
  BY <1>1, <1>2, <1>3, <1>4, <1>5, <1>6, SameSeq, AppendProperties
<1>8. QED
  BY <1>2, <1>7 DEF m, v, w

LEMMA MapNothing ==
    ASSUME NEW g
    PROVE  Mapped(<<>>, g) = <<>>
  BY EmptySeq DEF Mapped

\* also when the parts are flattened.
LEMMA FlatMapAppend ==
    ASSUME NEW T, NEW U, NEW s \in Seq(T), NEW e \in T, NEW g, Takes(g, T, Seq(U))
    PROVE  /\ FlatMap(s, g) \in Seq(U)
           /\ FlatMap(Append(s, e), g) = FlatMap(s, g) \o g[e]
<1> DEFINE V == Seq(U)
<1>1. Takes(g, T, V)
  OBVIOUS
<1> HIDE DEF V
<1>2. Mapped(s, g) \in Seq(V) /\ Mapped(Append(s, e), g) = Append(Mapped(s, g), g[e])
  BY <1>1, MapAppend
<1>3. QED
  BY <1>2, FlattenAppend, FlattenType DEF FlatMap, V, Takes

LEMMA FlatMapNothing ==
    ASSUME NEW g
    PROVE  FlatMap(<<>>, g) = <<>>
  BY MapNothing, FlattenEmpty DEF FlatMap

LEMMA AtEmpty ==
    ASSUME NEW P
    PROVE  At(<<>>, P) = <<>>
<1>1. QED
  BY FlattenEmpty, EmptySeq DEF At

\* One more element is kept if its place is one of those.
LEMMA AtAppend ==
    ASSUME NEW T, NEW s \in Seq(T), NEW e \in T, NEW P
    PROVE  /\ At(s, P) \in Seq(T)
           /\ At(Append(s, e), P) = IF Len(s) + 1 \in P THEN Append(At(s, P), e) ELSE At(s, P)
<1> DEFINE w     == Append(s, e)
           parts == [k \in DOMAIN s |-> IF k \in P THEN <<s[k]>> ELSE <<>>]
           more  == [k \in DOMAIN w |-> IF k \in P THEN <<w[k]>> ELSE <<>>]
           last  == IF Len(s) + 1 \in P THEN <<e>> ELSE <<>>
<1>1. /\ DOMAIN s = 1 .. Len(s) /\ Len(s) \in Nat /\ \A k \in 1 .. Len(s) : s[k] \in T
      /\ w \in Seq(T) /\ DOMAIN w = 1 .. Len(s) + 1
      /\ \A k \in 1 .. Len(s) : w[k] = s[k]
      /\ w[Len(s) + 1] = e
  BY AppendProperties, LenProperties, ElementOfSeq
<1> HIDE DEF w
<1>2. parts \in Seq(Seq(T)) /\ Len(parts) = Len(s)
  BY <1>1
<1>3. more \in Seq(Seq(T)) /\ Len(more) = Len(s) + 1
  BY <1>1
<1>4. last \in Seq(T)
  OBVIOUS
<1>5. \A k \in 1 .. Len(s) : more[k] = parts[k]
  BY <1>1
<1>6. more[Len(s) + 1] = last
  BY <1>1
<1> HIDE DEF parts, more, last
<1>7. more = Append(parts, last)
  BY <1>1, <1>2, <1>3, <1>4, <1>5, <1>6, SameSeq, AppendProperties
<1>8. FlattenSeq(more) = FlattenSeq(parts) \o last /\ FlattenSeq(parts) \in Seq(T)
  BY <1>2, <1>4, <1>7, FlattenAppend, FlattenType
<1>9. At(s, P) = FlattenSeq(parts) /\ At(w, P) = FlattenSeq(more)
  BY DEF At, parts, more
<1>10. CASE Len(s) + 1 \in P
  BY <1>8, <1>9, <1>10, AppendIsConcat DEF w, last
<1>11. CASE Len(s) + 1 \notin P
  BY <1>8, <1>9, <1>11, ConcatEmptySeq DEF w, last
<1>12. QED
  BY <1>10, <1>11

\* x says where each element of r stands in s: at places of P, none left out and
\* none twice.
Places(x, r, s, P) ==
    /\ x \in [1 .. Len(r) -> DOMAIN s \cap P]
    /\ \A i \in 1 .. Len(r) : r[i] = s[x[i]]
    /\ \A i, j \in 1 .. Len(r) : x[i] = x[j] => i = j
    /\ \A k \in DOMAIN s \cap P : \E i \in 1 .. Len(r) : x[i] = k

LEMMA AtPlaces ==
    ASSUME NEW T, NEW s \in Seq(T), NEW P
    PROVE  At(s, P) \in Seq(T) /\ \E x : Places(x, At(s, P), s, P)
<1> DEFINE Q == {r \in Seq(T) : At(r, P) \in Seq(T) /\ \E x : Places(x, At(r, P), r, P)}
<1>1. <<>> \in Q
  <2>1. At(<<>>, P) = <<>> /\ <<>> \in Seq(T) /\ Len(<<>>) = 0 /\ DOMAIN <<>> = {}
    BY AtEmpty, EmptySeq
  <2>2. Places([i \in {} |-> 0], <<>>, <<>>, P)
    BY <2>1 DEF Places
  <2>3. QED
    BY <2>1, <2>2
<1>2. ASSUME NEW r \in Seq(T), NEW e \in T, r \in Q PROVE Append(r, e) \in Q
  <2> DEFINE w == Append(r, e)
             n == Len(r)
             a == At(r, P)
             b == At(w, P)
  <2>1. /\ w \in Seq(T) /\ n \in Nat /\ DOMAIN r = 1 .. n /\ DOMAIN w = 1 .. n + 1
        /\ \A k \in 1 .. n : w[k] = r[k]
        /\ w[n + 1] = e
    BY AppendProperties, LenProperties
  <2>2. b = IF n + 1 \in P THEN Append(a, e) ELSE a
    BY AtAppend
  <2>3. a \in Seq(T)
    BY <1>2
  <2>4. PICK x : Places(x, a, r, P)
    BY <1>2
  <2> HIDE DEF w, n, a, b
  <2>5. CASE n + 1 \notin P
    <3>1. b = a /\ DOMAIN w \cap P = DOMAIN r \cap P
      BY <2>1, <2>2, <2>5
    <3>2. Places(x, b, w, P)
      BY <2>1, <2>4, <3>1 DEF Places
    <3>3. QED
      BY <2>1, <2>3, <3>1, <3>2 DEF b, w
  <2>6. CASE n + 1 \in P
    <3> DEFINE m == Len(a)
               y == [i \in 1 .. m + 1 |-> IF i = m + 1 THEN n + 1 ELSE x[i]]
    <3>1. /\ b \in Seq(T) /\ m \in Nat /\ Len(b) = m + 1
          /\ \A i \in 1 .. m : b[i] = a[i]
          /\ b[m + 1] = e
      BY <2>2, <2>3, <2>6, AppendProperties, LenProperties
    <3> HIDE DEF m
    <3>2. \A i \in 1 .. m : x[i] \in 1 .. n /\ x[i] \in P /\ a[i] = r[x[i]]
      BY <2>1, <2>4 DEF Places, m
    <3>3. y \in [1 .. Len(b) -> DOMAIN w \cap P]
      BY <2>1, <2>6, <3>1, <3>2
    <3>4. \A i \in 1 .. Len(b) : b[i] = w[y[i]]
      <4>1. TAKE i \in 1 .. Len(b)
      <4>2. CASE i = m + 1
        BY <2>1, <3>1, <4>2
      <4>3. CASE i # m + 1
        BY <2>1, <3>1, <3>2, <4>3
      <4>4. QED
        BY <4>2, <4>3
    <3>5. \A i, j \in 1 .. Len(b) : y[i] = y[j] => i = j
      BY <2>1, <2>4, <3>1, <3>2 DEF Places, m
    <3>6. \A k \in DOMAIN w \cap P : \E i \in 1 .. Len(b) : y[i] = k
      <4>1. TAKE k \in DOMAIN w \cap P
      <4>2. CASE k = n + 1
        BY <3>1, <4>2
      <4>3. CASE k # n + 1
        <5>1. PICK i \in 1 .. m : x[i] = k
          BY <2>1, <2>4, <4>1, <4>3 DEF Places, m
        <5>2. QED
          BY <3>1, <5>1
      <4>4. QED
        BY <4>2, <4>3
    <3> HIDE DEF y
    <3>7. QED
      BY <2>1, <3>1, <3>3, <3>4, <3>5, <3>6 DEF b, w, Places
  <2>7. QED
    BY <2>5, <2>6
<1>3. Seq(T) \subseteq Q
  <2> HIDE DEF Q
  <2>1. QED
    BY <1>1, <1>2, SeqInductionSet
<1>4. QED
  BY <1>3

\* Among keeps the places where the set is met.
LEMMA AmongAt ==
    ASSUME NEW s, NEW S
    PROVE  Among(s, S) = At(s, {k \in DOMAIN s : s[k] \in S})
<1>1. QED
  BY DEF Among, At

\* Every element of the set that a sequence has is kept, and nothing else.
LEMMA AmongElements ==
    ASSUME NEW T, NEW s \in Seq(T), NEW S
    PROVE  /\ Among(s, S) \in Seq(T \cap S)
           /\ \A k \in DOMAIN s : s[k] \in S => \E i \in DOMAIN Among(s, S) : Among(s, S)[i] = s[k]
           /\ \A i \in DOMAIN Among(s, S) : \E k \in DOMAIN s : s[k] = Among(s, S)[i]
<1> DEFINE P == {k \in DOMAIN s : s[k] \in S}
           r == Among(s, S)
<1>1. r \in Seq(T) /\ r \in Seq(T \cap S)
  BY AmongType
<1>2. PICK x : Places(x, r, s, P)
  BY AmongAt, AtPlaces
<1>3. DOMAIN r = 1 .. Len(r)
  BY <1>1
<1> HIDE DEF r
<1>4. \A k \in DOMAIN s : s[k] \in S => \E i \in DOMAIN r : r[i] = s[k]
  <2>1. TAKE k \in DOMAIN s
  <2>2. SUFFICES ASSUME s[k] \in S PROVE \E i \in DOMAIN r : r[i] = s[k]
    OBVIOUS
  <2>3. PICK i \in 1 .. Len(r) : x[i] = k
    BY <1>2, <2>1, <2>2 DEF Places
  <2>4. QED
    BY <1>2, <1>3, <2>3 DEF Places
<1>5. QED
  BY <1>1, <1>2, <1>3, <1>4 DEF r, Places

(***************************************************************************)
(* Reframe is a fold of Place over the turns: the turns of a conversation  *)
(* that goes on are those it had, with what is new placed behind them.     *)
(***************************************************************************)

\* f frames the first m of the turns ts, turn by turn.
Frames(f, side, ts, m) ==
    f = [n \in 0 .. m |-> IF n = 0 THEN <<>> ELSE Place(side, f[n - 1], ts[n])]

FramesHere(f, side, ts, n) == f[n] = IF n = 0 THEN <<>> ELSE Place(side, f[n - 1], ts[n])

LEMMA FramesAt ==
    ASSUME NEW f, NEW side, NEW ts, NEW m, Frames(f, side, ts, m), NEW n \in 0 .. m
    PROVE  FramesHere(f, side, ts, n)
  BY DEF Frames, FramesHere

LEMMA FramesExists ==
    ASSUME NEW side, NEW ts, NEW m \in Nat
    PROVE  \E f : Frames(f, side, ts, m)
<1> DEFINE S == {n \in Nat : \E f : Frames(f, side, ts, n)}
<1>1. 0 \in S
  <2>1. Frames([n \in 0 .. 0 |-> <<>>], side, ts, 0)
    BY DEF Frames
  <2>2. QED
    BY <2>1
<1>2. ASSUME NEW n \in Nat, n \in S PROVE n + 1 \in S
  <2>1. PICK f : Frames(f, side, ts, n)
    BY <1>2
  <2> DEFINE g == [i \in 0 .. n + 1 |-> IF i <= n THEN f[i] ELSE Place(side, f[i - 1], ts[i])]
  <2>2. ASSUME NEW i \in 0 .. n + 1
        PROVE  g[i] = IF i = 0 THEN <<>> ELSE Place(side, g[i - 1], ts[i])
    <3>1. CASE i <= n
      <4>1. i \in 0 .. n
        BY <3>1
      <4>2. QED
        BY <2>1, <3>1, <4>1, FramesAt DEF FramesHere
    <3>2. CASE i = n + 1
      BY <3>2
    <3>3. QED
      BY <3>1, <3>2
  <2>3. Frames(g, side, ts, n + 1)
    <3> DEFINE h == [i \in 0 .. n + 1 |-> IF i = 0 THEN <<>> ELSE Place(side, g[i - 1], ts[i])]
    <3>1. QED
      BY <2>2 DEF Frames
  <2>4. QED
    BY <2>3
<1>3. Nat \subseteq S
  <2> HIDE DEF S
  <2>1. QED
    BY <1>1, <1>2, NatInductionSet
<1>4. QED
  BY <1>3

LEMMA FramesChoice ==
    ASSUME NEW side, NEW ts, Len(ts) \in Nat
    PROVE  \E f : Frames(f, side, ts, Len(ts)) /\ Reframe(side, ts) = f[Len(ts)]
<1> DEFINE f == CHOOSE g : Frames(g, side, ts, Len(ts))
<1>1. Frames(f, side, ts, Len(ts))
  BY FramesExists
<1>2. QED
  BY <1>1 DEF Reframe, Frames

\* Two framings agree as far as the turns do.
LEMMA FramesUnique ==
    ASSUME NEW side, NEW ts, NEW us, NEW f, NEW g, NEW m \in Nat, NEW n \in Nat,
           Frames(f, side, ts, m), Frames(g, side, us, n),
           NEW k \in Nat, k <= m, k <= n, \A i \in 1 .. k : ts[i] = us[i]
    PROVE  \A i \in 0 .. k : f[i] = g[i]
<1> DEFINE S == {i \in Nat : i \in 0 .. k => f[i] = g[i]}
<1>1. 0 \in S
  BY FramesAt DEF FramesHere
<1>2. ASSUME NEW i \in Nat, i \in S PROVE i + 1 \in S
  <2>1. SUFFICES ASSUME i + 1 \in 0 .. k PROVE f[i + 1] = g[i + 1]
    OBVIOUS
  <2>2. i + 1 \in 0 .. m /\ i + 1 \in 0 .. n /\ ts[i + 1] = us[i + 1] /\ i + 1 # 0 /\ i + 1 - 1 = i
    BY <2>1
  <2>3. f[i] = g[i]
    BY <1>2, <2>1
  <2>4. QED
    BY <2>2, <2>3, FramesAt DEF FramesHere
<1>3. Nat \subseteq S
  <2> HIDE DEF S
  <2>1. QED
    BY <1>1, <1>2, NatInductionSet
<1>4. QED
  BY <1>3

LEMMA ReframeNothing ==
    ASSUME NEW side
    PROVE  Reframe(side, <<>>) = <<>>
<1>1. Len(<<>>) = 0 /\ Len(<<>>) \in Nat
  OBVIOUS
<1>2. PICK f : Frames(f, side, <<>>, Len(<<>>)) /\ Reframe(side, <<>>) = f[Len(<<>>)]
  BY <1>1, FramesChoice
<1>3. QED
  BY <1>1, <1>2, FramesAt DEF FramesHere

LEMMA ReframeAppend ==
    ASSUME NEW T, NEW side, NEW ts \in Seq(T), NEW t \in T
    PROVE  Reframe(side, Append(ts, t)) = Place(side, Reframe(side, ts), t)
<1> DEFINE us == Append(ts, t)
           n  == Len(ts)
<1>1. /\ n \in Nat /\ Len(us) = n + 1
      /\ \A i \in 1 .. n : ts[i] = us[i]
      /\ us[n + 1] = t
  BY AppendProperties, LenProperties
<1> HIDE DEF us, n
<1>2. PICK f : Frames(f, side, ts, n) /\ Reframe(side, ts) = f[n]
  BY <1>1, FramesChoice DEF n
<1>3. PICK g : Frames(g, side, us, n + 1) /\ Reframe(side, us) = g[n + 1]
  BY <1>1, FramesChoice
<1>4. f[n] = g[n]
  <2>1. n \in Nat /\ n + 1 \in Nat /\ n <= n /\ n <= n + 1 /\ n \in 0 .. n
    BY <1>1
  <2>2. \A i \in 1 .. n : ts[i] = us[i]
    BY <1>1
  <2>3. Frames(f, side, ts, n) /\ Frames(g, side, us, n + 1)
    BY <1>2, <1>3
  <2>4. \A i \in 0 .. n : f[i] = g[i]
    BY <2>1, <2>2, <2>3, FramesUnique, SMTT(30)
  <2>5. QED
    BY <2>1, <2>4
<1>5. g[n + 1] = Place(side, g[n], t)
  BY <1>1, <1>3, FramesAt DEF FramesHere
<1>6. QED
  BY <1>2, <1>3, <1>4, <1>5 DEF us

(***************************************************************************)
(* What turns show: the calls and the results in them.                     *)
(***************************************************************************)
Kinds  == {"text", "image", "blank", "reasoning", "toolUse", "toolResult", "cachePoint", "tool"}
Blocks == BlocksOf(Kinds)

\* The elements of two sequences in a row.
InARow(c, s, t) ==
    /\ \A i \in DOMAIN s : i \in DOMAIN c /\ c[i] = s[i]
    /\ \A i \in DOMAIN t : \E j \in DOMAIN c : c[j] = t[i]
    /\ \A j \in DOMAIN c : \/ j \in DOMAIN s /\ c[j] = s[j]
                           \/ \E i \in DOMAIN t : c[j] = t[i]

LEMMA ConcatElements ==
    ASSUME NEW T, NEW s \in Seq(T), NEW t \in Seq(T)
    PROVE  InARow(s \o t, s, t)
<1> DEFINE c == s \o t
           m == Len(s)
           n == Len(t)
<1>1. /\ c \in Seq(T) /\ m \in Nat /\ n \in Nat /\ DOMAIN s = 1 .. m /\ DOMAIN t = 1 .. n
      /\ DOMAIN c = 1 .. m + n
      /\ \A i \in 1 .. m : c[i] = s[i]
      /\ \A i \in 1 .. n : c[m + i] = t[i]
  BY ConcatProperties, LenProperties
<1> HIDE DEF c, m, n
<1>2. \A i \in DOMAIN s : i \in DOMAIN c /\ c[i] = s[i]
  BY <1>1
<1>3. \A i \in DOMAIN t : \E j \in DOMAIN c : c[j] = t[i]
  <2>1. TAKE i \in DOMAIN t
  <2>2. QED
    BY <1>1, <2>1
<1>4. \A j \in DOMAIN c : \/ j \in DOMAIN s /\ c[j] = s[j]
                          \/ \E i \in DOMAIN t : c[j] = t[i]
  <2>1. TAKE j \in DOMAIN c
  <2>2. CASE j <= m
    BY <1>1, <2>1, <2>2
  <2>3. CASE j > m
    <3>1. j - m \in 1 .. n /\ c[m + (j - m)] = t[j - m] /\ m + (j - m) = j
      BY <1>1, <2>1, <2>3
    <3>2. QED
      BY <1>1, <3>1
  <2>4. QED
    BY <1>1, <2>2, <2>3
<1>5. QED
  BY <1>2, <1>3, <1>4 DEF c, InARow

\* The numbers of the blocks of a kind.
Ids(content, kind) == {content[i].of : i \in {j \in DOMAIN content : content[j].kind = kind}}

LEMMA IdsNames ==
    ASSUME NEW content
    PROVE  /\ CallsOf(content) = Ids(content, "toolUse")
           /\ ResultsOf(content) = Ids(content, "toolResult")
  BY DEF CallsOf, ResultsOf, Ids

LEMMA IdsMember ==
    ASSUME NEW content, NEW kind, NEW x
    PROVE  x \in Ids(content, kind)
             <=> \E i \in DOMAIN content : content[i].kind = kind /\ content[i].of = x
  BY DEF Ids

LEMMA IdsConcat ==
    ASSUME NEW T, NEW s \in Seq(T), NEW t \in Seq(T), NEW kind
    PROVE  /\ Ids(s \o t, kind) = Ids(s, kind) \cup Ids(t, kind)
           /\ Carries(s \o t, kind) <=> Carries(s, kind) \/ Carries(t, kind)
<1> DEFINE c == s \o t
<1>1. InARow(c, s, t)
  BY ConcatElements
<1> HIDE DEF c
<1>2. /\ \A i \in DOMAIN s : i \in DOMAIN c /\ c[i] = s[i]
      /\ \A i \in DOMAIN t : \E j \in DOMAIN c : c[j] = t[i]
      /\ \A j \in DOMAIN c : \/ j \in DOMAIN s /\ c[j] = s[j]
                             \/ \E i \in DOMAIN t : c[j] = t[i]
  BY <1>1 DEF InARow
<1>3. \A x : x \in Ids(c, kind) <=> x \in Ids(s, kind) \/ x \in Ids(t, kind)
  <2>1. TAKE x
  <2>2. ASSUME x \in Ids(c, kind) PROVE x \in Ids(s, kind) \/ x \in Ids(t, kind)
    <3>1. PICK j \in DOMAIN c : c[j].kind = kind /\ c[j].of = x
      BY <2>2, IdsMember
    <3>2. QED
      BY <1>2, <3>1, IdsMember
  <2>3. ASSUME x \in Ids(s, kind) PROVE x \in Ids(c, kind)
    <3>1. PICK j \in DOMAIN s : s[j].kind = kind /\ s[j].of = x
      BY <2>3, IdsMember
    <3>2. QED
      BY <1>2, <3>1, IdsMember
  <2>4. ASSUME x \in Ids(t, kind) PROVE x \in Ids(c, kind)
    <3>1. PICK j \in DOMAIN t : t[j].kind = kind /\ t[j].of = x
      BY <2>4, IdsMember
    <3>2. PICK i \in DOMAIN c : c[i] = t[j]
      BY <1>2
    <3>3. QED
      BY <3>1, <3>2, IdsMember
  <2>5. QED
    BY <2>2, <2>3, <2>4
<1>4. Carries(c, kind) <=> Carries(s, kind) \/ Carries(t, kind)
  <2>1. ASSUME Carries(c, kind) PROVE Carries(s, kind) \/ Carries(t, kind)
    BY <1>2, <2>1 DEF Carries
  <2>2. ASSUME Carries(s, kind) PROVE Carries(c, kind)
    BY <1>2, <2>2 DEF Carries
  <2>3. ASSUME Carries(t, kind) PROVE Carries(c, kind)
    BY <1>2, <2>3 DEF Carries
  <2>4. QED
    BY <2>1, <2>2, <2>3
<1>5. QED
  BY <1>3, <1>4 DEF c

LEMMA IdsCarried ==
    ASSUME NEW content, NEW kind
    PROVE  Carries(content, kind) <=> Ids(content, kind) # {}
  BY DEF Carries, Ids

LEMMA IdsNone ==
    ASSUME NEW T, NEW content \in Seq(T), NEW kind, \A b \in T : b.kind # kind
    PROVE  Ids(content, kind) = {} /\ ~ Carries(content, kind)
<1>1. QED
  BY DEF Ids, Carries

-----------------------------------------------------------------------------
(* Place *)

TurnsWith(B) == [role : {"user", "assistant"}, content : Seq(B)]

\* r is framed and the turn behind it,
Appended(r, framed, turn) ==
    /\ Len(r) = Len(framed) + 1
    /\ \A n \in 1 .. Len(framed) : r[n] = framed[n]
    /\ r[Len(framed) + 1] = turn

\* or framed with the turn's content behind that of its last turn.
Extended(r, framed, turn) ==
    /\ framed # <<>> /\ Len(r) = Len(framed)
    /\ \A n \in 1 .. Len(framed) - 1 : r[n] = framed[n]
    /\ framed[Len(framed)].role = turn.role
    /\ r[Len(framed)].role = turn.role
    /\ r[Len(framed)].content = framed[Len(framed)].content \o turn.content

Splits(side, framed, turn) ==
    \/ framed = <<>>
    \/ framed[Len(framed)].role # turn.role
    \/ ShouldSplit(side, turn.role, framed[Len(framed)].content, turn.content)

LEMMA PlaceForms ==
    ASSUME NEW B, NEW side, NEW framed \in Seq(TurnsWith(B)), NEW turn \in TurnsWith(B)
    PROVE  LET r == Place(side, framed, turn)
           IN  /\ r \in Seq(TurnsWith(B))
               /\ Splits(side, framed, turn) => Appended(r, framed, turn)
               /\ ~ Splits(side, framed, turn) => Extended(r, framed, turn)
<1> DEFINE T == TurnsWith(B)
           m == Len(framed)
<1>1. m \in Nat /\ DOMAIN framed = 1 .. m /\ (framed # <<>> => m \in 1 .. m)
  BY EmptySeq, LenProperties
<1>2. Last(framed) = framed[m]
  BY DEF Last
<1>3. CASE Splits(side, framed, turn)
  <2>1. Place(side, framed, turn) = Append(framed, turn)
    BY <1>2, <1>3 DEF Place, Splits
  <2> HIDE DEF T
  <2>2. QED
    BY <1>3, <2>1, AppendProperties DEF Appended, T
<1>4. CASE ~ Splits(side, framed, turn)
  <2> DEFINE last == framed[m]
             c    == last.content \o turn.content
             r    == [framed EXCEPT ![m].content = c]
  <2>1. m \in 1 .. m /\ framed # <<>> /\ last.role = turn.role
    BY <1>1, <1>4 DEF Splits
  <2>2. Place(side, framed, turn) = r
    BY <1>2, <1>4 DEF Place, Splits
  <2>3. last \in T
    BY <1>1, <2>1
  <2>4. c \in Seq(B)
    BY <2>3 DEF TurnsWith
  <2>5. [last EXCEPT !.content = c] \in T /\ [last EXCEPT !.content = c].role = last.role
        /\ [last EXCEPT !.content = c].content = c
    <3> HIDE DEF c, last
    <3>1. QED
      BY <2>3, <2>4 DEF TurnsWith
  <2> DEFINE e == [last EXCEPT !.content = c]
  <2> HIDE DEF e, T
  <2>6. /\ r \in Seq(T) /\ Len(r) = m /\ \A n \in 1 .. m - 1 : r[n] = framed[n]
        /\ r[m] = e
    BY <1>1, <2>1, <2>5 DEF e, T
  <2> HIDE DEF r, c, last
  <2>7. QED
    BY <1>4, <2>1, <2>2, <2>5, <2>6 DEF T, Extended, e, c, last
<1>5. QED
  BY <1>3, <1>4

\* A turn is of the user, with questions or with results, or of the assistant.
Asks(content)  == content \in Seq(Spoken) /\ content # <<>> /\ ~ Carries(content, "toolResult")
Gives(content) == content \in Seq(Results) /\ content # <<>> /\ Carries(content, "toolResult")
Says(content)  == content \in Seq(Answered) /\ content # <<>> /\ ~ Carries(content, "toolResult")

LEMMA AskedContent ==
    ASSUME NEW c \in Seq(Spoken), c # <<>>
    PROVE  Asks(c) /\ ~ Carries(c, "toolUse") /\ ~ Carries(c, "reasoning")
<1>1. \A b \in Spoken : b.kind \notin {"toolUse", "toolResult", "reasoning"}
  BY DEF Spoken, BlocksOf
<1>2. QED
  BY <1>1, IdsNone DEF Asks

LEMMA GivenContent ==
    ASSUME NEW c \in Seq(Results), c # <<>>
    PROVE  Gives(c) /\ ~ Carries(c, "toolUse") /\ ~ Carries(c, "reasoning")
<1>1. \A b \in Results : b.kind = "toolResult"
  BY DEF Results
<1>2. Carries(c, "toolResult")
  BY <1>1, EmptySeq DEF Carries
<1>3. \A b \in Results : b.kind # "toolUse" /\ b.kind # "reasoning"
  BY <1>1
<1>4. QED
  BY <1>2, <1>3, IdsNone DEF Gives

LEMMA SaidContent ==
    ASSUME NEW c \in Seq(Answered), c # <<>>
    PROVE  Says(c)
<1>1. \A b \in Answered : b.kind # "toolResult"
  BY DEF Answered, BlocksOf
<1>2. QED
  BY <1>1, IdsNone DEF Says

LEMMA TurnClass ==
    ASSUME NEW t
    PROVE  t \in AllTurns <=> /\ t = [role |-> t.role, content |-> t.content]
                              /\ \/ t.role = "user" /\ (Asks(t.content) \/ Gives(t.content))
                                 \/ t.role = "assistant" /\ Says(t.content)
<1>1. t \in UserTurns <=> /\ t = [role |-> t.role, content |-> t.content]
                          /\ t.role = "user" /\ (Asks(t.content) \/ Gives(t.content))
  <2>1. t \in UserTurns <=> /\ t = [role |-> t.role, content |-> t.content]
                            /\ t.role = "user"
                            /\ t.content # <<>>
                            /\ t.content \in Seq(Spoken) \/ t.content \in Seq(Results)
    <3> DEFINE V == Seq(Spoken)
               W == Seq(Results)
    <3> HIDE DEF V, W
    <3>1. QED
      BY DEF V, W, UserTurns
  <2>2. QED
    BY <2>1, GivenContent, AskedContent DEF Gives, Asks
<1>2. t \in AssistantTurns <=> /\ t = [role |-> t.role, content |-> t.content]
                               /\ t.role = "assistant" /\ Says(t.content)
  <2>1. t \in AssistantTurns <=> /\ t = [role |-> t.role, content |-> t.content]
                                 /\ t.role = "assistant"
                                 /\ t.content # <<>> /\ t.content \in Seq(Answered)
    <3> DEFINE V == Seq(Answered)
    <3> HIDE DEF V
    <3>1. QED
      BY DEF V, AssistantTurns
  <2>2. QED
    BY <2>1, SaidContent DEF Says
<1>3. QED
  BY <1>1, <1>2 DEF AllTurns

LEMMA KindOf ==
    ASSUME NEW K, NEW L, K \subseteq L, NEW V, NEW W, V \subseteq W
    PROVE  [kind : K, of : Int, tag : V] \subseteq [kind : L, of : Int, tag : W]
<1>1. SUFFICES ASSUME NEW b \in [kind : K, of : Int, tag : V]
               PROVE  b \in [kind : L, of : Int, tag : W]
  OBVIOUS
<1>2. QED
  OBVIOUS

LEMMA SomeBlocks ==
    /\ Seq(Spoken) \subseteq Seq(Blocks) /\ Seq(Results) \subseteq Seq(Blocks)
    /\ Seq(Answered) \subseteq Seq(Blocks)
<1> DEFINE V == Seq(STRING)
<1>1. {<<>>} \subseteq V
  BY EmptySeq
<1>2. Spoken \subseteq Blocks
  BY KindOf DEF Spoken, BlocksOf, Blocks, Kinds
<1>3. Answered \subseteq Blocks
  BY KindOf DEF Answered, BlocksOf, Blocks, Kinds
<1>4. Results \subseteq Blocks
  BY <1>1, KindOf DEF Results, BlocksOf, Blocks, Kinds
<1>5. QED
  BY <1>2, <1>3, <1>4

LEMMA TurnBlocks == AllTurns \subseteq TurnsWith(Blocks)
<1>1. SUFFICES ASSUME NEW t \in AllTurns PROVE t \in TurnsWith(Blocks)
  OBVIOUS
<1>2. QED
  BY TurnClass, SomeBlocks DEF TurnsWith, Asks, Gives, Says

\* Contents of one kind that are put together stay of this kind.
LEMMA JoinedContent ==
    ASSUME NEW c, NEW d
    PROVE  /\ Asks(c) /\ Asks(d) => Asks(c \o d)
           /\ Gives(c) /\ Gives(d) => Gives(c \o d)
           /\ Says(c) /\ Says(d) => Says(c \o d)
<1>1. ASSUME NEW T, c \in Seq(T), d \in Seq(T), c # <<>> PROVE c \o d \in Seq(T) /\ c \o d # <<>>
  BY <1>1
<1>2. Says(c) /\ Says(d) => Says(c \o d)
  BY <1>1, SaidContent DEF Says
<1>3. QED
  BY <1>1, <1>2, GivenContent, AskedContent DEF Gives, Asks

LEMMA TurnSplit ==
    ASSUME NEW side, NEW c, NEW d
    PROVE  ShouldSplit(side, "user", c, d) <=> (Carries(c, "toolResult") # Carries(d, "toolResult"))
  BY DEF ShouldSplit, ShouldSplitSameRoleMerge, ShouldSplitResponseTurn

\* Turns stay turns.
LEMMA PlaceType ==
    ASSUME NEW side, NEW framed \in Seq(AllTurns), NEW turn \in AllTurns
    PROVE  LET r == Place(side, framed, turn)
           IN  /\ r \in Seq(AllTurns)
               /\ Splits(side, framed, turn) => Appended(r, framed, turn)
               /\ ~ Splits(side, framed, turn) => Extended(r, framed, turn)
<1> DEFINE T == TurnsWith(Blocks)
           r == Place(side, framed, turn)
           m == Len(framed)
<1>1. /\ r \in Seq(T)
      /\ Splits(side, framed, turn) => Appended(r, framed, turn)
      /\ ~ Splits(side, framed, turn) => Extended(r, framed, turn)
  BY PlaceForms, TurnBlocks
<1>2. m \in Nat /\ \A n \in 1 .. m : framed[n] \in AllTurns
  OBVIOUS
<1>3. Len(r) \in Nat /\ r = [n \in 1 .. Len(r) |-> r[n]] /\ \A n \in 1 .. Len(r) : r[n] \in T
  BY <1>1
<1> HIDE DEF r, m
<1>4. ASSUME NEW n \in 1 .. Len(r) PROVE r[n] \in AllTurns
  <2>1. CASE Appended(r, framed, turn)
    <3>1. CASE n = m + 1
      BY <2>1, <3>1 DEF Appended, m
    <3>2. CASE n # m + 1
      BY <1>2, <2>1, <3>2 DEF Appended, m
    <3>3. QED
      BY <3>1, <3>2
  <2>2. CASE ~ Splits(side, framed, turn)
    <3>1. Extended(r, framed, turn)
      BY <1>1, <2>2
    <3>2. CASE n # m
      BY <1>2, <3>1, <3>2 DEF Extended, m
    <3>3. CASE n = m
      <4> DEFINE t == framed[m]
                 u == r[m]
      <4>1. t \in AllTurns /\ t.role = turn.role /\ u.role = turn.role
            /\ u.content = t.content \o turn.content /\ u \in T
        BY <1>2, <1>3, <3>1, <3>3 DEF Extended, m
      <4>2. ~ ShouldSplit(side, turn.role, t.content, turn.content)
        BY <2>2 DEF Splits, m
      <4>3. u = [role |-> u.role, content |-> u.content]
        BY <4>1 DEF TurnsWith
      <4> HIDE DEF t, u
      <4>4. \/ t.role = "user" /\ (Asks(t.content) \/ Gives(t.content))
            \/ t.role = "assistant" /\ Says(t.content)
        BY <4>1, TurnClass
      <4>5. \/ turn.role = "user" /\ (Asks(turn.content) \/ Gives(turn.content))
            \/ turn.role = "assistant" /\ Says(turn.content)
        BY TurnClass
      <4>6. CASE turn.role = "user"
        <5>1. Asks(u.content) \/ Gives(u.content)
          BY <4>1, <4>2, <4>4, <4>5, <4>6, JoinedContent, TurnSplit DEF Asks, Gives
        <5>2. QED
          BY <3>3, <4>1, <4>3, <4>6, <5>1, TurnClass DEF u
      <4>7. CASE turn.role = "assistant"
        <5>1. u \in AllTurns
          BY <4>1, <4>3, <4>4, <4>5, <4>7, TurnClass, JoinedContent
        <5>2. QED
          BY <3>3, <5>1 DEF u
      <4>8. QED
        BY <4>5, <4>6, <4>7
    <3>4. QED
      BY <3>2, <3>3
  <2>3. QED
    BY <1>1, <2>1, <2>2
<1>5. QED
  BY <1>1, <1>3, <1>4 DEF r

(***************************************************************************)
(* Pairing.  Results stand behind their calls while turns are placed.      *)
(***************************************************************************)
LEMMA PlacedViews ==
    ASSUME NEW side, NEW framed \in Seq(AllTurns), NEW turn \in AllTurns, NEW r,
           Extended(r, framed, turn)
    PROVE  LET m == Len(framed)
           IN  /\ CallsAt(r, m) = CallsAt(framed, m) \cup CallsOf(turn.content)
               /\ ResultsAt(r, m) = ResultsAt(framed, m) \cup ResultsOf(turn.content)
<1> DEFINE m == Len(framed)
           c == framed[m].content
           d == turn.content
<1>1. framed # <<>> /\ r[m].content = c \o d
  BY DEF Extended
<1>2. c \in Seq(Blocks) /\ d \in Seq(Blocks)
  <2>1. framed[m] \in AllTurns
    BY <1>1, EmptySeq
  <2> HIDE DEF m
  <2>2. QED
    BY <2>1, TurnBlocks DEF TurnsWith
<1> HIDE DEF m, c, d
<1>3. QED
  BY <1>1, <1>2, IdsNames, IdsConcat DEF CallsAt, ResultsAt, m, c, d

\* The invariant after one more turn,
LEMMA PairedAppend ==
    ASSUME NEW framed, NEW m \in Nat, Len(framed) = m, framed # <<>> <=> m > 0,
           NEW turn, NEW r, Appended(r, framed, turn), r # <<>>, NEW open, NEW more,
           Paired(framed, open),
           m = 0 => ResultsOf(turn.content) = {},
           m > 0 => ResultsOf(turn.content) \subseteq CallsAt(framed, m),
           m > 0 /\ CallsAt(framed, m) # {} =>
              ResultsOf(turn.content) # {} /\ CallsAt(framed, m) \ ResultsOf(turn.content) = more,
           m > 1 /\ CallsAt(framed, m - 1) # {} => open = {},
           CallsOf(turn.content) # {} => CallsOf(turn.content) = more,
           more # {} => CallsOf(turn.content) # {} \/ ResultsOf(turn.content) # {}
    PROVE  Paired(r, more)
<1>1. /\ Len(r) = m + 1
      /\ \A n \in 1 .. m : CallsAt(r, n) = CallsAt(framed, n) /\ ResultsAt(r, n) = ResultsAt(framed, n)
      /\ CallsAt(r, m + 1) = CallsOf(turn.content) /\ ResultsAt(r, m + 1) = ResultsOf(turn.content)
  BY DEF Appended, CallsAt, ResultsAt
<1>2. ResultsAt(r, 1) = {}
  <2>1. CASE m = 0
    BY <1>1, <2>1
  <2>2. CASE m > 0
    BY <1>1, <2>2 DEF Paired
  <2>3. QED
    BY <2>1, <2>2
<1>3. ASSUME NEW n \in 1 .. m
      PROVE  /\ ResultsAt(r, n + 1) \subseteq CallsAt(r, n)
             /\ CallsAt(r, n) # {} =>
                   /\ ResultsAt(r, n + 1) # {}
                   /\ CallsAt(r, n) \ ResultsAt(r, n + 1) = IF n + 1 < m + 1 THEN {} ELSE more
  <2>1. CASE n = m
    BY <1>1, <2>1
  <2>2. CASE n < m
    <3>1. n \in 1 .. m - 1 /\ n + 1 \in 1 .. m /\ n + 1 < m + 1
      BY <2>2
    <3>2. /\ ResultsAt(framed, n + 1) \subseteq CallsAt(framed, n)
          /\ CallsAt(framed, n) # {} =>
                /\ ResultsAt(framed, n + 1) # {}
                /\ CallsAt(framed, n) \ ResultsAt(framed, n + 1)
                      = IF n + 1 < m THEN {} ELSE open
      BY <3>1 DEF Paired
    <3>3. CallsAt(framed, n) # {} => CallsAt(framed, n) \ ResultsAt(framed, n + 1) = {}
      <4>1. CASE n + 1 < m
        BY <3>2, <4>1
      <4>2. CASE n = m - 1
        BY <3>2, <4>2
      <4>3. QED
        BY <3>1, <4>1, <4>2
    <3>4. QED
      BY <1>1, <3>1, <3>2, <3>3
  <2>3. QED
    BY <2>1, <2>2
<1>4. QED
  BY <1>1, <1>2, <1>3 DEF Paired

\* and after more content of the last turn.
LEMMA PairedExtend ==
    ASSUME NEW framed \in Seq(AllTurns), NEW turn \in AllTurns, NEW r,
           Extended(r, framed, turn), r # <<>>, NEW open, NEW more, Paired(framed, open),
           NEW m \in Nat, m = Len(framed),
           NEW calls, calls = CallsAt(framed, m) \cup CallsOf(turn.content),
           NEW results, results = ResultsAt(framed, m) \cup ResultsOf(turn.content),
           m = 1 => results = {},
           m > 1 => results \subseteq CallsAt(framed, m - 1),
           m > 1 /\ CallsAt(framed, m - 1) # {} => CallsAt(framed, m - 1) \ results = more,
           calls # {} => calls = more,
           more # {} => calls # {} \/ results # {}
    PROVE  Paired(r, more)
<1>1. /\ Len(r) = m /\ framed # <<>> /\ m > 0
      /\ \A n \in 1 .. m - 1 : CallsAt(r, n) = CallsAt(framed, n) /\ ResultsAt(r, n) = ResultsAt(framed, n)
  BY EmptySeq DEF Extended, CallsAt, ResultsAt
<1>2. CallsAt(r, m) = calls /\ ResultsAt(r, m) = results
  BY PlacedViews
<1>3. /\ ResultsAt(framed, 1) = {}
      /\ \A n \in 1 .. m - 1 :
            /\ ResultsAt(framed, n + 1) \subseteq CallsAt(framed, n)
            /\ CallsAt(framed, n) # {} =>
                  /\ ResultsAt(framed, n + 1) # {}
                  /\ CallsAt(framed, n) \ ResultsAt(framed, n + 1)
                        = IF n + 1 < m THEN {} ELSE open
  BY <1>1 DEF Paired
<1>4. ResultsAt(r, 1) = {}
  <2>1. CASE m = 1
    BY <1>2, <2>1
  <2>2. CASE m # 1
    BY <1>1, <1>3, <2>2
  <2>3. QED
    BY <2>1, <2>2
<1>5. ASSUME NEW n \in 1 .. m - 1
      PROVE  /\ ResultsAt(r, n + 1) \subseteq CallsAt(r, n)
             /\ CallsAt(r, n) # {} =>
                   /\ ResultsAt(r, n + 1) # {}
                   /\ CallsAt(r, n) \ ResultsAt(r, n + 1) = IF n + 1 < m THEN {} ELSE more
  <2>1. CASE n + 1 = m
    BY <1>1, <1>2, <1>3, <2>1
  <2>2. CASE n + 1 < m
    BY <1>1, <1>3, <2>2
  <2>3. QED
    BY <2>1, <2>2
<1>6. QED
  BY <1>1, <1>2, <1>4, <1>5 DEF Paired

LEMMA TurnViews ==
    ASSUME NEW t \in AllTurns
    PROVE  /\ t.role = "user" => CallsOf(t.content) = {}
           /\ t.role = "assistant" => ResultsOf(t.content) = {}
           /\ t.role \in {"user", "assistant"}
           /\ Carries(t.content, "toolUse") <=> CallsOf(t.content) # {}
           /\ Carries(t.content, "toolResult") <=> ResultsOf(t.content) # {}
<1>1. Asks(t.content) \/ Gives(t.content) => ~ Carries(t.content, "toolUse")
  BY AskedContent, GivenContent DEF Asks, Gives
<1>2. Says(t.content) => ~ Carries(t.content, "toolResult")
  BY DEF Says
<1>3. QED
  BY <1>1, <1>2, IdsNames, IdsCarried, TurnClass

\* The last turns of a framing.
LEMMA LastTurns ==
    ASSUME NEW framed \in Seq(AllTurns), NEW m, m = Len(framed)
    PROVE  /\ m \in Nat /\ (framed # <<>> <=> m > 0)
           /\ m > 0 => framed[m] \in AllTurns
           /\ \A n \in 1 .. m : framed[n] \in AllTurns
  BY EmptySeq

\* A turn with calls stands before no other.
LEMMA CallsApart ==
    ASSUME NEW framed \in Seq(AllTurns), NEW m, m = Len(framed), NEW open, Paired(framed, open)
    PROVE  /\ m > 1 /\ CallsAt(framed, m - 1) # {} =>
                 ResultsAt(framed, m) # {} /\ CallsAt(framed, m) = {} /\ framed[m].role = "user"
           /\ m > 0 /\ CallsAt(framed, m) # {} =>
                 ResultsAt(framed, m) = {} /\ framed[m].role = "assistant" /\ CallsAt(framed, m) = open
           /\ m > 0 /\ ResultsAt(framed, m) # {} =>
                 /\ m > 1 /\ framed[m].role = "user" /\ CallsAt(framed, m) = {}
                 /\ ResultsAt(framed, m) \subseteq CallsAt(framed, m - 1)
                 /\ CallsAt(framed, m - 1) \ ResultsAt(framed, m) = open
<1>1. m \in Nat /\ (framed # <<>> <=> m > 0)
  BY LastTurns
<1>2. /\ m > 0 => ResultsAt(framed, 1) = {}
      /\ \A n \in 1 .. m - 1 :
            /\ ResultsAt(framed, n + 1) \subseteq CallsAt(framed, n)
            /\ CallsAt(framed, n) # {} =>
                  /\ ResultsAt(framed, n + 1) # {}
                  /\ CallsAt(framed, n) \ ResultsAt(framed, n + 1)
                        = IF n + 1 < m THEN {} ELSE open
      /\ m > 0 /\ CallsAt(framed, m) # {} => CallsAt(framed, m) = open
  BY <1>1 DEF Paired
<1>3. m > 0 => /\ framed[m].role = "user" => CallsAt(framed, m) = {}
               /\ framed[m].role = "assistant" => ResultsAt(framed, m) = {}
               /\ framed[m].role \in {"user", "assistant"}
  BY LastTurns, TurnViews DEF CallsAt, ResultsAt
<1>4. m > 1 => /\ m - 1 \in 1 .. m - 1 /\ m - 1 + 1 = m /\ ~ (m < m)
               /\ ResultsAt(framed, m) \subseteq CallsAt(framed, m - 1)
               /\ CallsAt(framed, m - 1) # {} =>
                     /\ ResultsAt(framed, m) # {}
                     /\ CallsAt(framed, m - 1) \ ResultsAt(framed, m) = open
  <2>1. SUFFICES ASSUME m > 1
                 PROVE  /\ m - 1 \in 1 .. m - 1 /\ m - 1 + 1 = m /\ ~ (m < m)
                        /\ ResultsAt(framed, m) \subseteq CallsAt(framed, m - 1)
                        /\ CallsAt(framed, m - 1) # {} =>
                              /\ ResultsAt(framed, m) # {}
                              /\ CallsAt(framed, m - 1) \ ResultsAt(framed, m) = open
    OBVIOUS
  <2>2. QED
    BY <1>1, <1>2, <2>1
<1>5. m > 0 /\ ResultsAt(framed, m) # {} => m > 1
  BY <1>1, <1>2
<1>6. QED
  BY <1>1, <1>2, <1>3, <1>4, <1>5

\* A question is placed when no call is open.
LEMMA PlaceQuestion ==
    ASSUME NEW side, NEW framed \in Seq(AllTurns), Paired(framed, {}),
           NEW turn \in AllTurns, turn.role = "user", ResultsOf(turn.content) = {}
    PROVE  Paired(Place(side, framed, turn), {})
<1> DEFINE r == Place(side, framed, turn)
           m == Len(framed)
<1>1. /\ r \in Seq(AllTurns)
      /\ Splits(side, framed, turn) => Appended(r, framed, turn)
      /\ ~ Splits(side, framed, turn) => Extended(r, framed, turn)
  BY PlaceType
<1>2. m \in Nat /\ (framed # <<>> <=> m > 0) /\ (m > 0 => framed[m] \in AllTurns)
  BY LastTurns
<1>3. CallsOf(turn.content) = {} /\ ~ Carries(turn.content, "toolResult")
  BY TurnViews
<1>4. /\ m > 1 /\ CallsAt(framed, m - 1) # {} =>
                 ResultsAt(framed, m) # {} /\ CallsAt(framed, m) = {} /\ framed[m].role = "user"
      /\ m > 0 => CallsAt(framed, m) = {}
  BY CallsApart
<1> HIDE DEF r, m
<1>5. CASE Splits(side, framed, turn)
  <2>1. Appended(r, framed, turn)
    BY <1>1, <1>5
  <2>2. r # <<>>
    BY <1>2, <2>1, EmptySeq DEF Appended, m
  <2>3. QED
    BY <1>2, <1>3, <1>4, <2>1, <2>2, PairedAppend DEF r, m
<1>6. CASE ~ Splits(side, framed, turn)
  <2>1. Extended(r, framed, turn)
    BY <1>1, <1>6
  <2>2. r # <<>> /\ m > 0
    BY <1>2, <2>1, EmptySeq DEF Extended, m
  <2>3. ResultsAt(framed, m) = {}
    <3>1. ~ Carries(framed[m].content, "toolResult")
      BY <1>3, <1>6, TurnSplit DEF Carries, Splits, m
    <3>2. QED
      BY <1>2, <2>2, <3>1, TurnViews DEF ResultsAt
  <2>4. Paired(r, {})
    BY <1>2, <1>3, <1>4, <2>1, <2>2, <2>3, PairedExtend DEF m
  <2>5. QED
    BY <2>4 DEF r
<1>7. QED
  BY <1>5, <1>6

\* Calls may join open ones only in one turn without reasoning, on Responses.
MayFollow(side, framed, open, content) ==
    open # {} => /\ side # "chat" /\ CallsOf(content) # {} /\ ~ Carries(content, "reasoning")
                 /\ CallsAt(framed, Len(framed)) = open

Called(r, open, calls) ==
    /\ Paired(r, open \cup calls)
    /\ calls # {} => CallsAt(r, Len(r)) = open \cup calls

\* What the upstream said is placed when no call is open, and on Responses, call
\* by call, while the calls before it wait.
LEMMA PlaceSaid ==
    ASSUME NEW side, NEW framed \in Seq(AllTurns), NEW open, Paired(framed, open),
           NEW turn \in AllTurns, turn.role = "assistant",
           MayFollow(side, framed, open, turn.content)
    PROVE  Called(Place(side, framed, turn), open, CallsOf(turn.content))
<1> DEFINE r == Place(side, framed, turn)
           m == Len(framed)
           calls == CallsOf(turn.content)
<1>1. open # {} => /\ side # "chat" /\ calls # {} /\ ~ Carries(turn.content, "reasoning")
                   /\ CallsAt(framed, Len(framed)) = open
  BY DEF MayFollow
<1>2. /\ r \in Seq(AllTurns)
      /\ Splits(side, framed, turn) => Appended(r, framed, turn)
      /\ ~ Splits(side, framed, turn) => Extended(r, framed, turn)
  BY PlaceType
<1>3. m \in Nat /\ (framed # <<>> <=> m > 0) /\ (m > 0 => framed[m] \in AllTurns)
  BY LastTurns
<1>4. ResultsOf(turn.content) = {} /\ (Carries(turn.content, "toolUse") <=> calls # {})
  BY TurnViews DEF calls
<1>5. /\ m > 1 /\ CallsAt(framed, m - 1) # {} =>
                 ResultsAt(framed, m) # {} /\ CallsAt(framed, m) = {} /\ framed[m].role = "user"
      /\ m > 0 /\ CallsAt(framed, m) # {} =>
                 ResultsAt(framed, m) = {} /\ framed[m].role = "assistant" /\ CallsAt(framed, m) = open
      /\ m > 0 /\ ResultsAt(framed, m) # {} => framed[m].role = "user"
  BY CallsApart
<1>6. open # {} => m > 0 /\ ~ Splits(side, framed, turn)
  <2>1. SUFFICES ASSUME open # {} PROVE m > 0 /\ ~ Splits(side, framed, turn)
    OBVIOUS
  <2>2. m > 0
    BY <1>1, <1>3, <2>1 DEF Paired
  <2>3. framed[m].role = "assistant" /\ Carries(framed[m].content, "toolUse")
    BY <1>1, <1>3, <1>5, <2>1, <2>2, TurnViews DEF m, CallsAt
  <2>4. ~ ShouldSplit(side, turn.role, framed[m].content, turn.content)
    BY <1>1, <1>4, <2>1, <2>3 DEF ShouldSplit, ShouldSplitResponseTurn,
       ShouldSplitSameRoleMerge, Carries
  <2>5. QED
    BY <1>3, <2>2, <2>3, <2>4 DEF Splits, m
<1> HIDE DEF r, m, calls
<1>7. CASE Splits(side, framed, turn)
  <2>1. Appended(r, framed, turn) /\ open = {}
    BY <1>2, <1>6, <1>7
  <2>2. r # <<>>
    BY <1>3, <2>1, EmptySeq DEF Appended, m
  <2>3. Paired(r, calls)
    BY <1>3, <1>4, <1>5, <2>1, <2>2, PairedAppend DEF m, calls
  <2>4. open \cup calls = calls
    BY <2>1
  <2>5. QED
    BY <1>3, <2>1, <2>3, <2>4 DEF r, calls, Called, Appended, CallsAt, m
<1>8. CASE ~ Splits(side, framed, turn)
  <2> DEFINE more == open \cup calls
             k    == CallsAt(framed, m) \cup calls
             q    == ResultsAt(framed, m) \cup ResultsOf(turn.content)
  <2>1. Extended(r, framed, turn)
    BY <1>2, <1>8
  <2>2. r # <<>> /\ m > 0 /\ Len(r) = m
    BY <1>3, <2>1, EmptySeq DEF Extended, m
  <2>3. framed[m].role = "assistant"
    BY <2>1 DEF Extended, m
  <2>4. q = {}
    BY <1>4, <1>5, <2>2, <2>3
  <2>5. k = more
    <3>1. CASE open = {}
      BY <1>5, <2>2, <3>1
    <3>2. CASE open # {}
      BY <1>1, <3>2 DEF m
    <3>3. QED
      BY <3>1, <3>2
  <2>6. CallsAt(r, m) = k
    BY <2>1, PlacedViews DEF m, calls
  <2> HIDE DEF k, q, more
  <2>7. Paired(r, more)
    BY <1>3, <1>5, <2>1, <2>2, <2>3, <2>4, <2>5, PairedExtend DEF m, k, q, calls
  <2>8. QED
    BY <2>2, <2>5, <2>6, <2>7 DEF r, more, calls, Called
<1>9. QED
  BY <1>7, <1>8

\* The result of an open call closes it; a result that comes again changes nothing.
LEMMA PlaceResult ==
    ASSUME NEW side, NEW framed \in Seq(AllTurns), NEW open, Paired(framed, open),
           NEW turn \in AllTurns, turn.role = "user",
           NEW id, ResultsOf(turn.content) = {id},
           id \in open \/ (framed # <<>> /\ id \in ResultsAt(framed, Len(framed)))
    PROVE  LET r == Place(side, framed, turn)
           IN  /\ Paired(r, open \ {id})
               /\ id \in ResultsAt(r, Len(r))
               /\ framed # <<>> => ResultsAt(framed, Len(framed)) \subseteq ResultsAt(r, Len(r))
<1> DEFINE r == Place(side, framed, turn)
           m == Len(framed)
           more == open \ {id}
<1>1. /\ r \in Seq(AllTurns)
      /\ Splits(side, framed, turn) => Appended(r, framed, turn)
      /\ ~ Splits(side, framed, turn) => Extended(r, framed, turn)
  BY PlaceType
<1>2. m \in Nat /\ (framed # <<>> <=> m > 0) /\ (m > 0 => framed[m] \in AllTurns)
  BY LastTurns
<1>3. CallsOf(turn.content) = {} /\ Carries(turn.content, "toolResult")
  BY TurnViews
<1>4. /\ m > 1 /\ CallsAt(framed, m - 1) # {} =>
                 ResultsAt(framed, m) # {} /\ CallsAt(framed, m) = {} /\ framed[m].role = "user"
      /\ m > 0 /\ CallsAt(framed, m) # {} =>
                 ResultsAt(framed, m) = {} /\ framed[m].role = "assistant" /\ CallsAt(framed, m) = open
      /\ m > 0 /\ ResultsAt(framed, m) # {} =>
                 /\ m > 1 /\ framed[m].role = "user" /\ CallsAt(framed, m) = {}
                 /\ ResultsAt(framed, m) \subseteq CallsAt(framed, m - 1)
                 /\ CallsAt(framed, m - 1) \ ResultsAt(framed, m) = open
  BY CallsApart
<1>5. m > 0 /\ (CallsAt(framed, m) # {} \/ ResultsAt(framed, m) # {})
  <2>1. CASE id \in open
    BY <1>2, <2>1 DEF Paired, m
  <2>2. CASE framed # <<>> /\ id \in ResultsAt(framed, m)
    BY <1>2, <2>2
  <2>3. QED
    BY <2>1, <2>2 DEF m
<1>6. CASE CallsAt(framed, m) # {}
  <2>1. framed[m].role = "assistant" /\ ResultsAt(framed, m) = {} /\ CallsAt(framed, m) = open
        /\ ~ (m > 1 /\ CallsAt(framed, m - 1) # {})
    BY <1>4, <1>5, <1>6
  <2>2. Splits(side, framed, turn) /\ Appended(r, framed, turn)
    BY <1>1, <2>1 DEF Splits
  <2> HIDE DEF r, m
  <2>3. r # <<>> /\ Len(r) = m + 1
    BY <1>2, <2>2, EmptySeq DEF Appended, m
  <2>4. /\ ResultsOf(turn.content) \subseteq CallsAt(framed, m)
        /\ ResultsOf(turn.content) # {} /\ CallsAt(framed, m) \ ResultsOf(turn.content) = more
    BY <2>1 DEF m
  <2> HIDE DEF more
  <2>5. Paired(r, more)
    <3>1. /\ m = 0 => ResultsOf(turn.content) = {}
          /\ m > 0 => ResultsOf(turn.content) \subseteq CallsAt(framed, m)
          /\ m > 0 /\ CallsAt(framed, m) # {} =>
                ResultsOf(turn.content) # {} /\ CallsAt(framed, m) \ ResultsOf(turn.content) = more
          /\ m > 1 /\ CallsAt(framed, m - 1) # {} => open = {}
          /\ CallsOf(turn.content) # {} => CallsOf(turn.content) = more
          /\ more # {} => CallsOf(turn.content) # {} \/ ResultsOf(turn.content) # {}
      BY <1>2, <1>3, <1>5, <2>1, <2>4
    <3>2. QED
      BY <1>2, <2>2, <2>3, <3>1, PairedAppend DEF m
  <2>6. QED
    BY <2>1, <2>2, <2>3, <2>5 DEF r, m, more, Appended, ResultsAt
<1>7. CASE ResultsAt(framed, m) # {}
  <2> DEFINE k == CallsAt(framed, m) \cup CallsOf(turn.content)
             q == ResultsAt(framed, m) \cup ResultsOf(turn.content)
  <2>1. /\ m > 1 /\ framed[m].role = "user" /\ CallsAt(framed, m) = {}
        /\ ResultsAt(framed, m) \subseteq CallsAt(framed, m - 1)
        /\ CallsAt(framed, m - 1) \ ResultsAt(framed, m) = open
    BY <1>4, <1>5, <1>7
  <2>2. ~ Splits(side, framed, turn)
    <3>1. Carries(framed[m].content, "toolResult")
      BY <1>2, <1>5, <1>7, TurnViews DEF ResultsAt
    <3>2. QED
      BY <1>2, <1>3, <2>1, <3>1, TurnSplit DEF Splits, Carries
  <2>3. Extended(r, framed, turn)
    BY <1>1, <2>2
  <2> HIDE DEF r, m
  <2>4. r # <<>> /\ Len(r) = m
    BY <1>2, <2>1, <2>3, EmptySeq DEF Extended, m
  <2>5. k = {} /\ q = ResultsAt(framed, m) \cup {id}
    BY <1>3, <2>1
  <2>6. q \subseteq CallsAt(framed, m - 1) /\ CallsAt(framed, m - 1) \ q = more /\ q # {}
    BY <2>1, <2>5 DEF m
  <2> HIDE DEF k, q, more
  <2>7. Paired(r, more)
    <3>1. k = CallsAt(framed, m) \cup CallsOf(turn.content)
          /\ q = ResultsAt(framed, m) \cup ResultsOf(turn.content) /\ m # 1
      BY <2>1 DEF k, q
    <3>2. m \in Nat /\ m = Len(framed)
      BY <1>2 DEF m
    <3>3. /\ m = 1 => q = {}
          /\ m > 1 => q \subseteq CallsAt(framed, m - 1)
          /\ m > 1 /\ CallsAt(framed, m - 1) # {} => CallsAt(framed, m - 1) \ q = more
          /\ k # {} => k = more
          /\ more # {} => k # {} \/ q # {}
      BY <2>5, <2>6, <3>1
    <3>4. QED
      BY <2>3, <2>4, <3>1, <3>2, <3>3, PairedExtend, SMTT(30)
  <2>8. QED
    BY <2>3, <2>4, <2>5, <2>7, PlacedViews DEF r, m, more
<1>8. QED
  BY <1>5, <1>6, <1>7

(***************************************************************************)
(* Prefixes.                                                               *)
(***************************************************************************)
Starts(p, c) == Len(p) <= Len(c) /\ \A i \in 1 .. Len(p) : c[i] = p[i]

LEMMA PrefixStarts ==
    ASSUME NEW T, NEW p \in Seq(T), NEW c \in Seq(T)
    PROVE  IsPrefix(p, c) <=> Starts(p, c)
<1>1. Len(p) \in Nat /\ Len(c) \in Nat
  OBVIOUS
<1>2. ASSUME Len(p) <= Len(c)
      PROVE  (SubSeq(p, 1, Len(p)) = SubSeq(c, 1, Len(p))) <=> \A i \in 1 .. Len(p) : c[i] = p[i]
  <2> DEFINE a == SubSeq(p, 1, Len(p))
             b == SubSeq(c, 1, Len(p))
  <2>1. /\ a \in Seq(T) /\ Len(a) = Len(p) /\ \A i \in 1 .. Len(p) : a[i] = p[i]
    BY <1>1, SubSeqProperties
  <2>2. /\ b \in Seq(T) /\ Len(b) = Len(p) /\ \A i \in 1 .. Len(p) : b[i] = c[i]
    BY <1>1, <1>2, SubSeqProperties
  <2> HIDE DEF a, b
  <2>3. (\A i \in 1 .. Len(p) : c[i] = p[i]) => a = b
    <3>1. SUFFICES ASSUME \A i \in 1 .. Len(p) : c[i] = p[i] PROVE a = b
      OBVIOUS
    <3>2. QED
      BY <2>1, <2>2, <3>1, SameSeq
  <2>4. QED
    BY <2>1, <2>2, <2>3 DEF a, b
<1>3. QED
  BY <1>2 DEF IsPrefix, Starts

\* A prefix stays one when more comes behind it.
LEMMA StartsConcat ==
    ASSUME NEW T, NEW p \in Seq(T), NEW c \in Seq(T), NEW d \in Seq(T)
    PROVE  /\ Starts(p, c) => Starts(p, c \o d)
           /\ Starts(c, c \o d)
<1>1. /\ Len(p) \in Nat /\ Len(c) \in Nat /\ Len(d) \in Nat /\ Len(c \o d) = Len(c) + Len(d)
      /\ \A i \in 1 .. Len(c) : (c \o d)[i] = c[i]
  BY ConcatProperties, LenProperties
<1> DEFINE e == c \o d
<1> HIDE DEF e
<1>2. Len(e) = Len(c) + Len(d) /\ \A i \in 1 .. Len(c) : e[i] = c[i]
  BY <1>1 DEF e
<1>3. QED
  BY <1>1, <1>2 DEF e, Starts

\* A turn that begins with some content does so when more turns are placed.
Opens(framed, content) ==
    \E n \in DOMAIN framed : framed[n].role = "assistant" /\ Starts(content, framed[n].content)

LEMMA PlaceKeeps ==
    ASSUME NEW side, NEW framed \in Seq(AllTurns), NEW turn \in AllTurns,
           NEW content \in Seq(Blocks), Opens(framed, content)
    PROVE  Opens(Place(side, framed, turn), content)
<1> DEFINE r == Place(side, framed, turn)
           m == Len(framed)
<1>1. /\ r \in Seq(AllTurns)
      /\ Splits(side, framed, turn) => Appended(r, framed, turn)
      /\ ~ Splits(side, framed, turn) => Extended(r, framed, turn)
  BY PlaceType
<1>2. m \in Nat /\ DOMAIN framed = 1 .. m /\ DOMAIN r = 1 .. Len(r)
  BY <1>1
<1>3. PICK n \in 1 .. m : framed[n].role = "assistant" /\ Starts(content, framed[n].content)
  BY <1>2 DEF Opens
<1>4. framed[n].content \in Seq(Blocks) /\ turn.content \in Seq(Blocks)
  BY <1>2, TurnBlocks DEF TurnsWith
<1> HIDE DEF r, m
<1>5. CASE Appended(r, framed, turn)
  BY <1>2, <1>3, <1>5 DEF Opens, r, Appended, m
<1>6. CASE Extended(r, framed, turn)
  <2>1. CASE n = m
    BY <1>2, <1>3, <1>4, <1>6, <2>1, StartsConcat DEF Opens, r, Extended, m
  <2>2. CASE n # m
    <3>1. n \in 1 .. Len(r) /\ r[n] = framed[n]
      <4>1. n \in 1 .. m - 1
        BY <1>2, <2>2
      <4>2. QED
        BY <1>2, <1>6, <4>1 DEF Extended, m
    <3>2. QED
      BY <1>2, <1>3, <3>1 DEF Opens, r
  <2>3. QED
    BY <2>1, <2>2
<1>7. QED
  BY <1>1, <1>5, <1>6

(***************************************************************************)
(* Results that come once.                                                 *)
(***************************************************************************)
AllSingle(framed) == \A n \in DOMAIN framed : Single(framed[n].content)

LEMMA SingleNone ==
    ASSUME NEW c, ~ Carries(c, "toolResult")
    PROVE  Single(c)
  BY DEF Single, Carries

\* One more result that is not there yet.
LEMMA SingleMore ==
    ASSUME NEW c \in Seq(Blocks), NEW d \in Seq(Blocks), Single(c), Single(d),
           Ids(c, "toolResult") \cap Ids(d, "toolResult") = {}
    PROVE  Single(c \o d)
<1> DEFINE e == c \o d
           m == Len(c)
           k == Len(d)
<1>1. /\ m \in Nat /\ k \in Nat /\ DOMAIN c = 1 .. m /\ DOMAIN d = 1 .. k /\ DOMAIN e = 1 .. m + k
      /\ \A i \in 1 .. m : e[i] = c[i]
      /\ \A i \in 1 .. k : e[m + i] = d[i]
  BY ConcatProperties, LenProperties
<1> HIDE DEF e, m, k
<1>2. \A j \in 1 .. m + k : j \notin 1 .. m => j - m \in 1 .. k /\ e[j] = d[j - m]
  <2>1. TAKE j \in 1 .. m + k
  <2>2. SUFFICES ASSUME j \notin 1 .. m PROVE j - m \in 1 .. k /\ e[j] = d[j - m]
    OBVIOUS
  <2>3. QED
    BY <1>1, <2>2
<1>3. ASSUME NEW i \in DOMAIN e, NEW j \in DOMAIN e, e[i].kind = "toolResult", e[i] = e[j]
      PROVE  i = j
  <2>1. CASE i \in 1 .. m /\ j \in 1 .. m
    BY <1>1, <1>3, <2>1 DEF Single
  <2>2. CASE i \notin 1 .. m /\ j \notin 1 .. m
    <3>1. i - m = j - m
      BY <1>1, <1>2, <1>3, <2>2 DEF Single
    <3>2. QED
      BY <1>1, <3>1
  <2>3. CASE i \in 1 .. m /\ j \notin 1 .. m
    <3>1. e[i].of \in Ids(d, "toolResult")
      BY <1>1, <1>2, <1>3, <2>3, IdsMember
    <3>2. QED
      BY <1>1, <1>3, <2>3, <3>1, IdsMember
  <2>4. CASE i \notin 1 .. m /\ j \in 1 .. m
    <3>1. e[j].of \in Ids(d, "toolResult")
      BY <1>1, <1>2, <1>3, <2>4, IdsMember
    <3>2. QED
      BY <1>1, <1>3, <2>4, <3>1, IdsMember
  <2>5. QED
    BY <2>1, <2>2, <2>3, <2>4
<1>4. QED
  BY <1>3 DEF e, Single

LEMMA PlaceSingle ==
    ASSUME NEW side, NEW framed \in Seq(AllTurns), NEW turn \in AllTurns,
           AllSingle(framed), Single(turn.content),
           framed # <<>> => ResultsAt(framed, Len(framed)) \cap ResultsOf(turn.content) = {}
    PROVE  AllSingle(Place(side, framed, turn))
<1> DEFINE r == Place(side, framed, turn)
           m == Len(framed)
<1>1. /\ r \in Seq(AllTurns)
      /\ Splits(side, framed, turn) => Appended(r, framed, turn)
      /\ ~ Splits(side, framed, turn) => Extended(r, framed, turn)
  BY PlaceType
<1>2. m \in Nat /\ DOMAIN framed = 1 .. m /\ DOMAIN r = 1 .. Len(r)
  BY <1>1
<1>3. \A n \in 1 .. m : framed[n].content \in Seq(Blocks)
  BY <1>2, TurnBlocks DEF TurnsWith
<1>4. turn.content \in Seq(Blocks)
  BY TurnBlocks DEF TurnsWith
<1> HIDE DEF r, m
<1>5. CASE Appended(r, framed, turn)
  BY <1>2, <1>5 DEF Appended, m, AllSingle, r
<1>6. CASE Extended(r, framed, turn)
  <2>1. m \in 1 .. m /\ Len(r) = m /\ framed # <<>>
    BY <1>2, <1>6, EmptySeq DEF Extended, m
  <2>2. Single(r[m].content)
    <3>1. Single(framed[m].content)
      BY <1>2, <2>1 DEF AllSingle
    <3>2. QED
      BY <1>3, <1>4, <1>6, <2>1, <3>1, SingleMore, IdsNames DEF ResultsAt, m, Extended
  <2>3. \A n \in 1 .. m : n # m => r[n] = framed[n]
    <3>1. \A n \in 1 .. m : n # m => n \in 1 .. m - 1
      BY <1>2
    <3>2. QED
      BY <1>6, <3>1 DEF Extended, m
  <2>4. QED
    BY <1>2, <2>1, <2>2, <2>3 DEF AllSingle, r
<1>7. QED
  BY <1>1, <1>5, <1>6

(***************************************************************************)
(* From the transcript to turns.                                           *)
(***************************************************************************)
Sent(side)         == IF side = "chat" THEN ChatMessages ELSE InputItems
TurnsOf(side, msg) == IF side = "chat" THEN MessageTurns(msg) ELSE ItemTurns(msg)
TurnsIn(side, sent) == IF side = "chat" THEN BuildIntermediateMessages(sent)
                       ELSE ParseInputItems(sent)
FramedOf(side, sent) == Reframe(side, TurnsIn(side, sent))

LEMMA ChatMessageKinds ==
    ASSUME NEW msg \in ChatMessages
    PROVE  \/ msg.role \in {"system", "user"} /\ msg.parts \in Seq(Spoken)
           \/ /\ msg.role = "assistant" /\ msg.think \in Seq(Int)
              /\ msg.parts \in Seq(BlocksOf({"text"})) /\ msg.calls \in Seq(ChatCalls)
           \/ msg.role = "tool" /\ msg.wire \in Wires
<1> DEFINE A == Seq(Spoken)
           B == Seq(Int)
           C == Seq(BlocksOf({"text"}))
           D == Seq(ChatCalls)
<1> HIDE DEF A, B, C, D
<1>1. CASE msg \in [role : {"system", "user"}, parts : A]
  BY <1>1 DEF A
<1>2. CASE msg \in [role : {"assistant"}, think : B, parts : C, calls : D]
  BY <1>2 DEF B, C, D
<1>3. CASE msg \in [role : {"tool"}, wire : Wires]
  BY <1>3
<1>4. QED
  BY <1>1, <1>2, <1>3 DEF ChatMessages

LEMMA InputItemKinds ==
    ASSUME NEW item \in InputItems
    PROVE  \/ /\ item.type = "message" /\ item.role \in {"system", "user"}
              /\ item.parts \in Seq(Spoken)
           \/ /\ item.type = "message" /\ item.role = "assistant"
              /\ item.parts \in Seq(OutputTexts)
           \/ item.type = "reasoning" /\ item.blocks \in Seq(BlocksOf({"reasoning"}))
           \/ /\ item.type = "call" /\ item.kind \in STRING /\ item.id \in Int
              /\ item.ns \in STRING /\ item.name \in Seq(STRING)
           \/ item.type = "output" /\ item.id \in Int
<1> DEFINE A == Seq(Spoken)
           B == Seq(OutputTexts)
           C == Seq(BlocksOf({"reasoning"}))
           D == Seq(STRING)
           I1 == [type : {"message"}, role : {"system", "user"}, parts : A]
           I2 == [type : {"message"}, role : {"assistant"}, parts : B]
           I3 == [type : {"reasoning"}, blocks : C]
           I4 == [type : {"call"}, kind : STRING, id : Int, ns : STRING, name : D]
           I5 == [type : {"output"}, id : Int]
<1> HIDE DEF A, B, C, D
<1>1. CASE item \in I1
  BY <1>1 DEF A
<1>2. CASE item \in I2
  BY <1>2 DEF B
<1>3. CASE item \in I3
  BY <1>3 DEF C
<1>4. CASE item \in I4
  BY <1>4 DEF D
<1>5. CASE item \in I5
  BY <1>5
<1>6. QED
  BY <1>1, <1>2, <1>3, <1>4, <1>5 DEF InputItems

\* What becomes of a result,
LEMMA ResultTurn ==
    ASSUME NEW id \in Int
    PROVE  /\ Turn("user", <<ToolResult(id)>>) \in AllTurns
           /\ Turn("user", <<ToolResult(id)>>).role = "user"
           /\ ResultsOf(Turn("user", <<ToolResult(id)>>).content) = {id}
           /\ Single(Turn("user", <<ToolResult(id)>>).content)
           /\ <<ToolResult(id)>> # <<>>
<1> DEFINE b == ToolResult(id)
           c == <<b>>
           t == Turn("user", c)
<1>1. b.kind = "toolResult" /\ b.of = id /\ b \in Results
  BY DEF ToolResult, Block, Results
<1> HIDE DEF b
<1>2. c \in Seq(Results) /\ c # <<>> /\ DOMAIN c = {1} /\ c[1] = b
  BY <1>1
<1> HIDE DEF c
<1>3. Gives(c)
  BY <1>2, GivenContent
<1>4. t.role = "user" /\ t.content = c /\ t = [role |-> t.role, content |-> t.content]
  BY DEF Turn
<1> HIDE DEF t
<1>5. t \in AllTurns
  BY <1>3, <1>4, TurnClass
<1>6. QED
  BY <1>1, <1>2, <1>4, <1>5 DEF t, c, b, ResultsOf, Single

\* of a question,
LEMMA QuestionTurn ==
    ASSUME NEW parts \in Seq(Spoken), NEW c, c = Among(parts, Spoken \ {Blank}), c # <<>>
    PROVE  /\ Turn("user", c) \in AllTurns /\ Turn("user", c).role = "user"
           /\ ResultsOf(Turn("user", c).content) = {}
           /\ Single(Turn("user", c).content)
<1> DEFINE t == Turn("user", c)
<1>1. Asks(c)
  BY AskedContent, AmongType
<1>2. t.role = "user" /\ t.content = c /\ t = [role |-> t.role, content |-> t.content]
  BY DEF Turn
<1> HIDE DEF t
<1>3. t \in AllTurns
  BY <1>1, <1>2, TurnClass
<1>4. QED
  BY <1>1, <1>2, <1>3, SingleNone, IdsNames, IdsCarried DEF t, Asks

\* and of what the assistant said.
LEMMA SaidTurn ==
    ASSUME NEW c \in Seq(Answered), c # <<>>
    PROVE  /\ Turn("assistant", c) \in AllTurns /\ Turn("assistant", c).role = "assistant"
           /\ Turn("assistant", c).content = c
           /\ ResultsOf(Turn("assistant", c).content) = {}
           /\ Single(Turn("assistant", c).content)
<1> DEFINE t == Turn("assistant", c)
<1>1. Says(c)
  BY SaidContent
<1>2. t.role = "assistant" /\ t.content = c /\ t = [role |-> t.role, content |-> t.content]
  BY DEF Turn
<1> HIDE DEF t
<1>3. t \in AllTurns
  BY <1>1, <1>2, TurnClass
<1>4. QED
  BY <1>1, <1>2, <1>3, SingleNone, IdsNames, IdsCarried DEF t, Says

LEMMA AnsweredKinds ==
    /\ BlocksOf({"text"}) \subseteq Answered /\ BlocksOf({"reasoning"}) \subseteq Answered
    /\ BlocksOf({"toolUse"}) \subseteq Answered
<1>1. QED
  BY KindOf DEF BlocksOf, Answered

LEMMA BlockFields ==
    ASSUME NEW kind, NEW of \in Int, NEW tag \in Seq(STRING)
    PROVE  Block(kind, of, tag) \in BlocksOf({kind})
<1> DEFINE V == Seq(STRING)
<1> HIDE DEF V
<1>1. QED
  BY DEF Block, BlocksOf, V

LEMMA BlockKind ==
    ASSUME NEW kind, NEW b \in BlocksOf({kind})
    PROVE  b.kind = kind /\ b.of \in Int /\ b.tag \in Seq(STRING) /\ b = Block(kind, b.of, b.tag)
<1> DEFINE V == Seq(STRING)
<1> HIDE DEF V
<1>1. QED
  BY DEF V, Block, BlocksOf

LEMMA CallFields ==
    ASSUME NEW call \in ChatCalls
    PROVE  /\ call.wire \in Wires /\ call.name \in Seq(STRING)
           /\ call.wire.id \in Int /\ call.wire.kid \in STRING
           /\ call.wire.reasoning \in Seq(BlocksOf({"reasoning"}))
<1> DEFINE V == Seq(STRING)
           W == Seq(BlocksOf({"reasoning"}))
<1>1. ChatCalls = [wire : Wires, name : V] /\ Wires = [id : Int, kid : STRING, reasoning : W]
  BY DEF ChatCalls, Wires
<1> HIDE DEF V, W
<1>2. QED
  BY <1>1 DEF V, W

\* Contents, for steps that need not know what a sequence is.
Contents == Seq(Blocks)

LEMMA ContentsConcat ==
    ASSUME NEW c \in Contents, NEW d \in Contents, NEW kind
    PROVE  /\ c \o d \in Contents
           /\ Ids(c \o d, kind) = Ids(c, kind) \cup Ids(d, kind)
           /\ Carries(c \o d, kind) <=> Carries(c, kind) \/ Carries(d, kind)
<1>1. c \in Seq(Blocks) /\ d \in Seq(Blocks)
  BY DEF Contents
<1>2. QED
  BY <1>1, IdsConcat DEF Contents

LEMMA OneKind ==
    ASSUME NEW kind, NEW other, other # kind, NEW c \in Seq(BlocksOf({kind}))
    PROVE  Ids(c, other) = {} /\ ~ Carries(c, other)
<1>1. QED
  BY IdsNone, BlockKind

\* The calls of a message as blocks.
Uses(calls) == [i \in DOMAIN calls |-> ToolUse(calls[i].wire.id, calls[i].name)]

LEMMA UsesType ==
    ASSUME NEW calls \in Seq(ChatCalls)
    PROVE  /\ Uses(calls) \in Seq(BlocksOf({"toolUse"})) /\ Len(Uses(calls)) = Len(calls)
           /\ DOMAIN Uses(calls) = DOMAIN calls
           /\ Ids(Uses(calls), "toolUse") = {calls[i].wire.id : i \in DOMAIN calls}
<1> DEFINE u == Uses(calls)
<1>1. Len(calls) \in Nat /\ DOMAIN calls = 1 .. Len(calls) /\ \A i \in 1 .. Len(calls) : calls[i] \in ChatCalls
  OBVIOUS
<1>2. u \in Seq(BlocksOf({"toolUse"})) /\ Len(u) = Len(calls) /\ DOMAIN u = DOMAIN calls
  BY <1>1, CallFields, BlockFields DEF Uses, ToolUse
<1>3. \A i \in DOMAIN calls : u[i].kind = "toolUse" /\ u[i].of = calls[i].wire.id
  BY DEF Uses, ToolUse, Block
<1> HIDE DEF u
<1>4. QED
  BY <1>2, <1>3 DEF u, Ids

LEMMA SharedType ==
    ASSUME NEW calls \in Seq(ChatCalls)
    PROVE  SharedReasoning(calls) \in Seq(BlocksOf({"reasoning"}))
<1> DEFINE r == Among(calls, {c \in ToSet(calls) : IsCapsule(c.wire)})
<1>1. r \in Seq(ChatCalls)
  BY AmongType
<1>2. SharedReasoning(calls) = IF r = <<>> THEN <<>> ELSE Head(r).wire.reasoning
  BY DEF SharedReasoning
<1> HIDE DEF r
<1>3. CASE r = <<>>
  BY <1>2, <1>3, EmptySeq
<1>4. CASE r # <<>>
  BY <1>1, <1>2, <1>4, CallFields
<1>5. QED
  BY <1>3, <1>4

LEMMA StripType ==
    ASSUME NEW think \in Seq(Int), NEW reasoning
    PROVE  StripReplayedReasoning(think, reasoning) \in Seq(BlocksOf({"text"}))
<1>1. CASE think = Shown(reasoning) \/ think = <<>>
  BY <1>1, EmptySeq DEF StripReplayedReasoning
<1>2. CASE ~ (think = Shown(reasoning) \/ think = <<>>)
  <2> DEFINE b == Block("text", Head(think), <<"think">>)
  <2>1. Head(think) \in Int
    BY <1>2
  <2>2. <<"think">> \in Seq(STRING)
    BY StringsAssumption
  <2>3. b \in BlocksOf({"text"})
    BY <2>1, <2>2, BlockFields
  <2>4. StripReplayedReasoning(think, reasoning) = <<b>>
    BY <1>2 DEF StripReplayedReasoning
  <2> HIDE DEF b
  <2>5. QED
    BY <2>3, <2>4
<1>3. QED
  BY <1>1, <1>2

LEMMA AssistantType ==
    ASSUME NEW msg, msg.think \in Seq(Int), msg.parts \in Seq(BlocksOf({"text"})),
           msg.calls \in Seq(ChatCalls)
    PROVE  /\ AssistantContent(msg) \in Seq(Answered)
           /\ CallsOf(AssistantContent(msg)) = {msg.calls[i].wire.id : i \in DOMAIN msg.calls}
<1> DEFINE shared == SharedReasoning(msg.calls)
           stripped == StripReplayedReasoning(msg.think, shared)
           said == ParseContentParts(msg.parts)
           uses == Uses(msg.calls)
<1>1. AssistantContent(msg) = shared \o stripped \o said \o uses
  BY DEF AssistantContent, Uses
<1>2. shared \in Seq(BlocksOf({"reasoning"}))
  BY SharedType
<1>3. stripped \in Seq(BlocksOf({"text"}))
  BY StripType
<1>4. said \in Seq(BlocksOf({"text"}))
  BY AmongType DEF ParseContentParts
<1>5. uses \in Seq(BlocksOf({"toolUse"})) /\ Ids(uses, "toolUse") = {msg.calls[i].wire.id : i \in DOMAIN msg.calls}
  BY UsesType
<1> HIDE DEF shared, stripped, said, uses
<1>6. shared \in Seq(Answered) /\ stripped \in Seq(Answered) /\ said \in Seq(Answered) /\ uses \in Seq(Answered)
  <2> HIDE DEF Answered, BlocksOf
  <2>1. QED
    BY <1>2, <1>3, <1>4, <1>5, AnsweredKinds
<1>7. Ids(shared, "toolUse") = {} /\ Ids(stripped, "toolUse") = {} /\ Ids(said, "toolUse") = {}
  BY <1>2, <1>3, <1>4, OneKind
<1>8. Ids(((shared \o stripped) \o said) \o uses, "toolUse") = Ids(uses, "toolUse")
  <2>1. shared \in Contents /\ stripped \in Contents /\ said \in Contents /\ uses \in Contents
    BY <1>6, SomeBlocks DEF Contents
  <2>2. shared \o stripped \in Contents /\ Ids(shared \o stripped, "toolUse") = {}
    BY <1>7, <2>1, ContentsConcat, SMTT(30)
  <2>3. (shared \o stripped) \o said \in Contents /\ Ids((shared \o stripped) \o said, "toolUse") = {}
    <3>1. /\ (shared \o stripped) \o said \in Contents
          /\ Ids((shared \o stripped) \o said, "toolUse")
                = Ids(shared \o stripped, "toolUse") \cup Ids(said, "toolUse")
      BY <2>1, <2>2, ContentsConcat
    <3>2. QED
      BY <1>7, <2>2, <3>1
  <2>4. Ids(((shared \o stripped) \o said) \o uses, "toolUse") = Ids((shared \o stripped) \o said, "toolUse") \cup Ids(uses, "toolUse")
    BY <2>1, <2>3, ContentsConcat
  <2>5. QED
    BY <2>3, <2>4
<1>9. QED
  BY <1>1, <1>5, <1>6, <1>8, IdsNames, ConcatProperties

LEMMA ChatTurns ==
    ASSUME NEW msg
    PROVE  /\ msg.role = "system" => MessageTurns(msg) = <<>>
           /\ msg.role = "user" =>
                 LET c == Among(msg.parts, Spoken \ {Blank})
                 IN  MessageTurns(msg) = IF c = <<>> THEN <<>> ELSE <<Turn("user", c)>>
           /\ msg.role = "tool" => MessageTurns(msg) = <<Turn("user", <<ToolResult(msg.wire.id)>>)>>
           /\ msg.role = "assistant" =>
                 LET c == AssistantContent(msg)
                 IN  MessageTurns(msg) = IF c = <<>> THEN <<>> ELSE <<Turn("assistant", c)>>
<1>1. msg.role = "system" => MessageTurns(msg) = <<>>
  BY DEF MessageTurns
<1>2. ASSUME NEW role, NEW c, IntermediateMessage(msg) = Turn(role, c), msg.role # "system"
      PROVE  MessageTurns(msg) = IF c = <<>> THEN <<>> ELSE <<Turn(role, c)>>
  BY <1>2 DEF MessageTurns, Turn
<1>3. msg.role = "tool" => MessageTurns(msg) = <<Turn("user", <<ToolResult(msg.wire.id)>>)>>
  BY <1>2 DEF IntermediateMessage
<1>4. QED
  BY <1>1, <1>2, <1>3 DEF IntermediateMessage, ParseContentParts

LEMMA InputTurns ==
    ASSUME NEW item
    PROVE  /\ item.type = "message" /\ item.role = "system" => ItemTurns(item) = <<>>
           /\ item.type = "message" /\ item.role # "system" =>
                 LET c == Among(item.parts, Spoken \ {Blank})
                 IN  ItemTurns(item) = IF c = <<>> THEN <<>> ELSE <<Turn(item.role, c)>>
           /\ item.type = "reasoning" =>
                 ItemTurns(item) = IF item.blocks = <<>> THEN <<>>
                                   ELSE <<Turn("assistant", item.blocks)>>
           /\ item.type = "call" =>
                 ItemTurns(item) =
                    <<Turn("assistant", <<ToolUse(item.id, Joined(item.ns, item.name))>>)>>
           /\ item.type = "output" => ItemTurns(item) = <<Turn("user", <<ToolResult(item.id)>>)>>
<1>1. item.type = "message" /\ item.role = "system" => ItemTurns(item) = <<>>
  BY DEF ItemTurns, IsSystem
<1>2. ASSUME NEW role, NEW c, ItemTurn(item) = Turn(role, c),
             ~ (item.type = "message" /\ item.role = "system")
      PROVE  ItemTurns(item) = IF c = <<>> THEN <<>> ELSE <<Turn(role, c)>>
  BY <1>2 DEF ItemTurns, IsSystem, Turn
<1>3. item.type = "message" =>
         ItemTurn(item) = Turn(item.role, Among(item.parts, Spoken \ {Blank}))
  BY DEF ItemTurn, ParseMessageContent
<1>4. <<ToolResult(item.id)>> # <<>> /\ <<ToolUse(item.id, Joined(item.ns, item.name))>> # <<>>
  OBVIOUS
<1>5. item.type = "output" => ItemTurns(item) = <<Turn("user", <<ToolResult(item.id)>>)>>
  BY <1>2, <1>4 DEF ItemTurn, FunctionCallOutput
<1>6. item.type = "reasoning" =>
        ItemTurns(item) = IF item.blocks = <<>> THEN <<>> ELSE <<Turn("assistant", item.blocks)>>
  BY <1>2 DEF ItemTurn
<1>7. QED
  BY <1>1, <1>2, <1>3, <1>4, <1>5, <1>6 DEF ItemTurn

LEMMA OneSeq ==
    ASSUME NEW T, NEW e \in T
    PROVE  <<e>> \in Seq(T)
  OBVIOUS

LEMMA JoinedType ==
    ASSUME NEW ns \in STRING, NEW name \in Seq(STRING)
    PROVE  Joined(ns, name) \in Seq(STRING)
<1>1. <<ns>> \in Seq(STRING)
  BY OneSeq, Zenon
<1>2. QED
  BY <1>1, ConcatProperties DEF Joined

LEMMA CallContent ==
    ASSUME NEW id \in Int, NEW name \in Seq(STRING)
    PROVE  LET c == <<ToolUse(id, name)>>
           IN  c \in Seq(Answered) /\ c # <<>> /\ CallsOf(c) = {id} /\ ~ Carries(c, "reasoning")
<1> DEFINE b == ToolUse(id, name)
           c == <<b>>
<1>1. b \in Answered /\ b.kind = "toolUse" /\ b.of = id
  BY AnsweredKinds, BlockFields DEF ToolUse, Block
<1> HIDE DEF b
<1> HIDE DEF c
<1>2. QED
  BY <1>1 DEF c, b, CallsOf, Carries

LEMMA SaidParsed ==
    ASSUME NEW parts \in Seq(OutputTexts)
    PROVE  Among(parts, Spoken \ {Blank}) \in Seq(BlocksOf({"text"}))
<1> DEFINE T == OutputTexts
           S == Spoken \ {Blank}
           B == BlocksOf({"text"})
<1>1. T \cap S \subseteq B
  BY DEF OutputTexts
<1>2. Among(parts, S) \in Seq(T \cap S)
  BY AmongType
<1> HIDE DEF T, S, B
<1>3. Seq(T \cap S) \subseteq Seq(B)
  BY <1>1
<1>4. QED
  BY <1>2, <1>3 DEF S, B

\* A message becomes one turn or none.
LEMMA SentTurns ==
    ASSUME NEW side, NEW msg \in Sent(side)
    PROVE  TurnsOf(side, msg) = <<>> \/ \E t \in AllTurns : TurnsOf(side, msg) = <<t>>
<1>1. CASE side = "chat"
  <2>1. msg \in ChatMessages /\ TurnsOf(side, msg) = MessageTurns(msg)
    BY <1>1 DEF Sent, TurnsOf
  <2>2. CASE msg.role \in {"system", "user"} /\ msg.parts \in Seq(Spoken)
    BY <2>1, <2>2, ChatTurns, QuestionTurn
  <2>3. CASE /\ msg.role = "assistant" /\ msg.think \in Seq(Int)
             /\ msg.parts \in Seq(BlocksOf({"text"})) /\ msg.calls \in Seq(ChatCalls)
    BY <2>1, <2>3, ChatTurns, SaidTurn, AssistantType
  <2>4. CASE msg.role = "tool" /\ msg.wire \in Wires
    <3>1. msg.wire.id \in Int
      <4> DEFINE W == Seq(BlocksOf({"reasoning"}))
      <4> HIDE DEF W
      <4>1. QED
        BY <2>4 DEF Wires
    <3>2. QED
      BY <2>1, <2>4, <3>1, ChatTurns, ResultTurn
  <2>5. QED
    BY <2>1, <2>2, <2>3, <2>4, ChatMessageKinds
<1>2. CASE side # "chat"
  <2>1. msg \in InputItems /\ TurnsOf(side, msg) = ItemTurns(msg)
    BY <1>2 DEF Sent, TurnsOf
  <2>2. CASE /\ msg.type = "message" /\ msg.role \in {"system", "user"}
             /\ msg.parts \in Seq(Spoken)
    BY <2>1, <2>2, InputTurns, QuestionTurn
  <2>3. CASE /\ msg.type = "message" /\ msg.role = "assistant"
             /\ msg.parts \in Seq(OutputTexts)
    <3>1. Among(msg.parts, Spoken \ {Blank}) \in Seq(BlocksOf({"text"}))
      BY <2>3, SaidParsed
    <3>2. Among(msg.parts, Spoken \ {Blank}) \in Seq(Answered)
      BY <3>1, AnsweredKinds
    <3>3. QED
      BY <2>1, <2>3, <3>2, InputTurns, SaidTurn, ZenonT(60)
  <2>4. CASE msg.type = "reasoning" /\ msg.blocks \in Seq(BlocksOf({"reasoning"}))
    <3>1. msg.blocks \in Seq(Answered)
      BY <2>4, AnsweredKinds
    <3>2. QED
      BY <2>1, <2>4, <3>1, InputTurns, SaidTurn
  <2>5. CASE /\ msg.type = "call" /\ msg.kind \in STRING /\ msg.id \in Int
             /\ msg.ns \in STRING /\ msg.name \in Seq(STRING)
    BY <2>1, <2>5, InputTurns, CallContent, SaidTurn, JoinedType
  <2>6. CASE msg.type = "output" /\ msg.id \in Int
    BY <2>1, <2>6, InputTurns, ResultTurn
  <2>7. QED
    BY <2>1, <2>2, <2>3, <2>4, <2>5, <2>6, InputItemKinds
<1>3. QED
  BY <1>1, <1>2

\* One more message is one more step of the framing, or none.
Heard(side, framed, msg) ==
    IF TurnsOf(side, msg) = <<>> THEN framed ELSE Place(side, framed, TurnsOf(side, msg)[1])

LEMMA TurnsInAppend ==
    ASSUME NEW side, NEW sent \in Seq(Sent(side)), NEW msg \in Sent(side)
    PROVE  /\ TurnsIn(side, sent) \in Seq(AllTurns)
           /\ TurnsIn(side, Append(sent, msg)) = TurnsIn(side, sent) \o TurnsOf(side, msg)
<1> DEFINE M == Sent(side)
           g == [x \in M |-> TurnsOf(side, x)]
<1>1. Takes(g, M, Seq(AllTurns))
  <2>1. \A x \in M : TurnsOf(side, x) \in Seq(AllTurns)
    <3>1. TAKE x \in M
    <3>2. CASE TurnsOf(side, x) = <<>>
      BY <3>2, EmptySeq
    <3>3. CASE \E t \in AllTurns : TurnsOf(side, x) = <<t>>
      BY <3>3
    <3>4. QED
      BY <3>2, <3>3, SentTurns
  <2>2. QED
    BY <2>1 DEF Takes
<1>2. \A r \in Seq(M) : TurnsIn(side, r) = FlatMap(r, g)
  <2>1. TAKE r \in Seq(M)
  <2>2. \A i \in DOMAIN r : g[r[i]] = TurnsOf(side, r[i])
    OBVIOUS
  <2> HIDE DEF g
  <2>3. QED
    BY <2>2 DEF FlatMap, TurnsIn, TurnsOf, BuildIntermediateMessages, ParseInputItems, Mapped
<1>3. g[msg] = TurnsOf(side, msg)
  OBVIOUS
<1> HIDE DEF g, M
<1>4. sent \in Seq(M) /\ msg \in M /\ Append(sent, msg) \in Seq(M)
  BY AppendProperties DEF M
<1>5. FlatMap(sent, g) \in Seq(AllTurns) /\ FlatMap(Append(sent, msg), g) = FlatMap(sent, g) \o g[msg]
  BY <1>1, <1>4, FlatMapAppend
<1>6. QED
  BY <1>2, <1>3, <1>4, <1>5

LEMMA FramedAppend ==
    ASSUME NEW side, NEW sent \in Seq(Sent(side)), NEW msg \in Sent(side)
    PROVE  FramedOf(side, Append(sent, msg)) = Heard(side, FramedOf(side, sent), msg)
<1> DEFINE a == TurnsIn(side, sent)
           b == TurnsOf(side, msg)
<1>1. a \in Seq(AllTurns) /\ TurnsIn(side, Append(sent, msg)) = a \o b
  BY TurnsInAppend
<1>2. b = <<>> \/ \E t \in AllTurns : b = <<t>>
  BY SentTurns
<1> HIDE DEF a, b
<1>3. CASE b = <<>>
  BY <1>1, <1>3, ConcatEmptySeq DEF FramedOf, Heard, a, b
<1>4. CASE b # <<>>
  <2>1. PICK t \in AllTurns : b = <<t>>
    BY <1>2, <1>4
  <2>2. a \o b = Append(a, t) /\ b[1] = t
    BY <1>1, <2>1, AppendIsConcat
  <2>3. QED
    BY <1>1, <1>4, <2>2, ReframeAppend DEF FramedOf, Heard, a, b
<1>5. QED
  BY <1>3, <1>4

LEMMA FramedNothing ==
    ASSUME NEW side
    PROVE  FramedOf(side, <<>>) = <<>>
<1>1. BuildIntermediateMessages(<<>>) = <<>> /\ ParseInputItems(<<>>) = <<>>
  BY FlattenEmpty, EmptySeq DEF BuildIntermediateMessages, ParseInputItems
<1>2. QED
  BY <1>1, ReframeNothing DEF FramedOf, TurnsIn

\* A transcript becomes turns.
LEMMA FramedType ==
    ASSUME NEW side, NEW sent \in Seq(Sent(side))
    PROVE  FramedOf(side, sent) \in Seq(AllTurns)
<1> DEFINE M == Sent(side)
           Q == {r \in Seq(M) : FramedOf(side, r) \in Seq(AllTurns)}
<1>1. <<>> \in Q
  BY FramedNothing, EmptySeq
<1>2. ASSUME NEW r \in Seq(M), NEW msg \in M, r \in Q PROVE Append(r, msg) \in Q
  <2>1. FramedOf(side, Append(r, msg)) = Heard(side, FramedOf(side, r), msg)
    BY FramedAppend
  <2>2. FramedOf(side, r) \in Seq(AllTurns)
    BY <1>2
  <2>3. CASE TurnsOf(side, msg) = <<>>
    BY <2>1, <2>2, <2>3, AppendProperties DEF Heard
  <2>4. CASE TurnsOf(side, msg) # <<>>
    <3>1. PICK t \in AllTurns : TurnsOf(side, msg) = <<t>>
      BY <2>4, SentTurns
    <3>2. QED
      BY <2>1, <2>2, <2>4, <3>1, AppendProperties, PlaceType DEF Heard
  <2>5. QED
    BY <2>3, <2>4
<1>3. Seq(M) \subseteq Q
  <2> HIDE DEF Q
  <2>1. QED
    BY <1>1, <1>2, SeqInductionSet
<1>4. QED
  BY <1>3

(***************************************************************************)
(* Why a request is refused.                                               *)
(***************************************************************************)
Verdicts == Refusals \cup {None}

LEMMA VerdictStrings == Verdicts \subseteq STRING /\ None \notin Refusals /\ "accepted" \notin Verdicts
  BY StringsAssumption DEF Verdicts, Refusals, None

\* The first refusal is one of them.
LEMMA FirstOfRefusals ==
    ASSUME NEW rs \in Seq(Verdicts)
    PROVE  /\ FirstRefusal(rs) \in Verdicts
           /\ FirstRefusal(rs) # None => \E i \in DOMAIN rs : rs[i] = FirstRefusal(rs)
           /\ FirstRefusal(rs) = None => \A i \in DOMAIN rs : rs[i] = None
<1> DEFINE S == STRING \ {None}
<1> HIDE DEF S
<1> DEFINE r == Among(rs, S)
<1>1. /\ r \in Seq(Verdicts \cap S)
      /\ \A k \in DOMAIN rs : rs[k] \in S => \E i \in DOMAIN r : r[i] = rs[k]
      /\ \A i \in DOMAIN r : \E k \in DOMAIN rs : rs[k] = r[i]
  BY AmongElements
<1>2. FirstRefusal(rs) = IF r = <<>> THEN None ELSE Head(r)
  BY DEF FirstRefusal, S
<1>3. \A v \in Verdicts : v \in S <=> v # None
  BY VerdictStrings DEF S
<1> HIDE DEF r
<1>4. CASE r = <<>>
  <2>1. \A k \in DOMAIN rs : rs[k] = None
    <3>1. TAKE k \in DOMAIN rs
    <3>2. QED
      BY <1>1, <1>3, <1>4, <3>1, EmptySeq
  <2>2. QED
    BY <1>2, <1>4, <2>1 DEF Verdicts
<1>5. CASE r # <<>>
  <2>1. 1 \in DOMAIN r /\ Head(r) = r[1] /\ r[1] \in Verdicts \cap S
    BY <1>1, <1>5, EmptySeq
  <2>2. PICK k \in DOMAIN rs : rs[k] = r[1]
    BY <1>1, <2>1
  <2>3. QED
    BY <1>2, <1>3, <1>5, <2>1, <2>2
<1>6. QED
  BY <1>4, <1>5

LEMMA CallRefusalFrom ==
    ASSUME NEW calls, NEW c, NEW ring, NEW v, v = CallRefusal(calls, c, ring)
    PROVE  /\ v \in Verdicts
           /\ v # None =>
                 \/ v = "unknownKid" /\ IsCapsule(calls[c].wire) /\ calls[c].wire.kid \notin ring.known
                 \/ /\ v = "mismatch" /\ IsCapsule(calls[c].wire)
                    /\ calls[c].wire.reasoning # SharedReasoning(calls)
  BY DEF CallRefusal, DecodeRefusal, Verdicts, Refusals, None

LEMMA MessageRefusalFrom ==
    ASSUME NEW msg \in ChatMessages, NEW row, NEW ring, NEW v, v = MessageRefusal(msg, row, ring)
    PROVE  /\ v \in Verdicts
           /\ v # None =>
                 \/ msg.role = "user" /\ v = "image" /\ ~ row.sees
                 \/ msg.role = "user" /\ v = "empty" /\ Among(msg.parts, Spoken \ {Blank}) = <<>>
                 \/ /\ msg.role = "assistant"
                    /\ \E c \in DOMAIN msg.calls : v = CallRefusal(msg.calls, c, ring)
                 \/ msg.role = "tool" /\ v = "unknownKid" /\ msg.wire.kid \notin ring.known
<1>1. CASE msg.role = "system"
  BY <1>1 DEF MessageRefusal, Verdicts
<1>2. CASE msg.role = "user"
  BY <1>2 DEF MessageRefusal, Verdicts, Refusals, ParseContentParts
<1>3. CASE msg.role = "assistant"
  <2> DEFINE rs == [i \in DOMAIN msg.calls |-> CallRefusal(msg.calls, i, ring)]
  <2>1. DOMAIN msg.calls = 1 .. Len(msg.calls) /\ Len(msg.calls) \in Nat
    BY <1>3, ChatMessageKinds
  <2>2. rs \in [1 .. Len(msg.calls) -> Verdicts] /\ DOMAIN rs = DOMAIN msg.calls
    BY <2>1, CallRefusalFrom
  <2>3. rs \in Seq(Verdicts)
    BY <2>1, <2>2
  <2>4. \A i \in DOMAIN rs : rs[i] = CallRefusal(msg.calls, i, ring)
    OBVIOUS
  <2> HIDE DEF rs
  <2>5. QED
    BY <1>3, <2>2, <2>3, <2>4, FirstOfRefusals DEF MessageRefusal
<1>4. CASE msg.role = "tool"
  BY <1>4 DEF MessageRefusal, DecodeRefusal, Verdicts, Refusals, None
<1>5. QED
  BY <1>1, <1>2, <1>3, <1>4, ChatMessageKinds

LEMMA ChatRefusalFrom ==
    ASSUME NEW sent \in Seq(ChatMessages), NEW row, NEW o, NEW ring,
           NEW v, v = ChatRefusal(sent, row, o, ring)
    PROVE  /\ v \in Verdicts
           /\ v # None =>
                 \/ v = "forced" /\ ForcedWhileReasoning(sent, row, o, ring)
                 \/ \E i \in DOMAIN sent : v = MessageRefusal(sent[i], row, ring)
                 \/ /\ v = "systemPart"
                    /\ \E i \in DOMAIN sent : sent[i].role = "system" /\ Contains(sent[i].parts, Image)
           /\ v = None => \A i \in DOMAIN sent : MessageRefusal(sent[i], row, ring) = None
<1>1. CASE ForcedWhileReasoning(sent, row, o, ring)
  BY <1>1 DEF Verdicts, Refusals, ChatRefusal, None
<1>2. CASE ~ ForcedWhileReasoning(sent, row, o, ring)
  <2> DEFINE a  == [i \in DOMAIN sent |-> MessageRefusal(sent[i], row, ring)]
             b  == << SystemRefusal(sent) >>
  <2>1. v = FirstRefusal(a \o b)
    BY <1>2 DEF ChatRefusal
  <2>2. DOMAIN sent = 1 .. Len(sent) /\ Len(sent) \in Nat /\ \A i \in DOMAIN sent : sent[i] \in ChatMessages
    OBVIOUS
  <2>3. a \in [1 .. Len(sent) -> Verdicts] /\ DOMAIN a = DOMAIN sent
        /\ \A i \in DOMAIN a : a[i] = MessageRefusal(sent[i], row, ring)
    BY <2>2, MessageRefusalFrom
  <2>4. SystemRefusal(sent) \in {None, "systemPart"} /\ SystemRefusal(sent) \in Verdicts
    BY DEF SystemRefusal, Verdicts, Refusals
  <2>5. b \in Seq(Verdicts) /\ DOMAIN b = {1} /\ b[1] = SystemRefusal(sent)
    BY <2>4
  <2> HIDE DEF a, b
  <2>6. a \o b \in Seq(Verdicts) /\ InARow(a \o b, a, b)
    <3>1. a \in Seq(Verdicts)
      BY <2>2, <2>3
    <3>2. QED
      BY <2>5, <3>1, ConcatElements, ConcatProperties
  <2> DEFINE c == a \o b
  <2> HIDE DEF c
  <2>7. c \in Seq(Verdicts) /\ v = FirstRefusal(c)
    BY <2>1, <2>6 DEF c
  <2>8. v \in Verdicts /\ (v # None => \E j \in DOMAIN c : c[j] = v)
    BY <2>7, FirstOfRefusals
  <2>9. SystemRefusal(sent) # None =>
           \E i \in DOMAIN sent : sent[i].role = "system" /\ Contains(sent[i].parts, Image)
    BY DEF SystemRefusal
  <2>10. v = None => \A i \in DOMAIN a : a[i] = None
    BY <2>6, <2>7, FirstOfRefusals DEF InARow, c
  <2>11. QED
    BY <2>3, <2>4, <2>5, <2>6, <2>8, <2>9, <2>10 DEF c, InARow
<1>3. QED
  BY <1>1, <1>2

LEMMA ItemRefusalFrom ==
    ASSUME NEW item \in InputItems, NEW row, NEW v, v = ItemRefusal(item, row)
    PROVE  /\ v \in Verdicts
           /\ v # None =>
                 \/ /\ item.type = "message" /\ item.role = "system" /\ v = "systemPart"
                    /\ Contains(item.parts, Image)
                 \/ item.type = "message" /\ v = "image" /\ ~ row.sees
                 \/ /\ item.type = "message" /\ item.role = "user" /\ v = "empty"
                    /\ Among(item.parts, Spoken \ {Blank}) = <<>>
                 \/ item.type = "reasoning" /\ v = "noEnvelope" /\ item.blocks = <<>>
  BY InputItemKinds DEF ItemRefusal, DecodeEnvelopeRefusal, ParseMessageContent, Verdicts, Refusals

LEMMA ResponsesRefusalFrom ==
    ASSUME NEW sent \in Seq(InputItems), NEW row, NEW o,
           NEW v, v = ResponsesRefusal(sent, row, o)
    PROVE  /\ v \in Verdicts
           /\ v # None =>
                 \/ \E i \in DOMAIN sent : v = ItemRefusal(sent[i], row)
                 \/ v \in {"duplicateTool", "unknownTool"}
           /\ v = None => \A i \in DOMAIN sent : ItemRefusal(sent[i], row) = None
<1> DEFINE a  == [i \in DOMAIN sent |-> ItemRefusal(sent[i], row)]
           b  == << ToolsRefusal(o.tools), ChoiceRefusal(o.tools, o.choice) >>
<1>1. v = FirstRefusal(a \o b)
  BY DEF ResponsesRefusal
<1>2. DOMAIN sent = 1 .. Len(sent) /\ Len(sent) \in Nat /\ \A i \in DOMAIN sent : sent[i] \in InputItems
  OBVIOUS
<1>3. a \in [1 .. Len(sent) -> Verdicts] /\ DOMAIN a = DOMAIN sent
      /\ \A i \in DOMAIN a : a[i] = ItemRefusal(sent[i], row)
  BY <1>2, ItemRefusalFrom
<1>4. a \in Seq(Verdicts)
  BY <1>2, <1>3
<1>5. b \in Seq(Verdicts) /\ \A i \in DOMAIN b : b[i] \in {None, "duplicateTool", "unknownTool"}
  <2> DEFINE x == ToolsRefusal(o.tools)
             y == ChoiceRefusal(o.tools, o.choice)
  <2> HIDE DEF x, y
  <2>1. QED
    BY DEF x, y, ToolsRefusal, ChoiceRefusal, Verdicts, Refusals
<1> HIDE DEF a, b
<1> DEFINE c == a \o b
<1> HIDE DEF c
<1>6. c \in Seq(Verdicts) /\ v = FirstRefusal(c) /\ InARow(c, a, b)
  BY <1>1, <1>4, <1>5, ConcatElements, ConcatProperties DEF c
<1>7. \A j \in DOMAIN c : \/ \E i \in DOMAIN sent : c[j] = ItemRefusal(sent[i], row)
                          \/ c[j] \in {None, "duplicateTool", "unknownTool"}
  BY <1>3, <1>5, <1>6 DEF InARow
<1>8. v = None => \A i \in DOMAIN a : a[i] = None
  BY <1>6, FirstOfRefusals DEF InARow
<1>9. QED
  BY <1>3, <1>6, <1>7, <1>8, FirstOfRefusals

(***************************************************************************)
(* The turns of a request: those of the transcript, perhaps with the       *)
(* gateway's continuation, a cache point in one of them and the results    *)
(* normalised.                                                             *)
(***************************************************************************)
LEMMA TextBlock ==
    ASSUME NEW n \in Int
    PROVE  Text(n) \in Spoken /\ Text(n) # Blank /\ Text(n) \in BlocksOf({"text"})
<1>1. <<>> \in Seq(STRING)
  BY EmptySeq
<1>2. Text(n) # Blank
  BY DEF Text, Blank, Block
<1>3. QED
  BY <1>1, <1>2, BlockFields, KindOf DEF Text, BlocksOf, Spoken

\* The continuation is a question that is placed behind the last turn.
LEMMA ContinuationTurn ==
    /\ Continuation \in AllTurns /\ Continuation.role = "user"
    /\ ResultsOf(Continuation.content) = {} /\ Single(Continuation.content)
<1> DEFINE c == <<Text(0)>>
<1>1. c \in Seq(Spoken) /\ c # <<>>
  BY OneSeq, TextBlock
<1>2. Continuation = Turn("user", c)
  BY DEF Continuation
<1> HIDE DEF c
<1>3. Asks(c)
  BY <1>1, AskedContent
<1> DEFINE t == Turn("user", c)
<1>4. t.role = "user" /\ t.content = c /\ t = [role |-> t.role, content |-> t.content]
  BY DEF Turn
<1> HIDE DEF t
<1>5. t \in AllTurns
  BY <1>3, <1>4, TurnClass
<1>6. QED
  BY <1>2, <1>3, <1>4, <1>5, IdsNames, IdsCarried, SingleNone DEF t, Asks

Full(side, framed, row) == AppendContinuation(framed, row)

LEMMA FullForms ==
    ASSUME NEW side, NEW framed \in Seq(AllTurns), NEW row
    PROVE  Full(side, framed, row) \in {framed, Place(side, framed, Continuation)}
<1>1. CASE framed # <<>> /\ Last(framed).role = "assistant" /\ row.noPrefill
  BY <1>1, ContinuationTurn DEF Full, AppendContinuation, Place
<1>2. QED
  BY <1>1 DEF Full, AppendContinuation

\* What the request holds of the turns is paired, begins as the answers did and,
\* if they hold no result twice, holds none twice.
LEMMA FullKeeps ==
    ASSUME NEW side, NEW framed \in Seq(AllTurns), NEW row
    PROVE  LET f == Full(side, framed, row)
           IN  /\ f \in Seq(AllTurns)
               /\ framed # <<>> => f # <<>>
               /\ Paired(framed, {}) => Paired(f, {})
               /\ \A c \in Seq(Blocks) : Opens(framed, c) => Opens(f, c)
               /\ AllSingle(framed) => AllSingle(f)
<1> DEFINE p == Place(side, framed, Continuation)
           f == Full(side, framed, row)
<1>1. /\ p \in Seq(AllTurns)
      /\ Splits(side, framed, Continuation) => Appended(p, framed, Continuation)
      /\ ~ Splits(side, framed, Continuation) => Extended(p, framed, Continuation)
  BY PlaceType, ContinuationTurn
<1>2. framed # <<>> => p # <<>>
  <2>1. Len(framed) \in Nat /\ (framed # <<>> => Len(framed) > 0)
    BY LastTurns
  <2> HIDE DEF p
  <2>2. Extended(p, framed, Continuation) => Len(p) > 0
    BY <2>1 DEF Extended
  <2>3. p = <<>> => Len(p) = 0
    BY EmptySeq
  <2>4. QED
    BY <1>1, <2>1, <2>2, <2>3 DEF Appended
<1>3. AllSingle(framed) => AllSingle(p)
  BY ContinuationTurn, PlaceSingle
<1>4. f \in {framed, p}
  BY FullForms
<1> HIDE DEF p, f
<1>5. QED
  BY <1>1, <1>2, <1>3, <1>4, ContinuationTurn, PlaceKeeps, PlaceQuestion DEF p, f

\* A user's turn of questions, and one of results.
AsksAt(framed, n)  == framed[n].role = "user" /\ Asks(framed[n].content)
GivesAt(framed, n) == framed[n].role = "user" /\ Gives(framed[n].content)

LEMMA TurnSorts ==
    ASSUME NEW framed \in Seq(AllTurns), NEW n \in DOMAIN framed
    PROVE  /\ AsksAt(framed, n) \/ GivesAt(framed, n) \/ framed[n].role = "assistant"
           /\ AsksAt(framed, n) => ~ GivesAt(framed, n) /\ framed[n].role # "assistant"
           /\ GivesAt(framed, n) => framed[n].role # "assistant"
           /\ framed[n] = [role |-> framed[n].role, content |-> framed[n].content]
           /\ framed[n].role \in {"user", "assistant"}
           /\ framed[n].content \in Seq(Blocks) /\ framed[n].content # <<>>
           /\ framed[n] \in AllTurns
<1>1. QED
  BY TurnClass, TurnBlocks DEF AsksAt, GivesAt, Asks, Gives, Says, TurnsWith

\* The turns that a request holds, of a framing and the place of its cache point;
\* none if mark is 0.
Keeps(side, framed, n) ==
    IF side = "chat" /\ n > 1 /\ framed[n - 1].role = "assistant" /\ CallsAt(framed, n - 1) # {}
    THEN KeepExpected(framed[n].content, CallsAt(framed, n - 1))
    ELSE framed[n].content

Final(msgs, framed, side, mark, ttl) ==
    /\ DOMAIN msgs = DOMAIN framed /\ Len(msgs) = Len(framed)
    /\ mark # 0 => mark \in DOMAIN framed /\ AsksAt(framed, mark)
    /\ \A n \in DOMAIN framed :
          /\ msgs[n].role = framed[n].role
          /\ framed[n].role = "assistant" => msgs[n].content = framed[n].content
          /\ AsksAt(framed, n) =>
                msgs[n].content = IF n = mark THEN Append(framed[n].content, CachePoint(ttl))
                                  ELSE framed[n].content
          /\ GivesAt(framed, n) => msgs[n].content = Keeps(side, framed, n)

\* Decorated puts the cache point into a turn of questions, or nowhere.
Decorated(msgs, framed, mark, ttl) ==
    /\ DOMAIN msgs = DOMAIN framed /\ Len(msgs) = Len(framed)
    /\ mark # 0 => mark \in DOMAIN framed /\ AsksAt(framed, mark)
    /\ \A n \in DOMAIN framed :
          /\ msgs[n].role = framed[n].role
          /\ msgs[n].content = IF n = mark THEN Append(framed[n].content, CachePoint(ttl))
                               ELSE framed[n].content
          /\ msgs[n] = [role |-> msgs[n].role, content |-> msgs[n].content]

\* There is a largest of finitely many places.
LEMMA LargestPlace ==
    ASSUME NEW m \in Nat, NEW S, S \subseteq 1 .. m, S # {}
    PROVE  \E n \in S : \A k \in S : k <= n
<1> DEFINE N == {i \in Nat : \A R : R \subseteq 1 .. i /\ R # {} => \E n \in R : \A k \in R : k <= n}
<1>1. 0 \in N
  OBVIOUS
<1>2. ASSUME NEW i \in Nat, i \in N PROVE i + 1 \in N
  <2>1. SUFFICES ASSUME NEW R, R \subseteq 1 .. i + 1, R # {}
                 PROVE  \E n \in R : \A k \in R : k <= n
    OBVIOUS
  <2>2. CASE i + 1 \in R
    BY <2>1, <2>2
  <2>3. CASE i + 1 \notin R
    <3>1. R \subseteq 1 .. i
      BY <2>1, <2>3
    <3>2. QED
      BY <1>2, <2>1, <3>1
  <2>4. QED
    BY <2>2, <2>3
<1>3. Nat \subseteq N
  <2> HIDE DEF N
  <2>1. QED
    BY <1>1, <1>2, NatInductionSet
<1>4. QED
  BY <1>3

LEMMA MarkedTurns ==
    ASSUME NEW framed \in Seq(AllTurns), NEW row, NEW enabled, NEW used, NEW ttl
    PROVE  \E mark \in Nat :
              /\ Decorated(DecorateMessages(framed, row, enabled, used, ttl), framed, mark, ttl)
              /\ mark # 0 => row.caching /\ enabled /\ used < row.ceiling
<1> DEFINE E == {n \in DOMAIN framed :
                    /\ framed[n].role = "user"
                    /\ \E i \in DOMAIN framed[n].content : framed[n].content[i].kind # "toolResult"
                    /\ ~ EndsWith(framed[n].content, "cachePoint")}
           last == CHOOSE n \in E : \A m \in E : m <= n
           msgs == DecorateMessages(framed, row, enabled, used, ttl)
           marked == [framed EXCEPT ![last].content = Append(@, CachePoint(ttl))]
<1>1. Len(framed) \in Nat /\ DOMAIN framed = 1 .. Len(framed)
  OBVIOUS
<1>2. \A n \in E : n \in DOMAIN framed /\ AsksAt(framed, n)
  <2>1. TAKE n \in E
  <2>2. PICK i \in DOMAIN framed[n].content : framed[n].content[i].kind # "toolResult"
    BY <2>1
  <2>3. ~ GivesAt(framed, n)
    <3>1. SUFFICES ASSUME framed[n].content \in Seq(Results) PROVE FALSE
      BY DEF GivesAt, Gives
    <3>2. framed[n].content[i] \in Results
      BY <2>2, <3>1
    <3>3. QED
      BY <2>2, <3>2 DEF Results
  <2>4. QED
    BY <2>3, TurnSorts
<1>3. E # {} => last \in E
  <2>1. E \subseteq 1 .. Len(framed)
    BY <1>1
  <2> HIDE DEF E
  <2>2. QED
    BY <1>1, <2>1, LargestPlace
<1>4. msgs = IF row.caching /\ enabled /\ used < row.ceiling /\ E # {} THEN marked ELSE framed
  BY DEF DecorateMessages
<1> HIDE DEF E, last
<1>5. CASE row.caching /\ enabled /\ used < row.ceiling /\ E # {}
  <2>1. last \in DOMAIN framed /\ AsksAt(framed, last) /\ last \in Nat /\ last # 0
    BY <1>1, <1>2, <1>3, <1>5
  <2>2. \A n \in DOMAIN framed : framed[n] = [role |-> framed[n].role, content |-> framed[n].content]
    BY TurnSorts
  <2>3. DOMAIN marked = DOMAIN framed
    OBVIOUS
  <2>4. Len(marked) = Len(framed)
    BY <1>1
  <2>5. \A n \in DOMAIN framed : n # last => marked[n] = framed[n]
    OBVIOUS
  <2>6. marked[last].role = framed[last].role
        /\ marked[last].content = Append(framed[last].content, CachePoint(ttl))
        /\ marked[last] = [role |-> marked[last].role, content |-> marked[last].content]
    <3> DEFINE t == framed[last]
               c == Append(t.content, CachePoint(ttl))
               u == marked[last]
    <3>1. u = [t EXCEPT !.content = c]
      BY <2>1
    <3>2. t = [role |-> t.role, content |-> t.content]
      BY <2>1, <2>2
    <3> HIDE DEF t, u, c
    <3>3. QED
      BY <3>1, <3>2 DEF t, u, c
  <2> HIDE DEF marked
  <2>7. Decorated(marked, framed, last, ttl)
    BY <2>1, <2>2, <2>3, <2>4, <2>5, <2>6 DEF Decorated
  <2>8. QED
    BY <1>4, <1>5, <2>1, <2>7
<1>6. CASE ~ (row.caching /\ enabled /\ used < row.ceiling /\ E # {})
  BY <1>1, <1>4, <1>6, TurnSorts DEF Decorated
<1>7. QED
  BY <1>5, <1>6

LEMMA NormalTurns ==
    ASSUME NEW framed \in Seq(AllTurns), NEW msgs, NEW mark, NEW ttl \in STRING,
           Decorated(msgs, framed, mark, ttl)
    PROVE  Final(NormalizeToolResultTurns(msgs), framed, "chat", mark, ttl)
<1> DEFINE Expected(n) == IF n = 1 \/ msgs[n - 1].role # "assistant" THEN {}
                          ELSE CallsOf(msgs[n - 1].content)
           r == NormalizeToolResultTurns(msgs)
<1>1. Len(framed) \in Nat /\ DOMAIN framed = 1 .. Len(framed)
  OBVIOUS
<1>2. /\ DOMAIN msgs = DOMAIN framed /\ Len(msgs) = Len(framed)
      /\ mark # 0 => mark \in DOMAIN framed /\ AsksAt(framed, mark)
      /\ \A n \in DOMAIN framed :
            /\ msgs[n].role = framed[n].role
            /\ msgs[n].content = IF n = mark THEN Append(framed[n].content, CachePoint(ttl))
                                 ELSE framed[n].content
            /\ msgs[n] = [role |-> msgs[n].role, content |-> msgs[n].content]
  BY DEF Decorated
<1>3. r = [n \in DOMAIN framed |->
             IF msgs[n].role = "user" /\ Carries(msgs[n].content, "toolResult") /\ Expected(n) # {}
             THEN [msgs[n] EXCEPT !.content = KeepExpected(@, Expected(n))]
             ELSE msgs[n]]
  BY <1>2 DEF NormalizeToolResultTurns
<1>4. ASSUME NEW n \in DOMAIN framed, n # 1, framed[n - 1].role = "assistant"
      PROVE  Expected(n) = CallsAt(framed, n - 1)
  <2>1. n - 1 \in DOMAIN framed
    BY <1>1, <1>4
  <2>2. n - 1 # mark
    BY <1>1, <1>2, <1>4, <2>1, TurnSorts
  <2>3. QED
    BY <1>2, <1>4, <2>1, <2>2 DEF CallsAt
<1>5. ASSUME NEW n \in DOMAIN framed, n = 1 \/ framed[n - 1].role # "assistant"
      PROVE  Expected(n) = {}
  <2>1. n # 1 => n - 1 \in DOMAIN framed
    BY <1>1
  <2>2. QED
    BY <1>2, <1>5, <2>1
<1>6. ASSUME NEW n \in DOMAIN framed, AsksAt(framed, n)
      PROVE  ~ Carries(msgs[n].content, "toolResult")
  <2>1. ~ Carries(framed[n].content, "toolResult") /\ framed[n].content \in Seq(Blocks)
    BY <1>6, TurnSorts DEF AsksAt, Asks
  <2>2. CASE n # mark
    BY <1>2, <2>1, <2>2
  <2>3. CASE n = mark
    <3> DEFINE p == CachePoint(ttl)
               c == framed[n].content
    <3>1. p.kind = "cachePoint"
      BY DEF CachePoint, Block
    <3>2. Append(c, p) = msgs[n].content
      BY <1>2, <2>3
    <3>3. /\ \A i \in 1 .. Len(c) : Append(c, p)[i] = c[i]
          /\ Append(c, p)[Len(c) + 1] = p
          /\ DOMAIN Append(c, p) = 1 .. Len(c) + 1 /\ DOMAIN c = 1 .. Len(c) /\ Len(c) \in Nat
      <4> HIDE DEF p, c
      <4>1. QED
        BY <2>1, AppendProperties, LenProperties DEF c
    <3> HIDE DEF p
    <3>4. ASSUME NEW i \in DOMAIN Append(c, p) PROVE Append(c, p)[i].kind # "toolResult"
      <4> HIDE DEF c
      <4>1. CASE i = Len(c) + 1
        BY <3>1, <3>3, <4>1
      <4>2. CASE i # Len(c) + 1
        BY <2>1, <3>3, <3>4, <4>2 DEF Carries, c
      <4>3. QED
        BY <4>1, <4>2
    <3>5. QED
      BY <3>2, <3>4 DEF Carries
  <2>4. QED
    BY <2>2, <2>3
<1> HIDE DEF Expected, r
<1>7. ASSUME NEW n \in DOMAIN framed, framed[n].role = "assistant"
      PROVE  r[n].role = framed[n].role /\ r[n].content = framed[n].content
  BY <1>1, <1>2, <1>3, <1>7, TurnSorts
<1>8. ASSUME NEW n \in DOMAIN framed, AsksAt(framed, n)
      PROVE  r[n] = msgs[n]
  BY <1>3, <1>6, <1>8
<1>9. ASSUME NEW n \in DOMAIN framed, GivesAt(framed, n)
      PROVE  r[n].role = framed[n].role /\ r[n].content = Keeps("chat", framed, n)
  <2>1. msgs[n].role = "user" /\ msgs[n].content = framed[n].content
        /\ Carries(msgs[n].content, "toolResult")
    BY <1>1, <1>2, <1>9, TurnSorts DEF GivesAt, Gives
  <2>2. CASE n # 1 /\ framed[n - 1].role = "assistant" /\ CallsAt(framed, n - 1) # {}
    <3>1. r[n].content = KeepExpected(msgs[n].content, Expected(n)) /\ r[n].role = msgs[n].role
      BY <1>2, <1>3, <1>4, <2>1, <2>2
    <3>2. QED
      BY <1>1, <1>2, <1>4, <2>1, <2>2, <3>1 DEF Keeps
  <2>3. CASE ~ (n # 1 /\ framed[n - 1].role = "assistant" /\ CallsAt(framed, n - 1) # {})
    BY <1>1, <1>2, <1>3, <1>4, <1>5, <2>1, <2>3 DEF Keeps
  <2>4. QED
    BY <2>2, <2>3
<1>10. QED
  BY <1>1, <1>2, <1>3, <1>7, <1>8, <1>9, TurnSorts DEF Final, r

LEMMA PlainTurns ==
    ASSUME NEW framed \in Seq(AllTurns), NEW msgs, NEW mark, NEW ttl,
           Decorated(msgs, framed, mark, ttl)
    PROVE  Final(msgs, framed, "responses", mark, ttl)
<1>1. /\ DOMAIN msgs = DOMAIN framed /\ Len(msgs) = Len(framed)
      /\ mark # 0 => mark \in DOMAIN framed /\ AsksAt(framed, mark)
      /\ \A n \in DOMAIN framed :
            /\ msgs[n].role = framed[n].role
            /\ msgs[n].content = IF n = mark THEN Append(framed[n].content, CachePoint(ttl))
                                 ELSE framed[n].content
  BY DEF Decorated
<1>2. ASSUME NEW n \in DOMAIN framed, ~ AsksAt(framed, n)
      PROVE  n # mark
  BY <1>1, <1>2
<1>3. QED
  BY <1>1, <1>2, TurnSorts DEF Final, Keeps

(***************************************************************************)
(* What the turns of a request show of calls and results.                  *)
(***************************************************************************)

\* Among finitely many places there is a first.
LEMMA SmallestPlace ==
    ASSUME NEW m \in Nat, NEW S, S \subseteq 1 .. m, S # {}
    PROVE  \E n \in S : \A k \in S : n <= k
<1> DEFINE N == {i \in Nat : \A R : R \subseteq 1 .. i /\ R # {} => \E n \in R : \A k \in R : n <= k}
<1>1. 0 \in N
  OBVIOUS
<1>2. ASSUME NEW i \in Nat, i \in N PROVE i + 1 \in N
  <2>1. SUFFICES ASSUME NEW R, R \subseteq 1 .. i + 1, R # {}
                 PROVE  \E n \in R : \A k \in R : n <= k
    OBVIOUS
  <2>2. CASE R \subseteq {i + 1}
    <3>1. i + 1 <= i + 1
      OBVIOUS
    <3>2. QED
      BY <2>1, <2>2, <3>1
  <2>3. CASE ~ (R \subseteq {i + 1})
    <3> DEFINE Q == R \ {i + 1}
    <3>1. Q \subseteq 1 .. i /\ Q # {}
      BY <2>1, <2>3
    <3>2. PICK n \in Q : \A k \in Q : n <= k
      BY <1>2, <3>1
    <3>3. QED
      BY <3>1, <3>2
  <2>4. QED
    BY <2>2, <2>3
<1>3. Nat \subseteq N
  <2> HIDE DEF N
  <2>1. QED
    BY <1>1, <1>2, NatInductionSet
<1>4. QED
  BY <1>3

\* A result is its number.
LEMMA ResultIs ==
    ASSUME NEW b
    PROVE  b \in Results <=> b = [kind |-> "toolResult", of |-> b.of, tag |-> <<>>] /\ b.of \in Int
<1>1. QED
  BY DEF Results

LEMMA ResultsIn ==
    ASSUME NEW c \in Seq(Results)
    PROVE  /\ DOMAIN c = 1 .. Len(c) /\ Len(c) \in Nat
           /\ ResultsOf(c) = {c[i].of : i \in 1 .. Len(c)}
           /\ \A i \in 1 .. Len(c) : c[i] \in Results /\ c[i].kind = "toolResult"
           /\ \A i, j \in 1 .. Len(c) : c[i] = c[j] <=> c[i].of = c[j].of
<1>1. DOMAIN c = 1 .. Len(c) /\ Len(c) \in Nat /\ \A i \in 1 .. Len(c) : c[i] \in Results
  OBVIOUS
<1>2. \A i \in 1 .. Len(c) : c[i].kind = "toolResult"
                             /\ c[i] = [kind |-> "toolResult", of |-> c[i].of, tag |-> <<>>]
  BY <1>1, ResultIs
<1>3. QED
  BY <1>1, <1>2 DEF ResultsOf

\* Results of which none comes twice are as many as their numbers.
LEMMA CountResults ==
    ASSUME NEW c \in Seq(Results), Single(c)
    PROVE  Len(c) = Cardinality(ResultsOf(c))
<1> DEFINE m == Len(c)
           S == ResultsOf(c)
           f == [i \in 1 .. m |-> c[i].of]
<1>1. /\ DOMAIN c = 1 .. m /\ m \in Nat /\ S = {c[i].of : i \in 1 .. m}
      /\ \A i \in 1 .. m : c[i].kind = "toolResult"
      /\ \A i, j \in 1 .. m : c[i] = c[j] <=> c[i].of = c[j].of
  BY ResultsIn
<1> HIDE DEF m, S
<1>2. f \in Bijection(1 .. m, S)
  BY <1>1 DEF Bijection, Injection, Surjection, IsInjective, Single
<1>3. QED
  BY <1>1, <1>2, FS_CountingElements DEF m, S, ExistsBijection

\* The first result for each number stays.
LEMMA KeptResults ==
    ASSUME NEW c \in Seq(Results), c # <<>>, NEW k, k = KeepExpected(c, ResultsOf(c))
    PROVE  k \in Seq(Results) /\ k # <<>> /\ ResultsOf(k) = ResultsOf(c) /\ Single(k)
<1> DEFINE m == Len(c)
           P == {i \in DOMAIN c : \/ c[i].kind # "toolResult"
                                  \/ /\ c[i].of \in ResultsOf(c)
                                     /\ \A j \in 1 .. (i - 1) : c[j] # c[i]}
<1>1. /\ DOMAIN c = 1 .. m /\ m \in Nat /\ ResultsOf(c) = {c[i].of : i \in 1 .. m}
      /\ \A i \in 1 .. m : c[i].kind = "toolResult"
      /\ \A i, j \in 1 .. m : c[i] = c[j] <=> c[i].of = c[j].of
  BY ResultsIn
<1>2. \A i : i \in P <=> i \in 1 .. m /\ \A j \in 1 .. (i - 1) : c[j] # c[i]
  BY <1>1
<1>3. k = At(c, P)
  BY DEF KeepExpected
<1> HIDE DEF m, P
<1>4. k \in Seq(Results)
  BY <1>3, AtPlaces
<1>5. PICK x : Places(x, k, c, P)
  BY <1>3, AtPlaces
<1>6. /\ DOMAIN k = 1 .. Len(k) /\ Len(k) \in Nat /\ ResultsOf(k) = {k[i].of : i \in 1 .. Len(k)}
      /\ \A i \in 1 .. Len(k) : k[i].kind = "toolResult"
      /\ \A i, j \in 1 .. Len(k) : k[i] = k[j] <=> k[i].of = k[j].of
  BY <1>4, ResultsIn
<1>7. /\ \A i \in 1 .. Len(k) : x[i] \in 1 .. m /\ x[i] \in P /\ k[i] = c[x[i]]
      /\ \A i, j \in 1 .. Len(k) : x[i] = x[j] => i = j
      /\ \A n \in P : \E i \in 1 .. Len(k) : x[i] = n
  BY <1>1, <1>2, <1>5 DEF Places
<1>8. Single(k)
  <2>1. SUFFICES ASSUME NEW i \in DOMAIN k, NEW j \in DOMAIN k, k[i] = k[j] PROVE i = j
    BY DEF Single
  <2>2. x[i] \in 1 .. m /\ x[j] \in 1 .. m /\ c[x[i]] = c[x[j]] /\ x[i] \in P /\ x[j] \in P
    BY <1>6, <1>7, <2>1
  <2>3. ~ (x[i] < x[j])
    <3>1. ASSUME x[i] < x[j] PROVE FALSE
      BY <1>1, <1>2, <2>2, <3>1
    <3>2. QED
      BY <3>1
  <2>4. ~ (x[j] < x[i])
    <3>1. ASSUME x[j] < x[i] PROVE FALSE
      <4>1. x[j] \in 1 .. (x[i] - 1)
        BY <1>1, <2>2, <3>1
      <4>2. QED
        BY <1>2, <2>2, <4>1
    <3>2. QED
      BY <3>1
  <2>5. x[i] = x[j]
    BY <1>1, <2>2, <2>3, <2>4
  <2>6. QED
    BY <1>6, <1>7, <2>1, <2>5
<1>9. \A i \in 1 .. m : \E n \in P : c[n] = c[i]
  <2>1. TAKE i \in 1 .. m
  <2> DEFINE S == {j \in 1 .. m : c[j] = c[i]}
  <2>2. PICK n \in S : \A j \in S : n <= j
    BY <1>1, <2>1, SmallestPlace
  <2>3. n \in 1 .. m /\ c[n] = c[i]
    BY <2>2
  <2>4. \A j \in 1 .. (n - 1) : c[j] # c[n]
    <3>1. TAKE j \in 1 .. (n - 1)
    <3>2. QED
      BY <1>1, <2>2, <2>3, <3>1
  <2>5. QED
    BY <1>2, <2>3, <2>4
<1>10. ResultsOf(k) = ResultsOf(c)
  <2>1. \A y : y \in ResultsOf(k) <=> \E i \in 1 .. Len(k) : k[i].of = y
    BY <1>6
  <2>2. \A y : y \in ResultsOf(c) <=> \E i \in 1 .. m : c[i].of = y
    BY <1>1
  <2>3. ASSUME NEW y \in ResultsOf(k) PROVE y \in ResultsOf(c)
    BY <1>7, <2>1, <2>2
  <2>4. ASSUME NEW y \in ResultsOf(c) PROVE y \in ResultsOf(k)
    <3>1. PICK i \in 1 .. m : c[i].of = y
      BY <2>2, <2>4
    <3>2. PICK n \in P : c[n] = c[i]
      BY <1>9
    <3>3. PICK j \in 1 .. Len(k) : x[j] = n
      BY <1>7, <3>2
    <3>4. QED
      BY <1>7, <2>1, <3>1, <3>2, <3>3
  <2>5. QED
    BY <2>3, <2>4
<1>11. k # <<>>
  <2>1. c[1].of \in ResultsOf(k)
    BY <1>1, <1>10, EmptySeq DEF m
  <2>2. QED
    BY <1>6, <2>1, EmptySeq
<1>12. QED
  BY <1>4, <1>8, <1>10, <1>11

-----------------------------------------------------------------------------
(* Views of the final turns *)

\* A cache point is no result and no call.
LEMMA Pointed ==
    ASSUME NEW c \in Seq(Blocks), NEW ttl \in STRING
    PROVE  LET d == Append(c, CachePoint(ttl))
           IN  /\ d \in Seq(Blocks) /\ d # <<>>
               /\ CallsOf(d) = CallsOf(c) /\ ResultsOf(d) = ResultsOf(c)
               /\ \A kind : kind # "cachePoint" => Ids(d, kind) = Ids(c, kind)
<1> DEFINE p == CachePoint(ttl)
           e == <<p>>
<1>1. p \in BlocksOf({"cachePoint"}) /\ p.kind = "cachePoint"
  <2> DEFINE tag == <<ttl>>
  <2>1. tag \in Seq(STRING)
    BY OneSeq
  <2>2. p = Block("cachePoint", 0, tag)
    BY DEF CachePoint
  <2> HIDE DEF p, tag
  <2>3. p.kind = "cachePoint"
    BY <2>2 DEF Block
  <2>4. QED
    BY <2>1, <2>2, <2>3, BlockFields
<1>2. p \in Blocks
  BY <1>1, KindOf DEF BlocksOf, Blocks, Kinds
<1> HIDE DEF p
<1>3. e \in Seq(Blocks) /\ e \in Seq({p})
  BY <1>2, OneSeq
<1>4. Append(c, p) = c \o e /\ Append(c, p) \in Seq(Blocks) /\ Append(c, p) # <<>>
  BY <1>2
<1>5. \A kind : kind # "cachePoint" => Ids(e, kind) = {}
  <2>1. TAKE kind
  <2>2. SUFFICES ASSUME kind # "cachePoint" PROVE Ids(e, kind) = {}
    OBVIOUS
  <2> HIDE DEF e
  <2>3. QED
    BY <1>1, <1>3, <2>2, IdsNone
<1> HIDE DEF e
<1>6. \A kind : Ids(c \o e, kind) = Ids(c, kind) \cup Ids(e, kind)
  BY <1>3, IdsConcat
<1>7. \A kind : kind # "cachePoint" => Ids(c \o e, kind) = Ids(c, kind)
  BY <1>5, <1>6
<1>8. QED
  BY <1>4, <1>7, IdsNames DEF p

\* The results in a content, as a property of the requests counts them.
LEMMA ResultsShown ==
    ASSUME NEW c \in Seq(Blocks), NEW next, next = Of(c, "toolResult"),
           ResultsOf(c) # {} => c \in Seq(Results) /\ Single(c)
    PROVE  /\ {next[i].of : i \in DOMAIN next} = ResultsOf(c)
           /\ ResultsOf(c) # {} => Len(next) = Cardinality(ResultsOf(c))
<1>1. next = Among(c, BlocksOf({"toolResult"}))
  BY DEF Of
<1>2. CASE ResultsOf(c) = {}
  <2>1. ~ Carries(c, "toolResult")
    BY <1>2, IdsNames, IdsCarried
  <2>2. next = <<>>
    BY <1>1, <2>1, AmongNone, BlockKind DEF Carries
  <2>3. QED
    BY <1>2, <2>2, EmptySeq
<1>3. CASE ResultsOf(c) # {}
  <2>1. c \in Seq(Results) /\ Single(c)
    BY <1>3
  <2>2. Results \subseteq BlocksOf({"toolResult"})
    <3>1. {<<>>} \subseteq Seq(STRING)
      BY EmptySeq
    <3>2. QED
      BY <3>1, KindOf DEF Results, BlocksOf
  <2>3. next = c
    BY <1>1, <2>1, <2>2, AmongAll
  <2>4. QED
    BY <2>1, <2>3, ResultsIn, CountResults
<1>4. QED
  BY <1>2, <1>3

\* A turn of a request shows the calls and the results that the transcript did.
LEMMA FinalTurn ==
    ASSUME NEW framed \in Seq(AllTurns), Paired(framed, {}), NEW side \in {"chat", "responses"},
           side = "responses" => AllSingle(framed),
           NEW msgs, NEW mark, NEW ttl \in STRING, Final(msgs, framed, side, mark, ttl),
           NEW n \in DOMAIN framed
    PROVE  /\ CallsOf(msgs[n].content) = CallsAt(framed, n)
           /\ ResultsOf(msgs[n].content) = ResultsAt(framed, n)
           /\ msgs[n].content \in Seq(Blocks) /\ msgs[n].content # <<>>
           /\ ResultsAt(framed, n) # {} => msgs[n].content \in Seq(Results) /\ Single(msgs[n].content)
<1> DEFINE c == framed[n].content
           d == msgs[n].content
<1>1. /\ AsksAt(framed, n) \/ GivesAt(framed, n) \/ framed[n].role = "assistant"
      /\ c \in Seq(Blocks) /\ c # <<>> /\ framed[n] \in AllTurns
  BY TurnSorts
<1>2. CallsAt(framed, n) = CallsOf(c) /\ ResultsAt(framed, n) = ResultsOf(c)
  BY DEF CallsAt, ResultsAt
<1>3. CASE framed[n].role = "assistant"
  BY <1>1, <1>2, <1>3, TurnViews DEF Final
<1>4. CASE AsksAt(framed, n)
  <2>1. ResultsOf(c) = {}
    BY <1>4, IdsNames, IdsCarried DEF AsksAt, Asks
  <2>2. CASE d = c
    BY <1>1, <1>2, <2>1, <2>2
  <2>3. CASE d = Append(c, CachePoint(ttl))
    <3> HIDE DEF c, d
    <3>1. QED
      BY <1>1, <1>2, <2>1, <2>3, Pointed DEF d
  <2>4. QED
    BY <1>4, <2>2, <2>3 DEF Final
<1>5. CASE GivesAt(framed, n)
  <2>1. c \in Seq(Results) /\ ResultsOf(c) # {}
    BY <1>5, IdsNames, IdsCarried DEF GivesAt, Gives
  <2>2. d = Keeps(side, framed, n)
    BY <1>5 DEF Final
  <2>3. n > 1 /\ ResultsAt(framed, n) = CallsAt(framed, n - 1) /\ n - 1 \in DOMAIN framed
    <3>1. DOMAIN framed = 1 .. Len(framed) /\ Len(framed) \in Nat /\ framed # <<>>
      OBVIOUS
    <3>2. n > 1 /\ n - 1 \in 1 .. Len(framed) - 1 /\ n - 1 \in DOMAIN framed /\ (n - 1) + 1 = n
      BY <1>2, <2>1, <3>1 DEF Paired
    <3>3. QED
      BY <1>2, <2>1, <3>2 DEF Paired
  <2>4. framed[n - 1].role = "assistant"
    <3>1. framed[n - 1] \in AllTurns /\ CallsOf(framed[n - 1].content) # {}
      BY <1>2, <2>1, <2>3 DEF CallsAt
    <3>2. QED
      BY <3>1, TurnViews
  <2>5. CASE side = "chat"
    <3>1. d = KeepExpected(c, ResultsOf(c))
      BY <1>2, <2>1, <2>2, <2>3, <2>4, <2>5 DEF Keeps
    <3> HIDE DEF c, d
    <3>2. d \in Seq(Results) /\ d # <<>> /\ ResultsOf(d) = ResultsOf(c) /\ Single(d)
      BY <1>1, <2>1, <3>1, KeptResults
    <3>3. QED
      BY <1>1, <1>2, <2>1, <3>2, GivenContent, IdsNames, IdsCarried, SomeBlocks DEF d
  <2>6. CASE side = "responses"
    BY <1>1, <1>2, <2>1, <2>2, <2>6 DEF AllSingle, Keeps
  <2>7. QED
    BY <2>5, <2>6
<1>6. QED
  BY <1>1, <1>3, <1>4, <1>5

\* Each turn with calls is followed by their results, each once.
Followed(msgs, n) ==
    LET calls    == CallsOf(msgs[n].content)
        next     == IF n = Len(msgs) THEN <<>> ELSE Of(msgs[n + 1].content, "toolResult")
        results  == {next[i].of : i \in DOMAIN next}
    IN  /\ calls # {} => results = calls /\ Len(next) = Cardinality(calls)
        /\ results # {} => calls # {}

Follow(msgs) == \A n \in DOMAIN msgs : Followed(msgs, n)

LEMMA FinalFollow ==
    ASSUME NEW framed \in Seq(AllTurns), Paired(framed, {}), NEW side \in {"chat", "responses"},
           side = "responses" => AllSingle(framed),
           NEW msgs, NEW mark, NEW ttl \in STRING, Final(msgs, framed, side, mark, ttl)
    PROVE  Follow(msgs)
<1>1. /\ DOMAIN framed = 1 .. Len(framed) /\ Len(framed) \in Nat
      /\ DOMAIN msgs = DOMAIN framed /\ Len(msgs) = Len(framed)
  BY DEF Final
<1>2. SUFFICES ASSUME NEW n \in DOMAIN framed PROVE Followed(msgs, n)
  BY <1>1 DEF Follow
<1> DEFINE calls == CallsOf(msgs[n].content)
<1>3. calls = CallsAt(framed, n)
  BY FinalTurn
<1>4. CASE n = Len(framed)
  <2>1. DOMAIN <<>> = {}
    BY EmptySeq
  <2>2. QED
    BY <1>1, <1>2, <1>3, <1>4, <2>1, EmptySeq DEF Followed, Paired
<1>5. CASE n # Len(framed)
  <2> DEFINE c == msgs[n + 1].content
             next == Of(c, "toolResult")
  <2>1. n + 1 \in DOMAIN framed /\ n \in 1 .. Len(framed) - 1
    BY <1>1, <1>2, <1>5
  <2>2. /\ ResultsOf(c) = ResultsAt(framed, n + 1) /\ c \in Seq(Blocks)
        /\ ResultsOf(c) # {} => c \in Seq(Results) /\ Single(c)
    BY <2>1, FinalTurn
  <2>3. /\ {next[i].of : i \in DOMAIN next} = ResultsOf(c)
        /\ ResultsOf(c) # {} => Len(next) = Cardinality(ResultsOf(c))
    BY <2>2, ResultsShown
  <2>4. /\ ResultsAt(framed, n + 1) \subseteq CallsAt(framed, n)
        /\ CallsAt(framed, n) # {} => CallsAt(framed, n) \ ResultsAt(framed, n + 1) = {}
    BY <2>1 DEF Paired
  <2> HIDE DEF c, next
  <2>5. QED
    BY <1>1, <1>3, <1>5, <2>2, <2>3, <2>4 DEF c, next, Followed
<1>6. QED
  BY <1>4, <1>5

(***************************************************************************)
(* What a request is built of.                                             *)
(***************************************************************************)
Points(blocks) == Of(blocks, "cachePoint")

LEMMA PointFields ==
    ASSUME NEW ttl \in STRING
    PROVE  /\ CachePoint(ttl) \in BlocksOf({"cachePoint"}) /\ CachePoint(ttl) \in Blocks
           /\ CachePoint(ttl).kind = "cachePoint" /\ CachePoint(ttl).tag[1] = ttl
<1> DEFINE p == CachePoint(ttl)
           tag == <<ttl>>
<1>1. tag \in Seq(STRING)
  BY OneSeq
<1>2. p = Block("cachePoint", 0, tag)
  BY DEF CachePoint
<1>3. tag[1] = ttl
  OBVIOUS
<1> HIDE DEF p, tag
<1>4. p.kind = "cachePoint" /\ p.tag = tag
  BY <1>2 DEF Block
<1>5. BlocksOf({"cachePoint"}) \subseteq Blocks
  BY KindOf DEF BlocksOf, Blocks, Kinds
<1>6. QED
  BY <1>1, <1>2, <1>3, <1>4, <1>5, BlockFields DEF p

\* No point among blocks of other kinds; one behind them.
LEMMA PointsBehind ==
    ASSUME NEW c \in Seq(Blocks), ~ Carries(c, "cachePoint"), NEW ttl \in STRING
    PROVE  /\ Points(c) = <<>>
           /\ Points(Append(c, CachePoint(ttl))) = <<CachePoint(ttl)>>
           /\ Append(c, CachePoint(ttl)) \in Seq(Blocks)
<1> DEFINE p == CachePoint(ttl)
           S == BlocksOf({"cachePoint"})
<1>1. p \in S /\ p \in Blocks
  BY PointFields
<1>2. \A b \in S : b.kind = "cachePoint"
  BY BlockKind
<1> HIDE DEF p, S
<1>3. Among(c, S) = <<>>
  BY <1>2, AmongNone DEF Carries
<1>4. Among(Append(c, p), S) = Append(Among(c, S), p)
  BY <1>1, AmongAppend
<1>5. Append(c, p) \in Seq(Blocks)
  BY <1>1, AppendProperties
<1>6. QED
  BY <1>3, <1>4, <1>5 DEF Points, Of, S, p

\* The points of the turns are those of the one turn that has some.
LEMMA PointsFlat ==
    ASSUME NEW T, NEW ss \in Seq(Seq(T)), NEW S, NEW mark, NEW points,
           \A n \in DOMAIN ss : Among(ss[n], S) = IF n = mark THEN points ELSE <<>>,
           points \in Seq(T)
    PROVE  Among(FlattenSeq(ss), S) = IF mark \in DOMAIN ss THEN points ELSE <<>>
<1> DEFINE V == Seq(T)
           Q == {r \in Seq(V) :
                   (\A n \in DOMAIN r : Among(r[n], S) = IF n = mark THEN points ELSE <<>>)
                      => Among(FlattenSeq(r), S) = IF mark \in DOMAIN r THEN points ELSE <<>>}
<1> HIDE DEF V
<1>1. <<>> \in Q
  BY FlattenEmpty, AmongEmpty, EmptySeq
<1>2. ASSUME NEW r \in Seq(V), NEW e \in V, r \in Q PROVE Append(r, e) \in Q
  <2> DEFINE w == Append(r, e)
             n == Len(r)
  <2>1. /\ w \in Seq(V) /\ n \in Nat /\ DOMAIN r = 1 .. n /\ DOMAIN w = 1 .. n + 1
        /\ \A k \in 1 .. n : w[k] = r[k]
        /\ w[n + 1] = e
    BY AppendProperties, LenProperties
  <2> HIDE DEF w, n
  <2>2. SUFFICES ASSUME \A k \in DOMAIN w : Among(w[k], S) = IF k = mark THEN points ELSE <<>>
                 PROVE  Among(FlattenSeq(w), S) = IF mark \in DOMAIN w THEN points ELSE <<>>
    BY <2>1 DEF w
  <2>3. Among(FlattenSeq(r), S) = IF mark \in DOMAIN r THEN points ELSE <<>>
    BY <1>2, <2>1, <2>2
  <2>4. Among(e, S) = IF n + 1 = mark THEN points ELSE <<>>
    BY <2>1, <2>2
  <2>5. FlattenSeq(w) = FlattenSeq(r) \o e /\ FlattenSeq(r) \in Seq(T) /\ e \in Seq(T)
    BY FlattenAppend, FlattenType DEF w, V
  <2>6. Among(FlattenSeq(w), S) = Among(FlattenSeq(r), S) \o Among(e, S)
    <3>1. \A s, u \in Seq(T) : Among(s \o u, S) = Among(s, S) \o Among(u, S)
      BY AmongConcat
    <3>2. QED
      BY <2>5, <3>1
  <2>7. mark \in DOMAIN w <=> mark \in DOMAIN r \/ mark = n + 1
    BY <2>1
  <2>8. ~ (mark \in DOMAIN r /\ mark = n + 1)
    BY <2>1
  <2>9. QED
    BY <2>3, <2>4, <2>6, <2>7, <2>8, ConcatEmptySeq, EmptySeq
<1>3. Seq(V) \subseteq Q
  <2> HIDE DEF Q
  <2>1. QED
    BY <1>1, <1>2, SeqInductionSet
<1>4. ss \in Q
  BY <1>3 DEF V
<1>5. QED
  BY <1>4

\* The points of the turns of a request.
LEMMA FinalPoints ==
    ASSUME NEW framed \in Seq(AllTurns), NEW side \in {"chat", "responses"},
           NEW msgs, NEW mark, NEW ttl \in STRING, Final(msgs, framed, side, mark, ttl)
    PROVE  Points(AllBlocks(msgs)) = IF mark # 0 THEN <<CachePoint(ttl)>> ELSE <<>>
<1> DEFINE ss == [n \in DOMAIN msgs |-> msgs[n].content]
           S  == BlocksOf({"cachePoint"})
<1>1. /\ DOMAIN framed = 1 .. Len(framed) /\ Len(framed) \in Nat
      /\ DOMAIN msgs = DOMAIN framed
      /\ mark # 0 => mark \in DOMAIN framed /\ AsksAt(framed, mark)
  BY DEF Final
<1>2. ASSUME NEW n \in DOMAIN framed
      PROVE  framed[n].content \in Seq(Blocks) /\ ~ Carries(framed[n].content, "cachePoint")
  <2> DEFINE c == framed[n].content
  <2>1. c \in Seq(Blocks) /\ (c \in Seq(Spoken) \/ c \in Seq(Results) \/ c \in Seq(Answered))
    BY TurnSorts, TurnClass DEF AsksAt, GivesAt, Asks, Gives, Says
  <2>2. /\ \A b \in Spoken : b.kind # "cachePoint"
        /\ \A b \in Results : b.kind # "cachePoint"
        /\ \A b \in Answered : b.kind # "cachePoint"
    BY DEF Spoken, Results, Answered, BlocksOf
  <2> HIDE DEF c
  <2>3. QED
    BY <2>1, <2>2, IdsNone DEF c
<1>3. ASSUME NEW n \in DOMAIN framed, GivesAt(framed, n)
      PROVE  Keeps(side, framed, n) \in Seq(Results)
  <2>1. framed[n].content \in Seq(Results)
    BY <1>3 DEF GivesAt, Gives
  <2>2. QED
    BY <2>1, AtPlaces DEF KeepExpected, Keeps
<1>4. ASSUME NEW n \in DOMAIN framed
      PROVE  /\ msgs[n].content \in Seq(Blocks)
             /\ Points(msgs[n].content) = IF n = mark THEN <<CachePoint(ttl)>> ELSE <<>>
  <2> DEFINE c == framed[n].content
             d == msgs[n].content
  <2>1. c \in Seq(Blocks) /\ Points(c) = <<>>
        /\ Points(Append(c, CachePoint(ttl))) = <<CachePoint(ttl)>>
        /\ Append(c, CachePoint(ttl)) \in Seq(Blocks)
    BY <1>2, PointsBehind
  <2>2. CASE AsksAt(framed, n)
    <3>1. d = IF n = mark THEN Append(c, CachePoint(ttl)) ELSE c
      BY <2>2 DEF Final
    <3> HIDE DEF c, d
    <3>2. QED
      BY <2>1, <3>1 DEF d
  <2>3. CASE ~ AsksAt(framed, n)
    <3>1. n # mark
      BY <1>1, <2>3
    <3>2. CASE framed[n].role = "assistant"
      BY <2>1, <3>1, <3>2 DEF Final
    <3>3. CASE GivesAt(framed, n)
      <4>1. d \in Seq(Results)
        BY <1>3, <3>3 DEF Final
      <4> HIDE DEF d
      <4>2. \A b \in Results : b.kind # "cachePoint"
        BY DEF Results
      <4>3. QED
        BY <3>1, <4>1, <4>2, PointsBehind, IdsNone, SomeBlocks DEF d
    <3>4. QED
      BY <2>3, <3>2, <3>3, TurnSorts
  <2>4. QED
    BY <2>2, <2>3
<1>5. ss \in Seq(Seq(Blocks)) /\ DOMAIN ss = DOMAIN framed
  BY <1>1, <1>4
<1>6. \A n \in DOMAIN ss : Among(ss[n], S) = IF n = mark THEN <<CachePoint(ttl)>> ELSE <<>>
  BY <1>1, <1>4 DEF Points, Of
<1>7. <<CachePoint(ttl)>> \in Seq(Blocks)
  BY PointFields, OneSeq
<1> HIDE DEF ss, S
<1>8. Among(FlattenSeq(ss), S) = IF mark \in DOMAIN ss THEN <<CachePoint(ttl)>> ELSE <<>>
  BY <1>5, <1>6, <1>7, PointsFlat
<1>9. mark \in DOMAIN ss <=> mark # 0
  BY <1>1, <1>5
<1>10. QED
  BY <1>8, <1>9 DEF Points, AllBlocks, Of, ss, S

\* A request is built of turns, system blocks and tools, each with a cache point
\* where there may be one.
Zones(system, tools, row, scopes, ttl) ==
    CountCachePoints(DecorateTools(tools, row, scopes.system, 0, ttl))
       + CountCachePoints(DecorateSystemBlocks(system, row, scopes.system, ttl))

Built(req, framed, side, system, tools, row, scopes, ttl) ==
    /\ req.system = DecorateSystemBlocks(system, row, scopes.system, ttl)
    /\ \/ req.config.tools = DecorateTools(tools, row, scopes.system, 0, ttl)
       \/ tools = <<>> /\ req.config.tools = <<Tool(<<"_placeholder">>)>>
    /\ \E mark \in Nat :
          /\ Final(req.messages, framed, side, mark, ttl)
          /\ mark # 0 => /\ row.caching /\ scopes.messages
                         /\ Zones(system, tools, row, scopes, ttl) < row.ceiling

LEMMA ZonesDecorated ==
    ASSUME NEW messages, NEW system, NEW tools, NEW choice, NEW inference,
           NEW row, NEW scopes, NEW ttl
    PROVE  LET args == [messages |-> messages, system |-> system,
                        config |-> [tools |-> tools, choice |-> choice],
                        inference |-> inference]
               done == DecorateZones(args, row, scopes, ttl)
           IN  /\ DOMAIN done = {"messages", "system", "config", "inference"}
               /\ done.system = DecorateSystemBlocks(system, row, scopes.system, ttl)
               /\ done.config.tools = DecorateTools(tools, row, scopes.system, 0, ttl)
               /\ done.messages = DecorateMessages(messages, row, scopes.messages,
                                                   Zones(system, tools, row, scopes, ttl), ttl)
<1> DEFINE a == DecorateTools(tools, row, scopes.system, 0, ttl)
           b == DecorateSystemBlocks(system, row, scopes.system, ttl)
           c == DecorateMessages(messages, row, scopes.messages, Zones(system, tools, row, scopes, ttl), ttl)
           args == [messages |-> messages, system |-> system,
                    config |-> [tools |-> tools, choice |-> choice],
                    inference |-> inference]
           done == [args EXCEPT !.config.tools = a, !.system = b, !.messages = c]
<1> HIDE DEF a, b, c
<1>1. DOMAIN done = {"messages", "system", "config", "inference"}
  OBVIOUS
<1>2. done.system = b /\ done.messages = c
  OBVIOUS
<1>3. done.config.tools = a
  OBVIOUS
<1> HIDE DEF done, args
<1>4. QED
  BY <1>1, <1>2, <1>3 DEF a, b, c, args, DecorateZones, Zones

\* The tools of a request, before there is a cache point.
LEMMA NamedTools ==
    ASSUME NEW T, NEW s \in Seq(T), NEW f, \A k \in DOMAIN s : f[k] \in Seq(STRING)
    PROVE  [k \in DOMAIN s |-> Tool(f[k])] \in Seq(BlocksOf({"tool"}))
<1> DEFINE B == BlocksOf({"tool"})
<1> HIDE DEF B
<1>1. \A k \in DOMAIN s : Tool(f[k]) \in B
  BY BlockFields DEF B, Tool
<1>2. QED
  BY <1>1 DEF B

LEMMA DeclaredFields ==
    ASSUME NEW tool \in DeclaredTools
    PROVE  tool.name \in Seq(STRING) /\ tool.ns \in STRING /\ tool.kind \in STRING
<1> DEFINE V == Seq(STRING)
<1> HIDE DEF V
<1>1. QED
  BY DEF V, DeclaredTools

LEMMA ChatTools ==
    ASSUME NEW row, NEW o, o.tools \in Seq(DeclaredTools)
    PROVE  BuildToolConfig(row, o).tools \in Seq(BlocksOf({"tool"}))
<1>1. CASE o.tools = <<>> \/ o.choice = <<"none">>
  BY <1>1, EmptySeq DEF BuildToolConfig, NoConfig, ToolConfig
<1>2. CASE ~ (o.tools = <<>> \/ o.choice = <<"none">>)
  <2> DEFINE s == o.tools
             f == [k \in DOMAIN s |-> s[k].name]
  <2>1. BuildToolConfig(row, o).tools = [k \in DOMAIN s |-> Tool(s[k].name)]
    BY <1>2 DEF BuildToolConfig, ToolConfig
  <2>2. \A k \in DOMAIN s : f[k] \in Seq(STRING)
    BY DeclaredFields
  <2>3. [k \in DOMAIN s |-> Tool(f[k])] \in Seq(BlocksOf({"tool"}))
    <3> HIDE DEF f
    <3>1. QED
      BY <2>2, NamedTools
  <2>4. [k \in DOMAIN s |-> Tool(f[k])] = [k \in DOMAIN s |-> Tool(s[k].name)]
    OBVIOUS
  <2> HIDE DEF s, f
  <2>5. QED
    BY <2>1, <2>3, <2>4
<1>3. QED
  BY <1>1, <1>2

LEMMA ResponsesTools ==
    ASSUME NEW tools \in Seq(DeclaredTools), NEW choice
    PROVE  ResponsesToolConfig(tools, choice).tools \in Seq(BlocksOf({"tool"}))
<1> DEFINE s == BuildResponsesTools(tools)
<1>1. s \in Seq(DeclaredTools)
  BY AmongType DEF BuildResponsesTools
<1> HIDE DEF s
<1>2. CASE s = <<>> \/ choice = <<"none">>
  BY <1>2, EmptySeq DEF ResponsesToolConfig, NoConfig, ToolConfig, s
<1>3. CASE ~ (s = <<>> \/ choice = <<"none">>)
  <2> DEFINE f == [k \in DOMAIN s |-> BedrockName(s[k])]
  <2>1. \A k \in DOMAIN s : s[k] \in DeclaredTools
    BY <1>1
  <2>2. \A k \in DOMAIN s : f[k] \in Seq(STRING)
    BY <2>1, DeclaredFields, JoinedType DEF BedrockName
  <2>3. [k \in DOMAIN s |-> Tool(f[k])] \in Seq(BlocksOf({"tool"}))
    <3> HIDE DEF f
    <3>1. QED
      BY <1>1, <2>2, NamedTools
  <2>4. [k \in DOMAIN s |-> Tool(f[k])] = [k \in DOMAIN s |-> Tool(BedrockName(s[k]))]
    OBVIOUS
  <2> HIDE DEF f
  <2>5. QED
    BY <1>3, <2>3, <2>4 DEF ResponsesToolConfig, ToolConfig, s
<1>4. QED
  BY <1>2, <1>3

LEMMA FlatBlocks ==
    ASSUME NEW turns \in Seq(AllTurns)
    PROVE  AllBlocks(turns) \in Seq(Blocks)
<1> DEFINE B == Seq(Blocks)
           ss == [n \in DOMAIN turns |-> turns[n].content]
<1>1. ss \in Seq(B)
  <2> HIDE DEF B
  <2>1. QED
    BY TurnSorts DEF B
<1> HIDE DEF ss
<1>2. QED
  BY <1>1, FlattenType DEF AllBlocks, ss

LEMMA SynthesizedTools ==
    ASSUME NEW turns \in Seq(AllTurns)
    PROVE  SynthesizeToolConfig(turns).tools \in Seq(BlocksOf({"tool"}))
<1> DEFINE uses   == Of(AllBlocks(turns), "toolUse")
           firsts == At(uses, {k \in DOMAIN uses : \A j \in 1 .. (k - 1) : uses[j].tag # uses[k].tag})
           f == [k \in DOMAIN firsts |-> firsts[k].tag]
<1>1. uses \in Seq(BlocksOf({"toolUse"}))
  <2>1. uses \in Seq(Blocks \cap BlocksOf({"toolUse"}))
    BY FlatBlocks, AmongType DEF Of
  <2>2. QED
    BY <2>1
<1> HIDE DEF uses
<1>2. firsts \in Seq(BlocksOf({"toolUse"}))
  BY <1>1, AtPlaces
<1>3. SynthesizeToolConfig(turns).tools = [k \in DOMAIN firsts |-> Tool(firsts[k].tag)]
  BY DEF SynthesizeToolConfig, ToolConfig, uses
<1> HIDE DEF firsts
<1>4. \A k \in DOMAIN firsts : firsts[k] \in BlocksOf({"toolUse"})
  BY <1>2
<1>5. \A k \in DOMAIN firsts : f[k] \in Seq(STRING)
  BY <1>4, BlockKind
<1>6. [k \in DOMAIN firsts |-> Tool(f[k])] = [k \in DOMAIN firsts |-> Tool(firsts[k].tag)]
  OBVIOUS
<1> HIDE DEF f
<1>7. [k \in DOMAIN firsts |-> Tool(f[k])] \in Seq(BlocksOf({"tool"}))
  BY <1>2, <1>5, NamedTools
<1>8. QED
  BY <1>3, <1>6, <1>7

LEMMA ChatBuilt ==
    ASSUME NEW sent \in Seq(ChatMessages), NEW row, NEW o, o.tools \in Seq(DeclaredTools), NEW ring, NEW setting, NEW ttl \in STRING,
           ttl = ResolveCacheTtl(o.ttl, setting.ttl, row)
    PROVE  LET framed == Full("chat", FramedOf("chat", sent), row)
               built  == BuildToolConfig(row, o)
               tools  == IF built = NoConfig THEN SynthesizeToolConfig(framed).tools ELSE built.tools
           IN  Built(ChatAssemble(sent, row, o, ring, setting), framed, "chat",
                     ParseSystemPrompts(sent), tools, row, ChatScopes(o, setting.caching), ttl)
<1> DEFINE turns  == ReframeMessages(BuildIntermediateMessages(sent), row)
           framed == Full("chat", FramedOf("chat", sent), row)
           system == ParseSystemPrompts(sent)
           built  == BuildToolConfig(row, o)
           inf    == ChatInference(row, o, ChatReasoning(sent, row, o, ring))
           synth  == SynthesizeToolConfig(turns)
           config == IF built = NoConfig THEN synth ELSE built
           plain  == [messages |-> turns, system |-> system, config |-> config,
                      inference |-> inf]
           scopes == ChatScopes(o, setting.caching)
           cached == DecorateZones(plain, row, scopes, ttl)
           normal == NormalizeToolResultTurns(cached.messages)
           final  == [cached EXCEPT !.messages = normal,
                                    !.config = InjectPlaceholder(normal, @)]
           used   == Zones(system, config.tools, row, scopes, ttl)
<1>1. ChatAssemble(sent, row, o, ring, setting) = final
  BY DEF ChatAssemble
<1>2. turns = framed
  BY DEF ReframeMessages, Full, FramedOf, TurnsIn
<1>3. config = [tools |-> config.tools, choice |-> config.choice]
  <2>1. built = [tools |-> built.tools, choice |-> built.choice]
    BY DEF BuildToolConfig, NoConfig, ToolConfig
  <2>2. synth = [tools |-> synth.tools, choice |-> synth.choice]
    BY DEF SynthesizeToolConfig, ToolConfig
  <2> HIDE DEF built, synth
  <2>3. QED
    BY <2>1, <2>2
<1>4. framed \in Seq(AllTurns)
  BY FullKeeps, FramedType DEF Sent
<1>5. /\ DOMAIN cached = {"messages", "system", "config", "inference"}
      /\ cached.system = DecorateSystemBlocks(system, row, scopes.system, ttl)
      /\ cached.config.tools = DecorateTools(config.tools, row, scopes.system, 0, ttl)
      /\ cached.messages = DecorateMessages(turns, row, scopes.messages, used, ttl)
  <2> HIDE DEF turns, system, config, inf, scopes
  <2>1. QED
    BY <1>3, ZonesDecorated
<1> HIDE DEF turns, cached, config, system, scopes, used, framed
<1>6. PICK mark \in Nat : /\ Decorated(cached.messages, framed, mark, ttl)
                          /\ mark # 0 => row.caching /\ scopes.messages /\ used < row.ceiling
  BY <1>2, <1>4, <1>5, MarkedTurns
<1>7. Final(normal, framed, "chat", mark, ttl)
  BY <1>4, <1>6, NormalTurns
<1> HIDE DEF normal
<1>8. final.messages = normal /\ final.system = cached.system
      /\ final.config = InjectPlaceholder(normal, cached.config)
  BY <1>5
<1>9. cached.config.tools = <<>> => config.tools = <<>>
  <2>1. Append(config.tools, CachePoint(ttl)) # <<>>
    <3> DEFINE p == CachePoint(ttl)
               t == config.tools
    <3> HIDE DEF p, t
    <3>1. t \in Seq(BlocksOf({"tool"}) \cup {p}) /\ p \in BlocksOf({"tool"}) \cup {p}
      BY <1>2, <1>4, ChatTools, SynthesizedTools DEF t, config
    <3>2. Append(t, p) # <<>>
      BY <3>1, AppendProperties
    <3>3. QED
      BY <3>2 DEF p, t
  <2>2. QED
    BY <1>5, <2>1 DEF DecorateTools
<1> HIDE DEF final
<1>10. Built(final, framed, "chat", system, config.tools, row, scopes, ttl)
  BY <1>5, <1>6, <1>7, <1>8, <1>9 DEF Built, used, InjectPlaceholder, PlaceholderToolConfig,
     ToolConfig
<1>11. QED
  BY <1>1, <1>2, <1>10 DEF system, scopes, framed, config

\* The time-to-live of the cache points.
LEMMA TtlIs ==
    ASSUME NEW row, NEW asked \in STRING, NEW default \in STRING, NEW ttl,
           ttl = ResolveCacheTtl(asked, default, row)
    PROVE  ttl \in STRING /\ (ttl = "1h" => row.ttl1h)
<1>1. QED
  BY StringsAssumption DEF ResolveCacheTtl

LEMMA ResponsesBuilt ==
    ASSUME NEW sent \in Seq(InputItems), NEW row, NEW o, o.tools \in Seq(DeclaredTools),
           NEW setting, NEW ttl \in STRING,
           ttl = ResolveCacheTtl(o.ttl, setting.ttl, row)
    PROVE  LET framed == Full("responses", FramedOf("responses", sent), row)
               built  == ResponsesToolConfig(o.tools, o.choice)
               tools  == IF built = NoConfig THEN SynthesizeToolConfig(framed).tools ELSE built.tools
               on     == ~o.strip /\ setting.caching
           IN  Built(ResponsesAssemble(sent, row, o, setting), framed, "responses",
                     PushSystemBlocks(sent), tools, row, [system |-> on, messages |-> on], ttl)
<1> DEFINE turns  == AppendContinuation(ReframeTurns(ParseInputItems(sent)), row)
           framed == Full("responses", FramedOf("responses", sent), row)
           system == PushSystemBlocks(sent)
           built  == ResponsesToolConfig(o.tools, o.choice)
           inf    == ResponsesInference(row, o)
           synth  == SynthesizeToolConfig(turns)
           config == IF built = NoConfig THEN synth ELSE built
           on     == ~o.strip /\ setting.caching
           plain  == [messages |-> turns, system |-> system, config |-> config,
                      inference |-> inf]
           scopes == [system |-> on, messages |-> on]
           final  == DecorateZones(plain, row, scopes, ttl)
           used   == Zones(system, config.tools, row, scopes, ttl)
<1>1. ResponsesAssemble(sent, row, o, setting) = final
  BY DEF ResponsesAssemble
<1>2. turns = framed
  BY DEF ReframeTurns, Full, FramedOf, TurnsIn
<1>3. config = [tools |-> config.tools, choice |-> config.choice]
  <2>1. built = [tools |-> built.tools, choice |-> built.choice]
    BY DEF ResponsesToolConfig, NoConfig, ToolConfig
  <2>2. synth = [tools |-> synth.tools, choice |-> synth.choice]
    BY DEF SynthesizeToolConfig, ToolConfig
  <2> HIDE DEF built, synth
  <2>3. QED
    BY <2>1, <2>2
<1>4. framed \in Seq(AllTurns)
  BY FullKeeps, FramedType DEF Sent
<1>5. /\ final.system = DecorateSystemBlocks(system, row, scopes.system, ttl)
      /\ final.config.tools = DecorateTools(config.tools, row, scopes.system, 0, ttl)
      /\ final.messages = DecorateMessages(turns, row, scopes.messages, used, ttl)
  <2> HIDE DEF turns, system, config, inf, scopes
  <2>1. QED
    BY <1>3, ZonesDecorated
<1> HIDE DEF turns, final, config, system, scopes, used, framed
<1>6. PICK mark \in Nat : /\ Decorated(final.messages, framed, mark, ttl)
                          /\ mark # 0 => row.caching /\ scopes.messages /\ used < row.ceiling
  BY <1>2, <1>4, <1>5, MarkedTurns
<1>7. QED
  BY <1>1, <1>2, <1>4, <1>5, <1>6, PlainTurns DEF system, scopes, framed, config, Built, used

\* System messages hold what is spoken.
LEMMA SpokenSystem ==
    ASSUME NEW n \in Nat, NEW f, \A k \in 1 .. n : f[k] \in Seq(Spoken),
           NEW g, g = [k \in 1 .. n |-> f[k]]
    PROVE  Among(FlattenSeq(g), Spoken \ {Blank}) \in Seq(Spoken)
<1> DEFINE V == Seq(Spoken)
<1> HIDE DEF V
<1>1. g \in Seq(V)
  BY DEF V
<1>2. QED
  BY <1>1, AmongType, FlattenType DEF V

LEMMA ChatSystem ==
    ASSUME NEW sent \in Seq(ChatMessages)
    PROVE  ParseSystemPrompts(sent) \in Seq(Spoken)
<1> DEFINE f == [k \in DOMAIN sent |-> IF sent[k].role = "system" THEN sent[k].parts ELSE <<>>]
<1>1. DOMAIN sent = 1 .. Len(sent) /\ Len(sent) \in Nat /\ \A k \in DOMAIN sent : sent[k] \in ChatMessages
  OBVIOUS
<1>2. \A k \in DOMAIN sent : f[k] \in Seq(Spoken)
  <2>1. TAKE k \in DOMAIN sent
  <2>2. QED
    BY <1>1, ChatMessageKinds, EmptySeq
<1>3. ParseSystemPrompts(sent) = Among(FlattenSeq(f), Spoken \ {Blank})
  BY DEF ParseSystemPrompts, ParseContentParts
<1>4. f = [k \in 1 .. Len(sent) |-> f[k]]
  BY <1>1
<1> HIDE DEF f
<1>5. QED
  BY <1>1, <1>2, <1>3, <1>4, SpokenSystem

LEMMA ResponsesSystem ==
    ASSUME NEW sent \in Seq(InputItems)
    PROVE  PushSystemBlocks(sent) \in Seq(Spoken)
<1> DEFINE f == [k \in DOMAIN sent |-> IF IsSystem(sent[k]) THEN sent[k].parts ELSE <<>>]
<1>1. DOMAIN sent = 1 .. Len(sent) /\ Len(sent) \in Nat /\ \A k \in DOMAIN sent : sent[k] \in InputItems
  OBVIOUS
<1>2. \A k \in DOMAIN sent : f[k] \in Seq(Spoken)
  <2>1. TAKE k \in DOMAIN sent
  <2>2. QED
    BY <1>1, InputItemKinds, EmptySeq DEF IsSystem
<1>3. PushSystemBlocks(sent) = Among(FlattenSeq(f), Spoken \ {Blank})
  BY DEF PushSystemBlocks, ParseMessageContent
<1>4. f = [k \in 1 .. Len(sent) |-> f[k]]
  BY <1>1
<1> HIDE DEF f
<1>5. QED
  BY <1>1, <1>2, <1>3, <1>4, SpokenSystem

\* What a built request holds of cache points.
Budgeted(req, row, strip) ==
    LET tools    == Points(req.config.tools)
        system   == Points(req.system)
        messages == Points(AllBlocks(req.messages))
        all      == tools \o system \o messages
    IN  /\ \A zone \in {tools, system, messages} : Len(zone) <= 1
        /\ Len(tools) <= row.ceiling
        /\ messages # <<>> => Len(all) <= row.ceiling
        /\ \A p, q \in DOMAIN all : all[p] = all[q]
        /\ CachePoint("1h") \in ToSet(all) => row.ttl1h
        /\ all # <<>> => row.caching /\ ~strip

LEMMA ZonePoints ==
    ASSUME NEW c \in Seq(Blocks), ~ Carries(c, "cachePoint"), NEW ttl \in STRING, NEW on,
           NEW d, d = c \/ (on /\ d = Append(c, CachePoint(ttl)))
    PROVE  Points(d) = <<>> \/ (on /\ Points(d) = <<CachePoint(ttl)>>)
  BY PointsBehind

\* Three sequences of at most one point, and all of them.
Few(p, a, b, c, all) ==
    /\ Len(a) \in {0, 1} /\ Len(b) \in {0, 1} /\ Len(c) \in {0, 1}
    /\ (a = <<>> <=> Len(a) = 0) /\ (b = <<>> <=> Len(b) = 0) /\ (c = <<>> <=> Len(c) = 0)
    /\ Len(all) = Len(a) + Len(b) + Len(c) /\ Len(a \o c) = Len(a) + Len(c)
    /\ all \in Seq({p})

LEMMA AtMostOne ==
    ASSUME NEW p, NEW a \in {<<>>, <<p>>}, NEW b \in {<<>>, <<p>>}, NEW c \in {<<>>, <<p>>}
    PROVE  Few(p, a, b, c, a \o b \o c)
<1>1. a \in Seq({p}) /\ b \in Seq({p}) /\ c \in Seq({p})
  BY EmptySeq, OneSeq
<1>2. a \o b \in Seq({p}) /\ Len(a \o b) = Len(a) + Len(b)
  BY <1>1, ConcatProperties
<1>3. Len(a \o c) = Len(a) + Len(c)
  BY <1>1, ConcatProperties
<1>4. QED
  BY <1>1, <1>2, <1>3, ConcatProperties DEF Few

LEMMA FewBudget ==
    ASSUME NEW x \in {0, 1}, NEW y \in {0, 1}, NEW z \in {0, 1}, NEW n \in Nat,
           x # 0 => 0 < n, z # 0 => x + y < n
    PROVE  /\ x <= 1 /\ y <= 1 /\ z <= 1
           /\ x <= n /\ (z # 0 => x + y + z <= n)
  OBVIOUS

LEMMA BuiltBudget ==
    ASSUME NEW req, NEW framed \in Seq(AllTurns), NEW side \in {"chat", "responses"},
           NEW system \in Seq(Spoken), NEW tools \in Seq(BlocksOf({"tool"})),
           NEW row, row.ceiling \in Nat, NEW scopes, NEW ttl \in STRING, NEW strip,
           Built(req, framed, side, system, tools, row, scopes, ttl),
           ttl = "1h" => row.ttl1h, scopes.system => ~strip, scopes.messages => ~strip
    PROVE  Budgeted(req, row, strip)
<1> DEFINE p == CachePoint(ttl)
           marked == DecorateTools(tools, row, scopes.system, 0, ttl)
           sys == DecorateSystemBlocks(system, row, scopes.system, ttl)
           a == Points(req.config.tools)
           b == Points(req.system)
           c == Points(AllBlocks(req.messages))
           all == a \o b \o c
<1>1. tools \in Seq(Blocks) /\ ~ Carries(tools, "cachePoint")
  <2>1. \A x \in BlocksOf({"tool"}) : x.kind # "cachePoint"
    BY BlockKind
  <2>2. BlocksOf({"tool"}) \subseteq Blocks
    BY KindOf DEF BlocksOf, Blocks, Kinds
  <2>3. QED
    BY <2>1, <2>2, IdsNone
<1>2. system \in Seq(Blocks) /\ ~ Carries(system, "cachePoint")
  <2>1. \A x \in Spoken : x.kind # "cachePoint"
    BY DEF Spoken, BlocksOf
  <2>2. QED
    BY <2>1, IdsNone, SomeBlocks
<1>3. Points(marked) = <<>> \/ (scopes.system /\ row.caching /\ 0 < row.ceiling /\ Points(marked) = <<p>>)
  BY <1>1, ZonePoints DEF DecorateTools
<1>4. b = Points(sys)
  BY DEF Built
<1>5. Points(sys) = <<>> \/ (scopes.system /\ row.caching /\ Points(sys) = <<p>>)
  BY <1>2, ZonePoints DEF DecorateSystemBlocks
<1>6. a = Points(marked)
  <2>1. CASE req.config.tools = marked
    BY <2>1
  <2>2. CASE tools = <<>> /\ req.config.tools = <<Tool(<<"_placeholder">>)>>
    <3>1. Points(<<Tool(<<"_placeholder">>)>>) = <<>>
      <4> DEFINE t == Tool(<<"_placeholder">>)
      <4>1. t.kind = "tool"
        BY DEF Tool, Block
      <4> HIDE DEF t
      <4>2. t \notin BlocksOf({"cachePoint"})
        BY <4>1, BlockKind
      <4>3. <<t>> \in Seq({t})
        BY OneSeq
      <4>4. \A k \in DOMAIN <<t>> : <<t>>[k] \notin BlocksOf({"cachePoint"})
        BY <4>2
      <4>5. QED
        BY <4>3, <4>4, AmongNone DEF Points, Of, t
    <3>2. QED
      BY <2>2, <3>1, AmongEmpty DEF DecorateTools, Points, Of
  <2>3. QED
    BY <2>1, <2>2 DEF Built
<1>7. PICK mark \in Nat : /\ Final(req.messages, framed, side, mark, ttl)
                          /\ mark # 0 => /\ row.caching /\ scopes.messages
                                         /\ Zones(system, tools, row, scopes, ttl) < row.ceiling
  BY DEF Built
<1>8. c = IF mark # 0 THEN <<p>> ELSE <<>>
  BY <1>7, FinalPoints
<1>9. Zones(system, tools, row, scopes, ttl) = Len(a) + Len(b)
  BY <1>4, <1>6 DEF Zones, CountCachePoints, Points
<1> HIDE DEF a, b, c, all, marked, sys, p
<1>10. Few(p, a, b, c, all)
  BY <1>3, <1>4, <1>5, <1>6, <1>8, AtMostOne DEF all
<1>11. a # <<>> => scopes.system /\ row.caching /\ 0 < row.ceiling
  BY <1>3, <1>6
<1>12. b # <<>> => scopes.system /\ row.caching
  BY <1>4, <1>5
<1>13. c # <<>> => row.caching /\ scopes.messages /\ Len(a) + Len(b) < row.ceiling
  BY <1>7, <1>8, <1>9
<1>14. /\ Len(a) <= 1 /\ Len(b) <= 1 /\ Len(c) <= 1
       /\ Len(a) <= row.ceiling
       /\ Len(c) # 0 => Len(a) + Len(b) + Len(c) <= row.ceiling
  BY <1>10, <1>11, <1>13, FewBudget DEF Few
<1>15. \A x \in DOMAIN all : all[x] = p
  BY <1>10 DEF Few
<1>16. CachePoint("1h") \in ToSet(all) => row.ttl1h
  <2>1. SUFFICES ASSUME CachePoint("1h") \in ToSet(all) PROVE row.ttl1h
    OBVIOUS
  <2>2. QED
    BY <1>15, <2>1 DEF CachePoint, Block, ToSet, p
<1>17. all # <<>> => row.caching /\ ~strip
  BY <1>10, <1>11, <1>12, <1>13 DEF Few
<1>18. QED
  BY <1>10, <1>14, <1>15, <1>16, <1>17 DEF Budgeted, a, b, c, all, Few

(***************************************************************************)
(* What the client is given.                                               *)
(***************************************************************************)
LEMMA SeqWithin ==
    ASSUME NEW A, NEW B, A \subseteq B
    PROVE  Seq(A) \subseteq Seq(B)
  OBVIOUS

LEMMA OfType ==
    ASSUME NEW T, NEW content \in Seq(T), NEW kind
    PROVE  /\ Of(content, kind) \in Seq(BlocksOf({kind})) /\ Of(content, kind) \in Seq(T)
           /\ Len(Of(content, kind)) \in Nat /\ DOMAIN Of(content, kind) = 1 .. Len(Of(content, kind))
<1> DEFINE r == Of(content, kind)
           B == BlocksOf({kind})
<1>1. r \in Seq(T \cap B) /\ r \in Seq(T)
  BY AmongType DEF Of
<1> HIDE DEF r, B
<1>2. Seq(T \cap B) \subseteq Seq(B)
  BY SeqWithin
<1>3. r \in Seq(B)
  BY <1>1, <1>2
<1>4. QED
  BY <1>1, <1>3 DEF r, B

LEMMA SealedType ==
    ASSUME NEW T, NEW content \in Seq(T)
    PROVE  SealedOf(content) \in Seq(BlocksOf({"reasoning"}))
<1> DEFINE S == {b \in BlocksOf({"reasoning"}) : b.tag # <<"unsigned">>}
           r == Among(content, S)
<1>1. r \in Seq(T \cap S)
  BY AmongType
<1>2. S \subseteq BlocksOf({"reasoning"})
  OBVIOUS
<1> HIDE DEF S
<1>3. QED
  BY <1>1, <1>2 DEF SealedOf, S

LEMMA ShownType ==
    ASSUME NEW reasoning \in Seq(BlocksOf({"reasoning"}))
    PROVE  Shown(reasoning) \in Seq(Int)
<1> DEFINE told == Among(reasoning, {b \in BlocksOf({"reasoning"}) : b.tag # <<"redacted">>})
<1>1. told \in Seq(BlocksOf({"reasoning"}))
  BY AmongType
<1>2. Shown(reasoning) = [i \in DOMAIN told |-> told[i].of]
  BY DEF Shown
<1> HIDE DEF told
<1>3. DOMAIN told = 1 .. Len(told) /\ Len(told) \in Nat /\ \A i \in DOMAIN told : told[i] \in BlocksOf({"reasoning"})
  BY <1>1
<1>4. \A i \in DOMAIN told : told[i].of \in Int
  BY <1>3, BlockKind
<1>5. QED
  BY <1>2, <1>3, <1>4

WireHas(wire, id, kid, reasoning) ==
    wire \in Wires /\ wire.id = id /\ wire.kid = kid /\ wire.reasoning = reasoning

LEMMA WireFields ==
    ASSUME NEW id \in Int, NEW kid \in STRING, NEW reasoning \in Seq(BlocksOf({"reasoning"}))
    PROVE  WireHas(WireId(id, kid, reasoning), id, kid, reasoning)
<1> DEFINE W == Seq(BlocksOf({"reasoning"}))
<1>1. reasoning \in W
  OBVIOUS
<1> HIDE DEF W
<1>2. QED
  BY <1>1 DEF WireId, WireHas, Wires

\* The id under which a call goes out.
WireOf(content, ring, id) ==
    IF ring.encoder /\ SealedOf(content) # <<>> THEN EncodeCapsule(id, SealedOf(content), ring)
    ELSE Raw(id)

LEMMA WireIs ==
    ASSUME NEW content \in Seq(Answered), NEW ring \in Keyrings, NEW id \in Int
    PROVE  LET wire == WireOf(content, ring, id)
           IN  /\ wire \in Wires /\ wire.id = id
               /\ IsCapsule(wire) => wire.reasoning = SealedOf(content)
               /\ ring.encoder /\ SealedOf(content) # <<>> => IsCapsule(wire)
<1> DEFINE wire == WireOf(content, ring, id)
           s == SealedOf(content)
<1>1. s \in Seq(BlocksOf({"reasoning"}))
  BY SealedType
<1>2. ring.active \in STRING /\ ring.active # None
  BY KeyringsAssumption
<1>3. wire = IF ring.encoder /\ s # <<>> THEN WireId(id, ring.active, s) ELSE WireId(id, None, <<>>)
  BY DEF WireOf, EncodeCapsule, Raw
<1> HIDE DEF wire, s
<1>4. WireHas(WireId(id, None, <<>>), id, None, <<>>)
  BY WireFields, StringsAssumption, EmptySeq
<1>5. IsCapsule(wire) <=> wire.kid # None
  BY DEF IsCapsule
<1>6. CASE ring.encoder /\ s # <<>>
  <2>1. WireHas(wire, id, ring.active, s)
    BY <1>1, <1>2, <1>3, <1>6, WireFields
  <2>2. QED
    BY <1>2, <1>5, <2>1 DEF WireHas, wire, s
<1>7. CASE ~ (ring.encoder /\ s # <<>>)
  BY <1>3, <1>4, <1>5, <1>7 DEF WireHas, wire, s
<1>8. QED
  BY <1>6, <1>7

LEMMA ChatMember ==
    ASSUME NEW think \in Seq(Int), NEW parts \in Seq(BlocksOf({"text"})), NEW calls \in Seq(ChatCalls)
    PROVE  [role |-> "assistant", think |-> think, parts |-> parts, calls |-> calls] \in ChatMessages
<1> DEFINE B == Seq(Int)
           C == Seq(BlocksOf({"text"}))
           D == Seq(ChatCalls)
           M == [role : {"assistant"}, think : B, parts : C, calls : D]
<1>1. M \subseteq ChatMessages
  BY DEF ChatMessages
<1>2. think \in B /\ parts \in C /\ calls \in D
  OBVIOUS
<1> HIDE DEF B, C, D
<1>3. QED
  BY <1>1, <1>2

\* The message that renders an answer: what is in it, and the calls.
ChatAnswered(message, content, ring) ==
    /\ message \in ChatMessages
    /\ message.role = "assistant"
    /\ message.think \in Seq(Int) /\ message.parts \in Seq(BlocksOf({"text"}))
    /\ message.calls \in Seq(ChatCalls)
    /\ LET texts == Of(content, "text")
       IN  message.parts = IF texts = <<>> THEN <<>> ELSE <<Last(texts)>>
    /\ LET uses == Of(content, "toolUse")
       IN  /\ DOMAIN message.calls = DOMAIN uses
           /\ \A i \in DOMAIN uses :
                 /\ message.calls[i].wire = WireOf(content, ring, uses[i].of)
                 /\ message.calls[i].name = uses[i].tag
    /\ message.think = <<>> \/ message.think = Shown(Of(content, "reasoning"))

LEMMA ChatAnswer ==
    ASSUME NEW content \in Seq(Answered), NEW ring \in Keyrings, NEW keep,
           NEW message,
           message = IF keep THEN ChatResponse(content, ring)
                     ELSE [ChatResponse(content, ring) EXCEPT !.think = <<>>]
    PROVE  ChatAnswered(message, content, ring)
<1> DEFINE uses  == Of(content, "toolUse")
           texts == Of(content, "text")
           shown == Shown(Of(content, "reasoning"))
           parts == IF texts = <<>> THEN <<>> ELSE <<Last(texts)>>
           calls == [i \in DOMAIN uses |->
                       [wire |-> WireOf(content, ring, uses[i].of), name |-> uses[i].tag]]
           think == IF keep THEN shown ELSE <<>>
<1>1. ChatResponse(content, ring)
         = [role |-> "assistant", think |-> shown, parts |-> parts, calls |-> calls]
  BY DEF ChatResponse, WireOf
<1>2. uses \in Seq(BlocksOf({"toolUse"})) /\ DOMAIN uses = 1 .. Len(uses) /\ Len(uses) \in Nat
  BY OfType
<1>3. texts \in Seq(BlocksOf({"text"}))
  BY OfType
<1>4. shown \in Seq(Int) /\ think \in Seq(Int)
  BY OfType, ShownType, EmptySeq
<1>5. parts \in Seq(BlocksOf({"text"}))
  <2> HIDE DEF texts
  <2>1. <<>> \in Seq(BlocksOf({"text"}))
    BY EmptySeq
  <2>2. texts # <<>> => Last(texts) \in BlocksOf({"text"})
    BY <1>3 DEF Last
  <2>3. QED
    BY <2>1, <2>2, OneSeq
<1>6. calls \in Seq(ChatCalls)
  <2> HIDE DEF uses
  <2>1. \A i \in DOMAIN uses : uses[i] \in BlocksOf({"toolUse"})
    BY <1>2
  <2> DEFINE V == Seq(STRING)
  <2>2. ChatCalls = [wire : Wires, name : V]
    BY DEF ChatCalls
  <2>3. \A i \in DOMAIN uses : WireOf(content, ring, uses[i].of) \in Wires /\ uses[i].tag \in V
    BY <2>1, BlockKind, WireIs
  <2> HIDE DEF V
  <2>4. QED
    BY <1>2, <2>2, <2>3
<1>7. DOMAIN calls = DOMAIN uses /\ \A i \in DOMAIN uses :
         calls[i].wire = WireOf(content, ring, uses[i].of) /\ calls[i].name = uses[i].tag
  OBVIOUS
<1> HIDE DEF calls, shown, parts, think
<1>8. message = [role |-> "assistant", think |-> think, parts |-> parts, calls |-> calls]
  BY <1>1 DEF think
<1>9. message \in ChatMessages
  BY <1>4, <1>5, <1>6, <1>8, ChatMember
<1>10. /\ message.role = "assistant" /\ message.think = think
       /\ message.parts = parts /\ message.calls = calls
  BY <1>8
<1>11. think = <<>> \/ think = shown
  BY DEF think
<1>12. QED
  BY <1>4, <1>5, <1>6, <1>7, <1>9, <1>10, <1>11 DEF ChatAnswered, parts, shown

(***************************************************************************)
(* The items that render an answer: the reasoning, the text, the calls.    *)
(***************************************************************************)
ThoughtItems(content) ==
    IF Of(content, "reasoning") = <<>> THEN <<>>
    ELSE <<[type |-> "reasoning", blocks |-> SealedOf(content)]>>

SaidItems(content) ==
    IF Of(content, "text") = <<>> /\ Of(content, "toolUse") # <<>> THEN <<>>
    ELSE <<[type |-> "message", role |-> "assistant",
            parts |-> OutputText(Of(content, "text"))]>>

CallItems(content, tools) ==
    [i \in DOMAIN Of(content, "toolUse") |-> ToolOutputItem(tools, Of(content, "toolUse")[i])]

Calls == {item \in InputItems : item.type = "call"}

LEMMA ThoughtType ==
    ASSUME NEW content \in Seq(Answered)
    PROVE  /\ ThoughtItems(content) \in Seq(InputItems)
           /\ ThoughtItems(content) # <<>> =>
                 \E item \in InputItems : /\ ThoughtItems(content) = <<item>>
                                          /\ item.type = "reasoning" /\ item.blocks = SealedOf(content)
<1> DEFINE W == Seq(BlocksOf({"reasoning"}))
           s == SealedOf(content)
           item == [type |-> "reasoning", blocks |-> s]
<1>1. s \in W
  BY SealedType
<1>2. [type : {"reasoning"}, blocks : W] \subseteq InputItems
  BY DEF InputItems
<1> HIDE DEF W, s
<1>3. item \in InputItems /\ item.type = "reasoning" /\ item.blocks = s
  BY <1>1, <1>2
<1> HIDE DEF item
<1>4. QED
  BY <1>3, OneSeq, EmptySeq DEF s, ThoughtItems, item

\* Texts are said as they are.
LEMMA TextsParsed ==
    ASSUME NEW texts \in Seq(BlocksOf({"text"}))
    PROVE  Among(texts, Spoken \ {Blank}) = texts
<1> DEFINE B == BlocksOf({"text"})
           S == Spoken \ {Blank}
<1>1. B \subseteq S
  <2>1. SUFFICES ASSUME NEW b \in B PROVE b \in Spoken /\ b # Blank
    OBVIOUS
  <2>2. b \in Spoken
    BY KindOf DEF BlocksOf, Spoken
  <2>3. b.kind = "text"
    BY BlockKind
  <2>4. QED
    BY <2>2, <2>3 DEF Blank, Block
<1> HIDE DEF B, S
<1>2. QED
  BY <1>1, AmongAll DEF S, B


\* The texts of an answer are given as one, and parsed back as it.
LEMMA TextGiven ==
    ASSUME NEW texts \in Seq(BlocksOf({"text"}))
    PROVE  /\ OneText(texts) \in Seq(BlocksOf({"text"}))
           /\ OutputText(texts) \in Seq(OutputTexts)
           /\ Among(OutputText(texts), Spoken \ {Blank}) = OneText(texts)
           /\ OneText(texts) = <<>> <=> texts = <<>>
<1> DEFINE B == BlocksOf({"text"})
           j == Block("text", Head(texts).of, <<"joined">>)
<1>1. OneText(texts) \in Seq(B) /\ (OneText(texts) = <<>> <=> texts = <<>>)
  <2>1. CASE Len(texts) <= 1
    BY <2>1 DEF OneText
  <2>2. CASE ~ (Len(texts) <= 1)
    <3>1. Head(texts) \in B
      <4> HIDE DEF B
      <4>1. QED
        BY <2>2 DEF B
    <3>2. <<"joined">> \in Seq(STRING)
      BY StringsAssumption
    <3>3. j \in B
      BY <3>1, <3>2, BlockKind, BlockFields
    <3> HIDE DEF j, B
    <3>4. OneText(texts) = <<j>> /\ texts # <<>>
      BY <2>2 DEF OneText, j
    <3>5. QED
      BY <3>3, <3>4, OneSeq
  <2>3. QED
    BY <2>1, <2>2
<1>2. CASE texts = <<>>
  <2>1. OutputText(texts) = <<Blank>> /\ Blank \in OutputTexts
    BY <1>2 DEF OutputText, OutputTexts
  <2>2. Among(<<Blank>>, Spoken \ {Blank}) = <<>>
    <3> DEFINE S == Spoken \ {Blank}
               T == {Blank}
    <3>1. <<Blank>> \in Seq(T) /\ \A k \in DOMAIN <<Blank>> : <<Blank>>[k] \notin S
      BY OneSeq
    <3> HIDE DEF S, T
    <3>2. QED
      BY <3>1, AmongNone DEF S
  <2>3. QED
    BY <1>1, <1>2, <2>1, <2>2, OneSeq
<1>3. CASE texts # <<>>
  <2>1. OutputText(texts) = OneText(texts)
    BY <1>3 DEF OutputText
  <2>2. Seq(B) \subseteq Seq(OutputTexts)
    <3>1. B \subseteq OutputTexts
      BY DEF OutputTexts
    <3> HIDE DEF B
    <3>2. QED
      BY <3>1
  <2>3. QED
    BY <1>1, <2>1, <2>2, TextsParsed
<1>4. QED
  BY <1>1, <1>2, <1>3

LEMMA SaidType ==
    ASSUME NEW content \in Seq(Answered)
    PROVE  /\ SaidItems(content) \in Seq(InputItems)
           /\ SaidItems(content) # <<>> =>
                 \E item \in InputItems : /\ SaidItems(content) = <<item>>
                                          /\ item.type = "message" /\ item.role = "assistant"
                                          /\ item.parts = OutputText(Of(content, "text"))
<1> DEFINE W == Seq(OutputTexts)
           x == Of(content, "text")
           s == OutputText(x)
           u == Of(content, "toolUse")
           item == [type |-> "message", role |-> "assistant", parts |-> s]
<1>1. s \in W
  <2> HIDE DEF W, x, s
  <2>1. QED
    BY OfType, TextGiven DEF W, x, s
<1>2. [type : {"message"}, role : {"assistant"}, parts : W] \subseteq InputItems
  BY DEF InputItems
<1>3. SaidItems(content) = IF x = <<>> /\ u # <<>> THEN <<>> ELSE <<item>>
  BY DEF SaidItems
<1> HIDE DEF W, x, s, u
<1>4. item \in InputItems /\ item.type = "message" /\ item.role = "assistant" /\ item.parts = s
  BY <1>1, <1>2
<1> HIDE DEF item
<1>5. QED
  BY <1>3, <1>4, OneSeq, EmptySeq DEF s, x

\* What comes of one call: an item for it that Bedrock's name can be made from,
\* if the tool has no namespace or is a plain function.
CallItem(item, tools, block) ==
    /\ item \in InputItems /\ item.type = "call" /\ item.id = block.of
    /\ \/ Joined(item.ns, item.name) = block.tag
       \/ \E i \in DOMAIN tools : /\ tools[i].kind # "function" /\ tools[i].ns # None
                                  /\ BedrockName(tools[i]) = block.tag

LEMMA CallOf ==
    ASSUME NEW kind \in STRING, NEW id \in Int, NEW ns \in STRING, NEW name \in Seq(STRING)
    PROVE  [type |-> "call", kind |-> kind, id |-> id, ns |-> ns, name |-> name] \in InputItems
<1> DEFINE V == Seq(STRING)
<1> HIDE DEF V
<1>1. QED
  BY DEF InputItems

LEMMA BoundTools ==
    ASSUME NEW tools \in Seq(DeclaredTools), NEW name, NEW bound, bound = Bindings(tools, name)
    PROVE  bound # <<>> => \E i \in DOMAIN tools : /\ Head(bound) = tools[i]
                                                   /\ tools[i] \in DeclaredTools
                                                   /\ BedrockName(tools[i]) = name
<1> DEFINE S == {t \in ToSet(tools) : BedrockName(t) = name}
           R == {t \in ToSet(tools) : t.kind # "hosted"}
           built == Among(tools, R)
<1>1. built \in Seq(DeclaredTools)
  BY AmongType
<1>2. bound \in Seq(DeclaredTools \cap S)
  <2>1. bound = Among(built, S)
    BY DEF Bindings, BuildResponsesTools
  <2> HIDE DEF S, built
  <2>2. QED
    BY <1>1, <2>1, AmongType
<1> HIDE DEF S, built
<1>3. SUFFICES ASSUME bound # <<>>
               PROVE  \E i \in DOMAIN tools : /\ Head(bound) = tools[i]
                                              /\ tools[i] \in DeclaredTools
                                              /\ BedrockName(tools[i]) = name
  OBVIOUS
<1>4. QED
  BY <1>2, <1>3 DEF ToSet, S

LEMMA CallItemIs ==
    ASSUME NEW tools \in Seq(DeclaredTools), NEW block \in BlocksOf({"toolUse"})
    PROVE  CallItem(ToolOutputItem(tools, block), tools, block)
<1> DEFINE bound == Bindings(tools, block.tag)
           Call(kind, ns, name) ==
               [type |-> "call", kind |-> kind, id |-> block.of, ns |-> ns, name |-> name]
<1>1. block.of \in Int /\ block.tag \in Seq(STRING)
  BY BlockKind
<1>2. None \in STRING /\ "function" \in STRING
  BY StringsAssumption
<1>3. ToolOutputItem(tools, block) =
         IF bound = <<>> THEN Call("function", None, block.tag)
         ELSE IF Head(bound).kind = "function" THEN Call("function", Head(bound).ns, Head(bound).name)
         ELSE Call(Head(bound).kind, None, Head(bound).name)
  BY DEF ToolOutputItem
<1>4. ASSUME NEW kind, NEW ns, NEW name
      PROVE  /\ Call(kind, ns, name).type = "call" /\ Call(kind, ns, name).id = block.of
             /\ Call(kind, ns, name).ns = ns /\ Call(kind, ns, name).name = name
  OBVIOUS
<1>5. ASSUME NEW kind \in STRING, NEW ns \in STRING, NEW name \in Seq(STRING)
      PROVE  Call(kind, ns, name) \in InputItems
  BY <1>1, CallOf
<1> HIDE DEF Call
<1>6. CASE bound = <<>>
  BY <1>1, <1>2, <1>3, <1>4, <1>5, <1>6 DEF CallItem, Joined
<1>7. CASE bound # <<>>
  <2>1. PICK i \in DOMAIN tools : /\ Head(bound) = tools[i]
                                  /\ tools[i] \in DeclaredTools
                                  /\ BedrockName(tools[i]) = block.tag
    BY <1>7, BoundTools
  <2> DEFINE tool == tools[i]
  <2>2. tool.name \in Seq(STRING) /\ tool.ns \in STRING /\ tool.kind \in STRING
    BY <2>1, DeclaredFields
  <2>3. Joined(tool.ns, tool.name) = block.tag
    BY <2>1 DEF BedrockName
  <2>4. CASE tool.kind = "function"
    <3>1. Call("function", tool.ns, tool.name) \in InputItems
      BY <1>2, <1>5, <2>2
    <3>2. QED
      BY <1>3, <1>4, <1>7, <2>1, <2>3, <2>4, <3>1 DEF CallItem
  <2>5. CASE tool.kind # "function"
    <3>1. Call(tool.kind, None, tool.name) \in InputItems
      BY <1>2, <1>5, <2>2
    <3>2. QED
      BY <1>3, <1>4, <1>7, <2>1, <2>3, <2>5, <3>1 DEF CallItem
  <2>6. QED
    BY <2>4, <2>5
<1>8. QED
  BY <1>6, <1>7

LEMMA CallsType ==
    ASSUME NEW content \in Seq(Answered), NEW tools \in Seq(DeclaredTools)
    PROVE  LET c == CallItems(content, tools)
               u == Of(content, "toolUse")
           IN  /\ c \in Seq(Calls) /\ DOMAIN c = DOMAIN u /\ Len(c) = Len(u)
               /\ \A i \in DOMAIN u : CallItem(c[i], tools, u[i])
<1> DEFINE u == Of(content, "toolUse")
           c == CallItems(content, tools)
<1>1. u \in Seq(BlocksOf({"toolUse"})) /\ DOMAIN u = 1 .. Len(u) /\ Len(u) \in Nat
  BY OfType
<1>2. c = [i \in DOMAIN u |-> ToolOutputItem(tools, u[i])]
  BY DEF CallItems
<1> HIDE DEF u, c
<1>3. DOMAIN c = DOMAIN u /\ \A i \in DOMAIN u : c[i] = ToolOutputItem(tools, u[i])
  BY <1>2
<1>4. \A i \in DOMAIN u : CallItem(c[i], tools, u[i])
  BY <1>1, <1>3, CallItemIs
<1>5. c \in Seq(Calls) /\ Len(c) = Len(u)
  BY <1>1, <1>2, <1>3, <1>4 DEF CallItem, Calls
<1>6. QED
  BY <1>3, <1>4, <1>5 DEF u, c

LEMMA ItemsGiven ==
    ASSUME NEW content \in Seq(Answered), NEW tools \in Seq(DeclaredTools), NEW rendered,
           rendered = ResponsesOutput(content, tools)
    PROVE  /\ rendered = ThoughtItems(content) \o SaidItems(content) \o CallItems(content, tools)
           /\ rendered \in Seq(InputItems) /\ CallItems(content, tools) \in Seq(InputItems)
           /\ Among(rendered, {it \in ToSet(rendered) : it.type = "call"}) = CallItems(content, tools)
<1> DEFINE t == ThoughtItems(content)
           s == SaidItems(content)
           c == CallItems(content, tools)
           S == {it \in ToSet(rendered) : it.type = "call"}
           T == InputItems
<1>1. rendered = t \o s \o c
  BY DEF ResponsesOutput, ThoughtItems, SaidItems, CallItems, EncodeReasoningEnvelope
<1>2. t \in Seq(T) /\ s \in Seq(T)
  BY ThoughtType, SaidType
<1>3. c \in Seq(Calls)
  BY CallsType
<1>4. \A k \in DOMAIN t : t[k].type # "call"
  <2>1. SUFFICES ASSUME NEW k \in DOMAIN t PROVE t[k].type # "call"
    OBVIOUS
  <2>2. t # <<>>
    <3> HIDE DEF t
    <3>1. QED
      BY <1>2, <2>1
  <2>3. PICK item \in InputItems : t = <<item>> /\ item.type = "reasoning"
    BY <2>2, ThoughtType
  <2> HIDE DEF t
  <2>4. QED
    BY <2>1, <2>3
<1>5. \A k \in DOMAIN s : s[k].type # "call"
  <2>1. SUFFICES ASSUME NEW k \in DOMAIN s PROVE s[k].type # "call"
    OBVIOUS
  <2>2. s # <<>>
    <3> HIDE DEF s
    <3>1. QED
      BY <1>2, <2>1
  <2>3. PICK item \in InputItems : s = <<item>> /\ item.type = "message"
    BY <2>2, SaidType
  <2> HIDE DEF s
  <2>4. QED
    BY <2>1, <2>3
<1> HIDE DEF t, s, c
<1>6. c \in Seq(T) /\ \A k \in DOMAIN c : c[k].type = "call"
  BY <1>3, SeqWithin DEF Calls
<1> HIDE DEF T
<1>7. t \o s \in Seq(T) /\ (t \o s) \o c \in Seq(T)
  BY <1>2, <1>6
<1>8. \A k \in DOMAIN (t \o s) : (t \o s)[k] \notin S
  <2>1. InARow(t \o s, t, s)
    BY <1>2, ConcatElements
  <2>2. QED
    BY <1>4, <1>5, <2>1 DEF InARow
<1>9. \A k \in DOMAIN c : c[k] \in S
  <2>1. InARow((t \o s) \o c, t \o s, c)
    BY <1>6, <1>7, ConcatElements
  <2>2. QED
    BY <1>1, <1>6, <2>1 DEF InARow, ToSet
<1> HIDE DEF S
<1>10. Among(rendered, S) = Among(t \o s, S) \o Among(c, S)
  <2> DEFINE ts == t \o s
  <2>1. ts \in Seq(T) /\ c \in Seq(T)
    BY <1>6, <1>7
  <2> HIDE DEF ts
  <2>2. Among(ts \o c, S) = Among(ts, S) \o Among(c, S)
    BY <2>1, AmongConcat
  <2>3. QED
    BY <1>1, <2>2 DEF ts
<1>11. Among(c, S) = c
  BY <1>6, <1>9, AmongAll
<1>12. <<>> \o c = c
  BY <1>6
<1>13. QED
  BY <1>1, <1>6, <1>7, <1>8, <1>10, <1>11, <1>12, AmongNone DEF S, T, t, s, c

(***************************************************************************)
(* What each side may add to the transcript has its type.                  *)
(***************************************************************************)
LEMMA RemoveType ==
    ASSUME NEW T, NEW s \in Seq(T), NEW i \in DOMAIN s
    PROVE  /\ RemoveAt(s, i) \in Seq(T)
           /\ Len(RemoveAt(s, i)) = Len(s) - 1
           /\ \A k \in 1 .. Len(s) - 1 : RemoveAt(s, i)[k] = IF k < i THEN s[k] ELSE s[k + 1]
<1> DEFINE a == SubSeq(s, 1, i - 1)
           b == SubSeq(s, i + 1, Len(s))
<1>1. Len(s) \in Nat /\ i \in 1 .. Len(s)
  OBVIOUS
<1>2. /\ a \in Seq(T) /\ Len(a) = i - 1
      /\ \A k \in 1 .. i - 1 : a[k] = s[k]
  BY <1>1
<1>3. /\ b \in Seq(T) /\ Len(b) = Len(s) - i
      /\ \A k \in 1 .. Len(s) - i : b[k] = s[k + i]
  BY <1>1
<1>4. RemoveAt(s, i) = a \o b
  BY DEF RemoveAt
<1> HIDE DEF a, b
<1>5. ASSUME NEW k \in 1 .. Len(s) - 1
      PROVE  (a \o b)[k] = IF k < i THEN s[k] ELSE s[k + 1]
  <2>1. CASE k < i
    BY <1>1, <1>2, <1>3, <2>1
  <2>2. CASE k >= i
    <3>1. (a \o b)[k] = b[k - (i - 1)]
      BY <1>1, <1>2, <1>3, <2>2, SMTT(30)
    <3>2. k - (i - 1) \in 1 .. Len(s) - i /\ (k - (i - 1)) + i = k + 1
      BY <1>1, <2>2
    <3>3. QED
      BY <1>1, <1>3, <2>2, <3>1, <3>2, SMTT(30)
  <2>3. k < i \/ k >= i
    BY <1>1
  <2>4. QED
    BY <1>1, <2>1, <2>2, <2>3
<1>6. QED
  BY <1>1, <1>2, <1>3, <1>4, <1>5

LEMMA SpokenMessage ==
    ASSUME NEW role \in {"system", "user"}, NEW parts \in Seq(Spoken)
    PROVE  /\ [role |-> role, parts |-> parts] \in ChatMessages
           /\ [type |-> "message", role |-> role, parts |-> parts] \in InputItems
<1> DEFINE V == Seq(Spoken)
<1> HIDE DEF V
<1>1. QED
  BY DEF ChatMessages, InputItems

LEMMA AmongMisses ==
    ASSUME NEW T, NEW s \in Seq(T), NEW S
    PROVE  Among(s, S) = <<>> => \A k \in DOMAIN s : s[k] \notin S
<1> DEFINE r == Among(s, S)
<1>1. /\ r \in Seq(T \cap S)
      /\ \A k \in DOMAIN s : s[k] \in S => \E i \in DOMAIN r : r[i] = s[k]
      /\ \A i \in DOMAIN r : \E k \in DOMAIN s : s[k] = r[i]
  BY AmongElements
<1> HIDE DEF r
<1>2. r = <<>> => DOMAIN r = {}
  OBVIOUS
<1>3. QED
  BY <1>1, <1>2 DEF r

LEMMA PartsType ==
    ASSUME NEW n \in Int, NEW parts \in Parts(n)
    PROVE  /\ parts \in Seq(Spoken)
           /\ Among(parts, Spoken \ {Blank}) = <<>> => parts = <<Blank>>
<1>1. Text(n) \in Spoken /\ Text(n) # Blank
  BY TextBlock
<1>2. Image \in Spoken /\ Blank \in Spoken
  <2>1. Image \in BlocksOf({"image"}) /\ Blank \in BlocksOf({"blank"})
    <3> DEFINE tag == <<>>
    <3>1. tag \in Seq(STRING)
      BY EmptySeq
    <3>2. Image = Block("image", 0, tag) /\ Blank = Block("blank", 0, tag)
      BY DEF Image, Blank
    <3> HIDE DEF tag
    <3>3. Block("blank", 0, tag) \in BlocksOf({"blank"})
      BY <3>1, BlockFields
    <3>4. QED
      BY <3>1, <3>2, <3>3, BlockFields
  <2>2. BlocksOf({"image"}) \subseteq Spoken /\ BlocksOf({"blank"}) \subseteq Spoken
    BY KindOf DEF BlocksOf, Spoken
  <2>3. QED
    BY <2>1, <2>2
<1> DEFINE t == Text(n)
<1>3. parts \in {<<t>>, <<Blank, t, Image>>, <<Blank>>}
  BY DEF Parts
<1> HIDE DEF t
<1>4. parts \in Seq(Spoken)
  <2>1. t \in Spoken
    BY <1>1 DEF t
  <2>2. <<t>> \in Seq(Spoken)
    BY <2>1, OneSeq
  <2> DEFINE S == Spoken
             I == Image
             B == Blank
  <2>3. t \in S /\ I \in S /\ B \in S
    BY <1>2, <2>1
  <2> HIDE DEF S, I, B
  <2>4. <<B, t, I>> \in Seq(S)
    BY <2>3
  <2>5. QED
    BY <1>2, <1>3, <2>2, <2>4, OneSeq DEF S, I, B
<1>5. parts = <<Blank>> \/ \E k \in DOMAIN parts : parts[k] \in Spoken \ {Blank}
  BY <1>1, <1>3 DEF t
<1>6. Among(parts, Spoken \ {Blank}) = <<>> => parts = <<Blank>>
  <2> DEFINE S == Spoken \ {Blank}
  <2> HIDE DEF S
  <2>1. QED
    BY <1>4, <1>5, AmongMisses DEF S
<1>7. QED
  BY <1>4, <1>6

Sides == {"chat", "responses"}
Callable(side) == IF side = "chat" THEN ChatCalls ELSE Calls

\* The types of what the client and the upstream write.
LEMMA OpeningType ==
    ASSUME surface \in Sides, NEW first \in BOOLEAN
    PROVE  Opening(first) = <<>> \/ \E e \in Sent(surface) : Opening(first) = <<e>>
<1> DEFINE p == <<Text(0)>>
<1>1. p \in Seq(Spoken)
  BY TextBlock, OneSeq
<1>2. Opening(first) = IF ~first THEN <<>>
                       ELSE IF surface = "chat" THEN <<[role |-> "system", parts |-> p]>>
                       ELSE <<[type |-> "message", role |-> "system", parts |-> p]>>
  BY DEF Opening
<1> HIDE DEF p
<1>3. QED
  BY <1>1, <1>2, SpokenMessage DEF Sent, Sides

LEMMA QuestionType ==
    ASSUME surface \in Sides, NEW n \in Int, NEW parts \in Parts(n)
    PROVE  Question(parts) \in Sent(surface)
<1>1. QED
  BY SpokenMessage, PartsType DEF Question, Sent, Sides

LEMMA AnswerType ==
    ASSUME surface \in Sides, NEW call \in Callable(surface)
    PROVE  /\ Answer(call) \in Sent(surface) /\ IdOf(call) \in Int
           /\ TurnsOf(surface, Answer(call)) = <<Turn("user", <<ToolResult(IdOf(call))>>)>>
<1>1. CASE surface = "chat"
  <2> DEFINE a == [role |-> "tool", wire |-> call.wire]
  <2>1. call.wire \in Wires /\ call.wire.id \in Int
    BY <1>1, CallFields DEF Callable
  <2>2. a \in ChatMessages /\ a.role = "tool" /\ a.wire = call.wire
    BY <2>1 DEF ChatMessages
  <2>3. Answer(call) = a /\ IdOf(call) = call.wire.id
    BY <1>1 DEF Answer, IdOf
  <2> HIDE DEF a
  <2>4. QED
    BY <1>1, <2>1, <2>2, <2>3, ChatTurns DEF Sent, TurnsOf
<1>2. CASE surface = "responses"
  <2> DEFINE a == [type |-> "output", id |-> call.id]
  <2>1. call.id \in Int
    BY <1>2, InputItemKinds DEF Callable, Calls
  <2>2. a \in InputItems /\ a.type = "output" /\ a.id = call.id
    BY <2>1 DEF InputItems
  <2>3. Answer(call) = a /\ IdOf(call) = call.id
    BY <1>2 DEF Answer, IdOf
  <2> HIDE DEF a
  <2>4. QED
    BY <1>2, <2>1, <2>2, <2>3, InputTurns DEF Sent, TurnsOf
<1>3. QED
  BY <1>1, <1>2 DEF Sides

\* What the upstream answers: the shape it has, with numbers of its own.
Fills(content, shape, base) ==
    /\ content \in Seq(Answered) /\ Len(content) = Len(shape) /\ DOMAIN content = DOMAIN shape
    /\ \A i \in DOMAIN shape : content[i].kind = shape[i].kind /\ content[i].of = base + i
    /\ \A i \in DOMAIN shape : shape[i].kind # "toolUse" => content[i].tag = shape[i].tag

LEMMA AnsweredFields ==
    ASSUME NEW kind, NEW of \in Int, NEW tag \in Seq(STRING)
    PROVE  /\ kind \in {"text", "reasoning", "toolUse"} => Block(kind, of, tag) \in Answered
           /\ Block(kind, of, tag).kind = kind /\ Block(kind, of, tag).of = of
           /\ Block(kind, of, tag).tag = tag
<1>1. QED
  BY AnsweredKinds, BlockFields DEF Block

LEMMA AnsweredBlock ==
    ASSUME NEW b \in Answered
    PROVE  /\ b.kind \in {"text", "reasoning", "toolUse"} /\ b.of \in Int /\ b.tag \in Seq(STRING)
           /\ \A x : [b EXCEPT !.of = x] = Block(b.kind, x, b.tag)
<1> DEFINE V == Seq(STRING)
<1>1. b \in [kind : {"text", "reasoning", "toolUse"}, of : Int, tag : V]
  BY DEF Answered, BlocksOf
<1> HIDE DEF V
<1>2. QED
  BY <1>1 DEF Block, V

LEMMA NameAt ==
    ASSUME NEW tools \in Seq(BlocksOf({"tool"})), tools # <<>>, NEW i \in Nat
    PROVE  tools[(i % Len(tools)) + 1].tag \in Seq(STRING)
<1>1. Len(tools) \in Nat \ {0}
  BY EmptySeq
<1>2. tools[(i % Len(tools)) + 1] \in BlocksOf({"tool"})
  BY <1>1
<1>3. QED
  BY <1>2, BlockKind

LEMMA GivenFills ==
    ASSUME request.config.tools \in Seq(BlocksOf({"tool", "cachePoint"})),
           Len(answers) \in Nat, NEW shape \in Seq(Answered), CanAnswer(shape)
    PROVE  Fills(Given(shape), shape, 10 * (Len(answers) + 1))
<1> DEFINE base  == 10 * (Len(answers) + 1)
           tools == Of(request.config.tools, "tool")
           Name(i) == tools[(i % Len(tools)) + 1].tag
           content == Given(shape)
<1>1. content = [i \in DOMAIN shape |->
                   IF shape[i].kind = "toolUse" THEN ToolUse(base + i, Name(i))
                   ELSE [shape[i] EXCEPT !.of = base + i]]
  BY DEF Given
<1>2. tools \in Seq(BlocksOf({"tool"}))
  BY OfType
<1>3. base \in Nat /\ Len(shape) \in Nat /\ DOMAIN shape = 1 .. Len(shape)
  OBVIOUS
<1>4. Carries(shape, "toolUse") => tools # <<>>
  BY DEF CanAnswer
<1> HIDE DEF base, tools
<1>5. ASSUME NEW i \in DOMAIN shape
      PROVE  /\ content[i] \in Answered /\ content[i].kind = shape[i].kind
             /\ content[i].of = base + i
             /\ shape[i].kind # "toolUse" => content[i].tag = shape[i].tag
  <2>1. shape[i] \in Answered /\ i \in Nat /\ base + i \in Int
    BY <1>3
  <2>2. content[i] = IF shape[i].kind = "toolUse" THEN ToolUse(base + i, Name(i))
                     ELSE [shape[i] EXCEPT !.of = base + i]
    BY <1>1
  <2> HIDE DEF content
  <2>3. CASE shape[i].kind = "toolUse"
    <3>1. tools # <<>>
      BY <1>4, <2>3 DEF Carries
    <3>2. Name(i) \in Seq(STRING)
      BY <1>2, <2>1, <3>1, NameAt
    <3> HIDE DEF Name
    <3>3. QED
      BY <2>1, <2>2, <2>3, <3>2, AnsweredFields DEF ToolUse
  <2>4. CASE shape[i].kind # "toolUse"
    <3>1. content[i] = Block(shape[i].kind, base + i, shape[i].tag)
      BY <2>1, <2>2, <2>4, AnsweredBlock
    <3>2. QED
      BY <2>1, <3>1, AnsweredFields, AnsweredBlock
  <2>5. QED
    BY <2>3, <2>4
<1>6. content \in Seq(Answered) /\ Len(content) = Len(shape)
  <2> HIDE DEF content
  <2>1. QED
    BY <1>1, <1>3, <1>5
<1> HIDE DEF content
<1>7. QED
  BY <1>1, <1>5, <1>6 DEF Fills, content, base

(***************************************************************************)
(* The types are kept.                                                     *)
(***************************************************************************)
LEMMA TypedParts ==
    Typed <=>
        /\ surface \in Sides /\ model \in Models /\ keys \in Keyrings
        /\ transcript \in Seq(Sent(surface))
        /\ phase \in {"client", "upstream"} /\ verdict \in Verdicts \cup {"accepted"}
        /\ phase = "upstream" <=> verdict = "accepted"
        /\ options \in Options
        /\ request.config.tools \in Seq(BlocksOf({"tool", "cachePoint"}))
        /\ answers \in Seq([content : Seq(Answered), uncovered : BOOLEAN])
        /\ unanswered \in Seq(Callable(surface))
        /\ phase = "upstream" => unanswered = <<>>
        /\ asks \in 0 .. MaxAsks /\ surprises \in 0 .. MaxSurprises /\ Len(answers) <= MaxReplies
<1>1. Verdicts \cup {"accepted"} = Refusals \cup {None, "accepted"}
  BY DEF Verdicts
<1>2. QED
  BY <1>1 DEF Typed, Sides, Callable, Calls, Sent

LEMMA OptionsType ==
    ASSUME NEW o \in Options
    PROVE  o.tools \in Seq(DeclaredTools) /\ o.ttl \in STRING
  BY OptionsAssumption

\* A request that has been assembled, zone by zone.
LEMMA AssembleBuilt ==
    ASSUME surface \in Sides, transcript \in Seq(Sent(surface)), NEW o \in Options
    PROVE  \E system, tools, scopes, ttl :
              /\ system = IF surface = "chat" THEN ParseSystemPrompts(transcript)
                          ELSE PushSystemBlocks(transcript)
              /\ system \in Seq(Spoken) /\ tools \in Seq(BlocksOf({"tool"})) /\ ttl \in STRING
              /\ ttl = "1h" => model.ttl1h
              /\ scopes.system => ~o.strip
              /\ scopes.messages => ~o.strip
              /\ Full(surface, Framed, model) \in Seq(AllTurns)
              /\ Built(Assemble(o), Full(surface, Framed, model), surface, system, tools,
                       model, scopes, ttl)
<1>1. o.tools \in Seq(DeclaredTools) /\ o.ttl \in STRING /\ Setting.ttl \in STRING
  BY OptionsType, SettingAssumption
<1> DEFINE ttl == ResolveCacheTtl(o.ttl, Setting.ttl, model)
           framed == Full(surface, FramedOf(surface, transcript), model)
<1>2. ttl \in STRING /\ (ttl = "1h" => model.ttl1h)
  BY <1>1, TtlIs
<1>3. FramedOf(surface, transcript) = Framed
  BY DEF FramedOf, TurnsIn, Framed, Turns
<1>4. framed \in Seq(AllTurns)
  BY FramedType, FullKeeps
<1>5. CASE surface = "chat"
  <2> DEFINE system == ParseSystemPrompts(transcript)
             built  == BuildToolConfig(model, o)
             tools  == IF built = NoConfig THEN SynthesizeToolConfig(framed).tools ELSE built.tools
             scopes == ChatScopes(o, Setting.caching)
  <2>1. transcript \in Seq(ChatMessages)
    BY <1>5 DEF Sent
  <2>2. Built(ChatAssemble(transcript, model, o, keys, Setting), framed, "chat",
              system, tools, model, scopes, ttl)
    <3>1. framed = Full("chat", FramedOf("chat", transcript), model)
      BY <1>5
    <3> HIDE DEF framed
    <3>2. QED
      BY <1>1, <1>2, <2>1, <3>1, ChatBuilt
  <2>3. system \in Seq(Spoken)
    BY <2>1, ChatSystem
  <2>4. tools \in Seq(BlocksOf({"tool"}))
    BY <1>1, <1>4, ChatTools, SynthesizedTools
  <2>5. (scopes.system => ~o.strip) /\ (scopes.messages => ~o.strip)
    BY DEF ChatScopes
  <2> HIDE DEF tools, scopes, ttl, framed
  <2>6. system = IF surface = "chat" THEN ParseSystemPrompts(transcript)
                 ELSE PushSystemBlocks(transcript)
    BY <1>5
  <2> HIDE DEF system
  <2>7. Built(Assemble(o), framed, surface, system, tools, model, scopes, ttl)
    BY <1>5, <2>2 DEF Assemble
  <2>8. framed = Full(surface, Framed, model)
    BY <1>3 DEF framed
  <2>9. QED
    BY <1>2, <1>4, <2>3, <2>4, <2>5, <2>6, <2>7, <2>8
<1>6. CASE surface = "responses"
  <2> DEFINE system == PushSystemBlocks(transcript)
             built  == ResponsesToolConfig(o.tools, o.choice)
             tools  == IF built = NoConfig THEN SynthesizeToolConfig(framed).tools ELSE built.tools
             on     == ~o.strip /\ Setting.caching
             scopes == [system |-> on, messages |-> on]
  <2>1. transcript \in Seq(InputItems)
    BY <1>6 DEF Sent
  <2>2. Built(ResponsesAssemble(transcript, model, o, Setting), framed, "responses",
              system, tools, model, scopes, ttl)
    <3>1. framed = Full("responses", FramedOf("responses", transcript), model)
      BY <1>6
    <3> HIDE DEF framed
    <3>2. QED
      BY <1>1, <1>2, <2>1, <3>1, ResponsesBuilt
  <2>3. system \in Seq(Spoken)
    BY <2>1, ResponsesSystem
  <2>4. tools \in Seq(BlocksOf({"tool"}))
    BY <1>1, <1>4, ResponsesTools, SynthesizedTools
  <2>5. (scopes.system => ~o.strip) /\ (scopes.messages => ~o.strip)
    OBVIOUS
  <2> HIDE DEF tools, scopes, ttl, framed
  <2>6. system = IF surface = "chat" THEN ParseSystemPrompts(transcript)
                 ELSE PushSystemBlocks(transcript)
    BY <1>6
  <2> HIDE DEF system
  <2>7. Built(Assemble(o), framed, surface, system, tools, model, scopes, ttl)
    BY <1>6, <2>2 DEF Assemble
  <2>8. framed = Full(surface, Framed, model)
    BY <1>3 DEF framed
  <2>9. QED
    BY <1>2, <1>4, <2>3, <2>4, <2>5, <2>6, <2>7, <2>8
<1>7. QED
  BY <1>5, <1>6 DEF Sides

LEMMA ToolKinds ==
    /\ Seq(BlocksOf({"tool"})) \subseteq Seq(BlocksOf({"tool", "cachePoint"}))
    /\ BlocksOf({"cachePoint"}) \subseteq BlocksOf({"tool", "cachePoint"})
<1>1. QED
  BY SeqWithin, KindOf DEF BlocksOf

LEMMA BuiltTools ==
    ASSUME NEW req, NEW framed, NEW side, NEW system, NEW tools \in Seq(BlocksOf({"tool"})),
           NEW row, NEW scopes, NEW ttl \in STRING,
           Built(req, framed, side, system, tools, row, scopes, ttl)
    PROVE  req.config.tools \in Seq(BlocksOf({"tool", "cachePoint"}))
<1> DEFINE W == BlocksOf({"tool", "cachePoint"})
           p == CachePoint(ttl)
           h == Tool(<<"_placeholder">>)
<1>1. tools \in Seq(W) /\ p \in W
  BY ToolKinds, PointFields
<1>2. <<h>> \in Seq(W)
  <2> DEFINE tag == <<"_placeholder">>
  <2>1. tag \in Seq(STRING)
    BY OneSeq, StringsAssumption
  <2>2. h = Block("tool", 0, tag)
    BY DEF Tool
  <2> HIDE DEF tag, h
  <2>3. h \in BlocksOf({"tool"})
    BY <2>1, <2>2, BlockFields
  <2>4. QED
    BY <2>3, ToolKinds, OneSeq
<1>3. req.config.tools \in {tools, Append(tools, p), <<h>>}
  BY DEF Built, DecorateTools
<1> HIDE DEF W, p, h
<1>4. Append(tools, p) \in Seq(W)
  BY <1>1
<1>5. req.config.tools \in Seq(W)
  BY <1>1, <1>2, <1>3, <1>4
<1>6. QED
  BY <1>5 DEF W

LEMMA TypedInit == Init => Typed
<1> SUFFICES ASSUME Init PROVE Typed
  OBVIOUS
<1>1. surface \in Sides /\ model \in Models /\ options \in Options
  BY DEF Init, Sides
<1>2. keys \in Keyrings
  BY KeyringsAssumption DEF Init
<1>3. transcript = <<>> /\ answers = <<>> /\ unanswered = <<>>
  BY DEF Init
<1>4. request.config.tools \in Seq(BlocksOf({"tool", "cachePoint"}))
  BY EmptySeq DEF Init, NoRequest, NoConfig, ToolConfig
<1>5. asks \in 0 .. MaxAsks /\ surprises \in 0 .. MaxSurprises /\ 0 <= MaxReplies
  BY BoundsAssumption DEF Init
<1>6. QED
  BY <1>1, <1>2, <1>3, <1>4, <1>5, TypedParts, EmptySeq DEF Init, None, Verdicts

\* What the actions of the client leave alone.
LEMMA AskTyped == Typed /\ Ask => Typed'
<1> SUFFICES ASSUME Typed, Ask PROVE Typed'
  OBVIOUS
<1>1. PICK parts \in Parts(asks + 1) :
         transcript' = transcript \o Opening(transcript = <<>>) \o <<Question(parts)>>
  BY DEF Ask
<1>2. /\ surface \in Sides /\ transcript \in Seq(Sent(surface)) /\ asks \in 0 .. MaxAsks
      /\ MaxAsks \in Nat /\ asks < MaxAsks
  BY TypedParts, BoundsAssumption DEF Ask
<1>3. <<Question(parts)>> \in Seq(Sent(surface))
  BY <1>2, OneSeq, QuestionType
<1>4. Opening(transcript = <<>>) \in Seq(Sent(surface))
  BY <1>2, OneSeq, EmptySeq, OpeningType
<1>5. transcript' \in Seq(Sent(surface))
  <2> DEFINE S == Sent(surface)
             a == Opening(transcript = <<>>)
             b == <<Question(parts)>>
  <2>1. transcript \in Seq(S) /\ a \in Seq(S) /\ b \in Seq(S) /\ transcript' = transcript \o a \o b
    BY <1>1, <1>2, <1>3, <1>4
  <2> HIDE DEF S, a, b
  <2>2. QED
    BY <2>1 DEF S
<1>6. QED
  BY <1>2, <1>5, TypedParts DEF Typed, Sent, Verdicts, Callable, Ask, None

LEMMA AnswerTyped == Typed /\ AnswerCall => Typed'
<1> SUFFICES ASSUME Typed, AnswerCall PROVE Typed'
  OBVIOUS
<1>1. PICK i \in DOMAIN unanswered :
         /\ transcript' = Append(transcript, Answer(unanswered[i]))
         /\ unanswered' = RemoveAt(unanswered, i)
  BY DEF AnswerCall
<1>2. /\ surface \in Sides /\ transcript \in Seq(Sent(surface))
      /\ unanswered \in Seq(Callable(surface))
  BY TypedParts
<1>3. unanswered[i] \in Callable(surface)
  BY <1>2
<1>4. Answer(unanswered[i]) \in Sent(surface)
  BY <1>2, <1>3, AnswerType
<1>5. transcript' \in Seq(Sent(surface))
  BY <1>1, <1>2, <1>4
<1>6. unanswered' \in Seq(Callable(surface))
  BY <1>1, <1>2, RemoveType
<1>7. QED
  BY <1>5, <1>6 DEF Typed, Sent, Callable, Calls, AnswerCall

LEMMA ResendTyped == Typed /\ Resend => Typed'
<1> SUFFICES ASSUME Typed, Resend PROVE Typed'
  OBVIOUS
<1>1. PICK i \in DOMAIN transcript : transcript' = Append(transcript, transcript[i])
  BY DEF Resend
<1>2. transcript \in Seq(Sent(surface)) /\ surprises \in 0 .. MaxSurprises /\ MaxSurprises \in Nat
  BY TypedParts, BoundsAssumption
<1>3. transcript' \in Seq(Sent(surface))
  BY <1>1, <1>2
<1>4. QED
  BY <1>2, <1>3 DEF Typed, Sent, Resend, None

\* Those that leave the transcript alone.
LEMMA IdleTyped == Typed /\ (Reconsider \/ Restart \/ Fail) => Typed'
<1> SUFFICES ASSUME Typed, Reconsider \/ Restart \/ Fail PROVE Typed'
  OBVIOUS
<1>1. surprises \in 0 .. MaxSurprises /\ MaxSurprises \in Nat
  BY TypedParts, BoundsAssumption
<1>2. QED
  BY <1>1 DEF Typed, Reconsider, Restart, Fail, None

LEMMA RefusalType ==
    ASSUME Typed
    PROVE  Refusal(options) \in Verdicts
<1>1. surface \in Sides /\ transcript \in Seq(Sent(surface))
  BY TypedParts
<1>2. CASE surface = "chat"
  BY <1>1, <1>2, ChatRefusalFrom DEF Refusal, Sent
<1>3. CASE surface # "chat"
  BY <1>1, <1>3, ResponsesRefusalFrom DEF Refusal, Sent
<1>4. QED
  BY <1>2, <1>3

LEMMA SubmitTyped == Typed /\ Submit => Typed'
<1> SUFFICES ASSUME Typed, Submit PROVE Typed'
  OBVIOUS
<1>1. /\ phase = "client" /\ unanswered = <<>>
      /\ UNCHANGED <<surface, model, keys, transcript, options, answers, unanswered, asks, surprises>>
  BY DEF Submit
<1>2. CASE Refusal(options) # None
  BY <1>1, <1>2, RefusalType, VerdictStrings DEF Typed, Verdicts, Submit
<1>3. CASE Refusal(options) = None
  <2>1. verdict' = "accepted" /\ phase' = "upstream" /\ request' = Assemble(options)
    BY <1>3 DEF Submit
  <2>2. PICK system, tools, scopes, ttl :
           /\ tools \in Seq(BlocksOf({"tool"})) /\ ttl \in STRING
           /\ Built(Assemble(options), Full(surface, Framed, model), surface, system, tools,
                    model, scopes, ttl)
    BY AssembleBuilt, TypedParts
  <2>3. QED
    BY <1>1, <2>1, <2>2, BuiltTools DEF Typed
<1>4. QED
  BY <1>2, <1>3

\* The answer of the upstream, as the client gets it.
LEMMA RenderedType ==
    ASSUME Typed, NEW content \in Seq(Answered), NEW keep \in BOOLEAN
    PROVE  /\ Rendered(content, keep) \in Seq(Sent(surface))
           /\ CallsGiven(Rendered(content, keep)) \in Seq(Callable(surface))
           /\ surface = "chat" =>
                 \E message : /\ Rendered(content, keep) = <<message>>
                              /\ CallsGiven(Rendered(content, keep)) = message.calls
                              /\ ChatAnswered(message, content, keys)
           /\ surface # "chat" =>
                 /\ Rendered(content, keep) =
                       ThoughtItems(content) \o SaidItems(content) \o CallItems(content, options.tools)
                 /\ CallsGiven(Rendered(content, keep)) = CallItems(content, options.tools)
<1>1. surface \in Sides /\ keys \in Keyrings /\ options.tools \in Seq(DeclaredTools)
  BY TypedParts, OptionsType
<1>2. CASE surface = "chat"
  <2> DEFINE message == IF keep THEN ChatResponse(content, keys)
                        ELSE [ChatResponse(content, keys) EXCEPT !.think = <<>>]
  <2>1. Rendered(content, keep) = <<message>>
    BY <1>2 DEF Rendered
  <2>2. ChatAnswered(message, content, keys)
    BY <1>1, ChatAnswer
  <2> HIDE DEF message
  <2>3. message \in ChatMessages /\ message.calls \in Seq(ChatCalls)
    BY <2>2 DEF ChatAnswered
  <2>4. <<message>> \in Seq(ChatMessages)
    BY <2>3, OneSeq
  <2>5. QED
    BY <1>2, <2>1, <2>2, <2>3, <2>4 DEF Sent, Callable, CallsGiven
<1>3. CASE surface = "responses"
  <2> DEFINE rendered == ResponsesOutput(content, options.tools)
             calls == CallItems(content, options.tools)
  <2>1. Rendered(content, keep) = rendered
    BY <1>3 DEF Rendered
  <2>2. /\ rendered = ThoughtItems(content) \o SaidItems(content) \o calls
        /\ rendered \in Seq(InputItems)
        /\ Among(rendered, {it \in ToSet(rendered) : it.type = "call"}) = calls
    BY <1>1, ItemsGiven
  <2>3. calls \in Seq(Calls)
    BY <1>1, CallsType
  <2> HIDE DEF rendered, calls
  <2>4. QED
    BY <1>3, <2>1, <2>2, <2>3 DEF Sent, Callable, calls, CallsGiven
<1>4. QED
  BY <1>1, <1>2, <1>3 DEF Sides

\* What a reply does, with the content that came.
Replied(shape, content, keep) ==
    /\ shape \in Shapes /\ keep \in BOOLEAN /\ CanAnswer(shape) /\ Representable(content)
    /\ Fills(content, shape, 10 * (Len(answers) + 1))
    /\ transcript' = transcript \o Rendered(content, keep)
    /\ answers' = Append(answers, [content |-> content, uncovered |-> Uncovered(content)])
    /\ unanswered' = CallsGiven(Rendered(content, keep))
    /\ phase = "upstream" /\ phase' = "client" /\ verdict' = None /\ Len(answers) < MaxReplies
    /\ UNCHANGED <<surface, model, keys, request, options, asks, surprises>>

LEMMA ReplyIs ==
    ASSUME Typed, Reply
    PROVE  \E shape, content, keep : Replied(shape, content, keep)
<1>1. PICK shape \in Shapes, keep \in BOOLEAN :
         /\ CanAnswer(shape) /\ Representable(Given(shape))
         /\ transcript' = transcript \o Rendered(Given(shape), keep)
         /\ answers' = Append(answers, [content |-> Given(shape), uncovered |-> Uncovered(Given(shape))])
         /\ unanswered' = CallsGiven(Rendered(Given(shape), keep))
  BY DEF Reply
<1>2. shape \in Seq(Answered)
  BY ShapesAssumption
<1>3. Fills(Given(shape), shape, 10 * (Len(answers) + 1))
  BY <1>1, <1>2, GivenFills DEF Typed
<1>4. QED
  BY <1>1, <1>3 DEF Replied, Reply

LEMMA ReplyTyped == Typed /\ Reply => Typed'
<1> SUFFICES ASSUME Typed, Reply PROVE Typed'
  OBVIOUS
<1>1. PICK shape, content, keep : Replied(shape, content, keep)
  BY ReplyIs
<1>2. content \in Seq(Answered) /\ keep \in BOOLEAN
  BY <1>1 DEF Replied, Fills
<1> DEFINE r == Rendered(content, keep)
<1>3. r \in Seq(Sent(surface)) /\ CallsGiven(r) \in Seq(Callable(surface))
  BY <1>2, RenderedType
<1>4. /\ transcript' = transcript \o r /\ unanswered' = CallsGiven(r)
      /\ answers' = Append(answers, [content |-> content, uncovered |-> Uncovered(content)])
      /\ phase' = "client" /\ verdict' = None /\ None # "accepted" /\ Len(answers) < MaxReplies
      /\ UNCHANGED <<surface, model, keys, request, options, asks, surprises>>
  BY <1>1 DEF Replied, None
<1> HIDE DEF r
<1>5. transcript \in Seq(Sent(surface))
  BY TypedParts
<1>6. Uncovered(content) \in BOOLEAN
  <2>1. CASE surface = "chat"
    BY <2>1 DEF Uncovered
  <2>2. CASE surface # "chat"
    BY <2>2 DEF Uncovered
  <2>3. QED
    BY <2>1, <2>2
<1>7. answers' \in Seq([content : Seq(Answered), uncovered : BOOLEAN]) /\ Len(answers') <= MaxReplies
  <2> DEFINE V == Seq(Answered)
             T == [content : V, uncovered : BOOLEAN]
             e == [content |-> content, uncovered |-> Uncovered(content)]
  <2>1. content \in V
    BY <1>2
  <2>2. answers \in Seq(T) /\ MaxReplies \in Nat
    BY BoundsAssumption DEF Typed
  <2> HIDE DEF V
  <2>3. e \in T
    BY <1>6, <2>1
  <2>4. answers' = Append(answers, e)
    BY <1>4
  <2> HIDE DEF T, e
  <2>5. QED
    BY <1>4, <2>2, <2>3, <2>4 DEF T, V
<1>8. QED
  BY <1>3, <1>4, <1>5, <1>7 DEF Typed, Sent, Callable, Calls

LEMMA TypedStep == Typed /\ [Next]_vars => Typed'
<1>1. CASE UNCHANGED vars
  BY <1>1 DEF Typed, vars
<1>2. QED
  BY <1>1, AskTyped, AnswerTyped, ResendTyped, IdleTyped, SubmitTyped, ReplyTyped DEF Next

(* The variables keep their types, an accepted request waits for its       *)
(* answer with nothing left to answer meanwhile, and the bounds hold,      *)
(* whatever was sent before (the handlers in provider.rs and               *)
(* responses_provider.rs, and the client around them).                     *)
THEOREM ConversationTyped == Spec => []Typed
  BY TypedInit, TypedStep, PTL DEF Spec

(***************************************************************************)
(* What holds of an accepted request holds because of how it was built: no *)
(* other action hands a request to the upstream.                           *)
(***************************************************************************)
Hands ==
    \/ /\ Submit /\ phase' = "upstream" /\ Refusal(options) = None /\ request' = Assemble(options)
       /\ UNCHANGED <<surface, model, keys, transcript, options, answers, unanswered>>
    \/ phase' = "client" /\ verdict' # "accepted"
    \/ UNCHANGED vars

LEMMA NextHands == Typed /\ [Next]_vars => Hands
<1> SUFFICES ASSUME Typed, [Next]_vars PROVE Hands
  OBVIOUS
<1>1. CASE UNCHANGED vars
  BY <1>1 DEF Hands
<1>2. CASE Submit
  <2>1. CASE Refusal(options) = None
    BY <1>2, <2>1 DEF Submit, Hands
  <2>2. CASE Refusal(options) # None
    BY <1>2, <2>2, RefusalType, VerdictStrings DEF Hands, Submit
  <2>3. QED
    BY <2>1, <2>2
<1>3. CASE Ask \/ Resend \/ Reconsider \/ Restart \/ Reply \/ Fail
  BY <1>3 DEF Hands, Ask, Resend, Reconsider, Restart, Reply, Fail, None
<1>4. CASE AnswerCall
  BY <1>4 DEF Hands, Typed, AnswerCall
<1>5. QED
  BY <1>1, <1>2, <1>3, <1>4 DEF Next

BudgetInv == Typed /\ CheckpointBudget

LEMMA BudgetStep == BudgetInv /\ [Next]_vars => BudgetInv'
<1> SUFFICES ASSUME BudgetInv, [Next]_vars PROVE CheckpointBudget'
  BY TypedStep DEF BudgetInv
<1>1. Typed /\ Hands
  BY NextHands DEF BudgetInv
<1>2. CASE phase' = "client"
  BY <1>2 DEF CheckpointBudget
<1>3. CASE UNCHANGED vars
  BY <1>3 DEF BudgetInv, CheckpointBudget, vars
<1>4. CASE Submit /\ request' = Assemble(options) /\ model' = model /\ options' = options
  <2>1. /\ surface \in Sides /\ transcript \in Seq(Sent(surface)) /\ options \in Options
        /\ model.ceiling \in Nat
    BY <1>1, TypedParts, ModelsAssumption
  <2> DEFINE framed == Full(surface, Framed, model)
  <2>2. PICK system, tools, scopes, ttl :
           /\ system \in Seq(Spoken) /\ tools \in Seq(BlocksOf({"tool"})) /\ ttl \in STRING
           /\ ttl = "1h" => model.ttl1h
           /\ scopes.system => ~options.strip
           /\ scopes.messages => ~options.strip
           /\ framed \in Seq(AllTurns)
           /\ Built(Assemble(options), framed, surface, system, tools, model, scopes, ttl)
    BY <2>1, AssembleBuilt
  <2> HIDE DEF framed
  <2>3. surface \in {"chat", "responses"}
    BY <2>1 DEF Sides
  <2>4. Budgeted(request', model', options'.strip)
    BY <1>4, <2>1, <2>2, <2>3, BuiltBudget
  <2>5. QED
    BY <2>4 DEF CheckpointBudget, Budgeted, Points, PointsOf
<1>5. QED
  BY <1>1, <1>2, <1>3, <1>4 DEF Hands

(* A request marks at most one place in each of its zones, all with one    *)
(* time-to-live that the model supports, and never more than the model     *)
(* allows, but for the system zone, which does not look (cache.rs,         *)
(* provider.rs 815-945).                                                   *)
THEOREM BudgetKept == Spec => []CheckpointBudget
<1>1. Init => BudgetInv
  BY TypedInit DEF Init, BudgetInv, CheckpointBudget
<1>2. BudgetInv => CheckpointBudget
  BY DEF BudgetInv
<1>3. QED
  BY <1>1, <1>2, BudgetStep, PTL DEF Spec

(***************************************************************************)
(* Where the messages of the transcript come from, said of values, so that *)
(* it can be said of the next state as well.                               *)
(***************************************************************************)
QuestionOf(side, parts) ==
    IF side = "chat" THEN [role |-> "user", parts |-> parts]
    ELSE [type |-> "message", role |-> "user", parts |-> parts]

OpenerOf(side) ==
    IF side = "chat" THEN [role |-> "system", parts |-> <<Text(0)>>]
    ELSE [type |-> "message", role |-> "system", parts |-> <<Text(0)>>]

AskedOf(side, msg) == \E n \in 1 .. MaxAsks : \E parts \in Parts(n) : msg = QuestionOf(side, parts)

ToldOf(side, msg) ==
    /\ msg.role = "system" => msg = OpenerOf(side)
    /\ msg.role = "user" => AskedOf(side, msg)

FromCallOf(sent, wire) ==
    \E i \in DOMAIN sent :
        /\ sent[i].role = "assistant"
        /\ \E c \in DOMAIN sent[i].calls : sent[i].calls[c].wire = wire

OneCapsule(calls) ==
    \A c, d \in DOMAIN calls :
        IsCapsule(calls[c].wire) /\ IsCapsule(calls[d].wire)
            => calls[c].wire.reasoning = calls[d].wire.reasoning

SealedIn(given, blocks) ==
    \E k \in DOMAIN given : /\ Carries(given[k].content, "reasoning")
                            /\ blocks = SealedOf(given[k].content)

Made(side, sent, given, msg) ==
    IF side = "chat"
    THEN /\ ToldOf(side, msg)
         /\ msg.role = "assistant" => OneCapsule(msg.calls)
         /\ msg.role = "tool" => FromCallOf(sent, msg.wire)
    ELSE /\ msg.type = "message" => ToldOf(side, msg)
         /\ msg.type = "reasoning" => SealedIn(given, msg.blocks)

AllMade(side, sent, given) == \A i \in DOMAIN sent : Made(side, sent, given, sent[i])
OpenMade(side, sent, open) ==
    side = "chat" => \A i \in DOMAIN open : FromCallOf(sent, open[i].wire)
SomeAsked(side, sent) == \E i \in DOMAIN sent : AskedOf(side, sent[i])

OriginsOf(side, sent, given, open, ph) ==
    /\ AllMade(side, sent, given)
    /\ OpenMade(side, sent, open)
    /\ sent = <<>> => ph = "client" /\ open = <<>>
    /\ sent # <<>> => SomeAsked(side, sent)

LEMMA QuestionsAre ==
    /\ \A parts : Question(parts) = QuestionOf(surface, parts)
    /\ \A parts : Question(parts)' = QuestionOf(surface', parts)
    /\ Opening(TRUE)[1] = OpenerOf(surface)
    /\ Opening(TRUE)'[1] = OpenerOf(surface')
<1> DEFINE a == [role |-> "system", parts |-> <<Text(0)>>]
           b == [type |-> "message", role |-> "system", parts |-> <<Text(0)>>]
<1> HIDE DEF a, b
<1>1. <<a>>[1] = a /\ <<b>>[1] = b
  OBVIOUS
<1>2. QED
  BY <1>1 DEF Opening, OpenerOf, Question, QuestionOf

LEMMA OriginsAre ==
    /\ Origins <=> OriginsOf(surface, transcript, answers, unanswered, phase)
    /\ Origins' <=> OriginsOf(surface', transcript', answers', unanswered', phase')
<1>1. Origins <=> OriginsOf(surface, transcript, answers, unanswered, phase)
  <2>1. \A msg : Asked(msg) <=> AskedOf(surface, msg)
    BY QuestionsAre DEF Asked, AskedOf
  <2>2. \A msg : Told(msg) <=> ToldOf(surface, msg)
    BY <2>1, QuestionsAre DEF Told, ToldOf
  <2>3. \A wire : FromCall(wire) <=> FromCallOf(transcript, wire)
    BY DEF FromCall, FromCallOf
  <2>4. QED
    BY <2>1, <2>2, <2>3 DEF Origins, OriginsOf, AllMade, OpenMade, SomeAsked, ChatOrigin,
       ItemOrigin, Made, OneCapsule, SealedIn
<1>2. Origins' <=> OriginsOf(surface', transcript', answers', unanswered', phase')
  <2>1. \A msg : Asked(msg)' <=> AskedOf(surface', msg)
    BY QuestionsAre DEF Asked, AskedOf, Question, QuestionOf
  <2>2. \A msg : Told(msg)' <=> ToldOf(surface', msg)
    BY <2>1, QuestionsAre DEF Told, ToldOf
  <2>3. \A wire : FromCall(wire)' <=> FromCallOf(transcript', wire)
    BY DEF FromCall, FromCallOf
  <2>4. QED
    BY <2>1, <2>2, <2>3 DEF Origins, OriginsOf, AllMade, OpenMade, SomeAsked, ChatOrigin,
       ItemOrigin, Made, OneCapsule, SealedIn
<1>3. QED
  BY <1>1, <1>2

Grows(old, new) == \A i \in DOMAIN old : i \in DOMAIN new /\ new[i] = old[i]

LEMMA MadeKept ==
    ASSUME NEW side, NEW old, NEW new, NEW given, NEW more, Grows(old, new), Grows(given, more),
           NEW msg, Made(side, old, given, msg)
    PROVE  Made(side, new, more, msg)
<1>1. QED
  BY DEF Made, SealedIn, Grows, FromCallOf

GrownFrom(side, sent, new, more, given) ==
    /\ AllMade(side, new, given) /\ Grows(sent, new)
    /\ SomeAsked(side, sent) => SomeAsked(side, new)
    /\ \A wire : FromCallOf(sent, wire) => FromCallOf(new, wire)
    /\ \A i \in DOMAIN more : \E j \in DOMAIN new : new[j] = more[i]

\* The transcript grows at its end: what is new comes from somewhere as well.
LEMMA OriginsGrow ==
    ASSUME NEW side, NEW T, NEW sent \in Seq(T), NEW more \in Seq(T), NEW new, new = sent \o more,
           NEW given, NEW given2, Grows(given, given2), AllMade(side, sent, given),
           \A i \in DOMAIN more : Made(side, new, given2, more[i])
    PROVE  GrownFrom(side, sent, new, more, given2)
<1>1. InARow(new, sent, more)
  BY ConcatElements
<1>2. Grows(sent, new)
  BY <1>1 DEF InARow, Grows
<1>3. AllMade(side, new, given2)
  <2>1. SUFFICES ASSUME NEW j \in DOMAIN new PROVE Made(side, new, given2, new[j])
    BY DEF AllMade
  <2>2. CASE j \in DOMAIN sent /\ new[j] = sent[j]
    BY <1>2, <2>2, MadeKept DEF AllMade
  <2>3. CASE \E i \in DOMAIN more : new[j] = more[i]
    BY <2>3
  <2>4. QED
    BY <1>1, <2>2, <2>3 DEF InARow
<1>4. \A wire : FromCallOf(sent, wire) => FromCallOf(new, wire)
  BY <1>2 DEF FromCallOf, Grows
<1>5. QED
  BY <1>1, <1>2, <1>3, <1>4 DEF InARow, GrownFrom, SomeAsked, Grows

LEMMA OneElement ==
    ASSUME NEW e, NEW i \in DOMAIN <<e>>
    PROVE  <<e>>[i] = e
  OBVIOUS

LEMMA TwoElements ==
    ASSUME NEW T, NEW a \in T, NEW b \in T
    PROVE  <<a>> \o <<b>> = <<a, b>>
<1>1. <<a>> \in Seq(T) /\ <<b>> \in Seq(T) /\ Len(<<a>>) = 1 /\ Len(<<b>>) = 1
  OBVIOUS
<1>2. <<a, b>> \in Seq(T) /\ Len(<<a, b>>) = 2 /\ <<a, b>>[1] = a /\ <<a, b>>[2] = b
  OBVIOUS
<1>3. <<a>>[1] = a /\ <<b>>[1] = b /\ 1 .. 2 = {1, 2}
  OBVIOUS
<1> DEFINE s == <<a>> \o <<b>>
           t == <<a, b>>
<1>4. s \in Seq(T) /\ t \in Seq(T) /\ Len(s) = 2 /\ Len(t) = 2 /\ s[1] = t[1] /\ s[2] = t[2]
  BY <1>1, <1>2, <1>3
<1> HIDE DEF s, t
<1>5. s = t
  BY <1>3, <1>4, SameSeq
<1>6. QED
  BY <1>5 DEF s, t

LEMMA QuestionFields ==
    ASSUME NEW side, NEW parts
    PROVE  /\ QuestionOf(side, parts).role = "user"
           /\ side # "chat" => QuestionOf(side, parts).type = "message"
           /\ OpenerOf(side).role = "system"
           /\ side # "chat" => OpenerOf(side).type = "message"
  BY DEF QuestionOf, OpenerOf

LEMMA AskOrigins == Typed /\ Origins /\ Ask => Origins'
<1> SUFFICES ASSUME Typed, Origins, Ask PROVE Origins'
  OBVIOUS
<1>1. PICK parts \in Parts(asks + 1) :
         transcript' = transcript \o Opening(transcript = <<>>) \o <<Question(parts)>>
  BY DEF Ask
<1>2. /\ surface \in Sides /\ transcript \in Seq(Sent(surface)) /\ asks \in 0 .. MaxAsks
      /\ MaxAsks \in Nat /\ asks < MaxAsks
  BY TypedParts, BoundsAssumption DEF Ask
<1>3. /\ surface' = surface /\ answers' = answers /\ unanswered' = unanswered
      /\ unanswered = <<>>
  BY DEF Ask
<1> DEFINE q == QuestionOf(surface, parts)
           o == OpenerOf(surface)
           more == IF transcript = <<>> THEN <<o, q>> ELSE <<q>>
           T == Sent(surface)
<1>4. q \in T /\ o \in T
  <2>1. asks + 1 \in Int
    BY <1>2
  <2>2. parts \in Seq(Spoken) /\ <<Text(0)>> \in Seq(Spoken)
    BY <2>1, PartsType, TextBlock, OneSeq
  <2>3. QED
    BY <1>2, <2>1, <2>2, QuestionsAre, QuestionType, SpokenMessage DEF OpenerOf, Sent, Sides
<1>5. transcript' = transcript \o more /\ more \in Seq(T)
  <2>1. Question(parts) = q
    BY QuestionsAre
  <2>2. transcript = <<>> => Opening(transcript = <<>>) = <<o>>
    <3>1. Opening(TRUE) = <<o>>
      <4> DEFINE a == [role |-> "system", parts |-> <<Text(0)>>]
                 b == [type |-> "message", role |-> "system", parts |-> <<Text(0)>>]
      <4>1. Opening(TRUE) = IF surface = "chat" THEN <<a>> ELSE <<b>>
        BY DEF Opening
      <4>2. o = IF surface = "chat" THEN a ELSE b
        BY DEF OpenerOf
      <4> HIDE DEF a, b, o
      <4>3. QED
        BY <4>1, <4>2
    <3>2. QED
      BY <3>1
  <2> HIDE DEF q, o, T
  <2>3. <<q>> \in Seq(T) /\ <<o>> \in Seq(T) /\ <<o, q>> \in Seq(T) /\ <<o>> \o <<q>> = <<o, q>>
    <3>1. <<o>> \o <<q>> = <<o, q>>
      BY <1>4, TwoElements
    <3>2. QED
      BY <1>4, <3>1, OneSeq
  <2>4. transcript' = (transcript \o Opening(transcript = <<>>)) \o <<q>>
    BY <1>1, <2>1
  <2>5. CASE transcript = <<>>
    BY <2>2, <2>3, <2>4, <2>5
  <2>6. CASE transcript # <<>>
    BY <1>2, <2>3, <2>4, <2>6 DEF Opening, T
  <2>7. QED
    BY <2>5, <2>6
<1>6. AskedOf(surface, q) /\ ToldOf(surface, q) /\ ToldOf(surface, o)
  BY <1>2, QuestionFields DEF ToldOf, q, o, AskedOf
<1>7. Made(surface, transcript', answers', q) /\ Made(surface, transcript', answers', o)
  <2>1. /\ q.role = "user" /\ (surface # "chat" => q.type = "message")
        /\ o.role = "system" /\ (surface # "chat" => o.type = "message")
    BY QuestionFields
  <2> HIDE DEF q, o
  <2>2. QED
    BY <1>6, <2>1 DEF Made
<1> HIDE DEF q, o, T
<1>8. \A i \in DOMAIN more : more[i] = q \/ more[i] = o
  OBVIOUS
<1>9. \E i \in DOMAIN more : more[i] = q
  OBVIOUS
<1> HIDE DEF more
<1>10. Grows(answers, answers')
  BY <1>3 DEF Grows
<1>11. /\ AllMade(surface, transcript', answers')
       /\ \A i \in DOMAIN more : \E j \in DOMAIN transcript' : transcript'[j] = more[i]
  <2>1. more \in Seq(T) /\ transcript' = transcript \o more
    BY <1>5
  <2>2. GrownFrom(surface, transcript, transcript', more, answers')
    BY <1>2, <1>7, <1>8, <1>10, <2>1, OriginsGrow, OriginsAre DEF OriginsOf, T
  <2>3. QED
    BY <2>2 DEF GrownFrom
<1>12. OriginsOf(surface', transcript', answers', unanswered', phase')
  <2>1. phase' = "client"
    BY DEF Ask
  <2>2. QED
    BY <1>3, <1>6, <1>9, <1>11, <2>1 DEF OriginsOf, OpenMade, SomeAsked
<1>13. QED
  BY <1>12, OriginsAre

\* One message more, from the client.
LEMMA OneMoreOrigin ==
    ASSUME Typed, Origins, NEW msg \in Sent(surface), transcript' = Append(transcript, msg),
           surface' = surface, answers' = answers, phase = "client", phase' = "client",
           Made(surface, transcript, answers, msg), transcript # <<>>,
           OpenMade(surface, transcript, unanswered')
    PROVE  Origins'
<1> DEFINE more == <<msg>>
           T == Sent(surface)
<1>1. transcript \in Seq(T)
  BY TypedParts
<1> HIDE DEF T
<1>2. more \in Seq(T) /\ transcript' = transcript \o more
  BY <1>1 DEF T
<1>3. DOMAIN more = {1} /\ more[1] = msg
  OBVIOUS
<1> HIDE DEF more
<1>4. Grows(answers, answers')
  BY DEF Grows
<1>5. Grows(transcript, transcript')
  BY <1>1, <1>2, ConcatElements DEF InARow, Grows
<1>6. AllMade(surface, transcript, answers) /\ SomeAsked(surface, transcript)
  BY OriginsAre DEF OriginsOf
<1>7. /\ AllMade(surface, transcript', answers') /\ SomeAsked(surface, transcript')
      /\ \A wire : FromCallOf(transcript, wire) => FromCallOf(transcript', wire)
  <2>1. GrownFrom(surface, transcript, transcript', more, answers')
    BY <1>1, <1>2, <1>3, <1>4, <1>5, <1>6, OriginsGrow, MadeKept
  <2>2. QED
    BY <1>6, <2>1 DEF GrownFrom
<1>8. transcript' # <<>>
  BY <1>1
<1>9. QED
  BY <1>7, <1>8, OriginsAre DEF OriginsOf, OpenMade

LEMMA OpenNonempty ==
    ASSUME Origins, unanswered # <<>> \/ phase = "upstream"
    PROVE  transcript # <<>>
<1>1. QED
  BY OriginsAre DEF OriginsOf

LEMMA AnswerOrigins == Typed /\ Origins /\ AnswerCall => Origins'
<1> SUFFICES ASSUME Typed, Origins, AnswerCall PROVE Origins'
  OBVIOUS
<1>1. PICK i \in DOMAIN unanswered :
         /\ transcript' = Append(transcript, Answer(unanswered[i]))
         /\ unanswered' = RemoveAt(unanswered, i)
  BY DEF AnswerCall
<1>2. /\ surface \in Sides /\ transcript \in Seq(Sent(surface))
      /\ unanswered \in Seq(Callable(surface))
  BY TypedParts
<1> DEFINE call == unanswered[i]
           msg == Answer(call)
<1>3. call \in Callable(surface) /\ msg \in Sent(surface)
  <2>1. call \in Callable(surface)
    BY <1>2
  <2> HIDE DEF call
  <2>2. QED
    BY <1>2, <2>1, AnswerType
<1>4. surface = "chat" => \A k \in DOMAIN unanswered : FromCallOf(transcript, unanswered[k].wire)
  BY OriginsAre DEF OriginsOf, OpenMade
<1>5. Made(surface, transcript, answers, msg)
  <2>1. CASE surface = "chat"
    <3>1. msg.role = "tool" /\ msg.wire = call.wire
      BY <2>1 DEF Answer
    <3>2. FromCallOf(transcript, call.wire)
      BY <1>4, <2>1
    <3> HIDE DEF msg, call
    <3>3. QED
      BY <2>1, <3>1, <3>2 DEF Made, ToldOf
  <2>2. CASE surface # "chat"
    <3>1. msg.type = "output"
      BY <2>2 DEF Answer
    <3> HIDE DEF msg, call
    <3>2. QED
      BY <2>2, <3>1 DEF Made
  <2>3. QED
    BY <2>1, <2>2
<1>6. transcript # <<>>
  BY <1>2, OpenNonempty, EmptySeq
<1>7. OpenMade(surface, transcript, unanswered')
  <2>1. CASE surface = "chat"
    <3>1. \A k \in DOMAIN unanswered' : \E j \in DOMAIN unanswered : unanswered'[k] = unanswered[j]
      <4>1. /\ unanswered' \in Seq(Callable(surface)) /\ Len(unanswered') = Len(unanswered) - 1
            /\ \A k \in 1 .. Len(unanswered) - 1 :
                  unanswered'[k] = IF k < i THEN unanswered[k] ELSE unanswered[k + 1]
        BY <1>1, <1>2, RemoveType
      <4>2. /\ DOMAIN unanswered' = 1 .. Len(unanswered) - 1 /\ Len(unanswered) \in Nat
            /\ DOMAIN unanswered = 1 .. Len(unanswered)
        BY <1>2, <4>1
      <4>3. ASSUME NEW k \in 1 .. Len(unanswered) - 1
            PROVE  k \in DOMAIN unanswered /\ k + 1 \in DOMAIN unanswered
        BY <4>2
      <4>4. QED
        BY <4>1, <4>2, <4>3
    <3>2. QED
      BY <1>4, <2>1, <3>1 DEF OpenMade
  <2>2. QED
    BY <2>1 DEF OpenMade
<1>8. QED
  BY <1>1, <1>3, <1>5, <1>6, <1>7, OneMoreOrigin DEF AnswerCall

LEMMA ResendOrigins == Typed /\ Origins /\ Resend => Origins'
<1> SUFFICES ASSUME Typed, Origins, Resend PROVE Origins'
  OBVIOUS
<1>1. PICK i \in DOMAIN transcript : transcript' = Append(transcript, transcript[i])
  BY DEF Resend
<1>2. transcript \in Seq(Sent(surface)) /\ transcript # <<>>
  BY TypedParts DEF Resend
<1>3. transcript[i] \in Sent(surface)
  BY <1>2
<1>4. OriginsOf(surface, transcript, answers, unanswered, phase)
  BY OriginsAre
<1>5. QED
  BY <1>1, <1>2, <1>3, <1>4, OneMoreOrigin DEF OriginsOf, AllMade, Resend

\* What an answer adds to the transcript.
LEMMA ReplyMade ==
    ASSUME Typed, NEW content \in Seq(Answered), NEW keep \in BOOLEAN,
           NEW r, r = Rendered(content, keep), NEW sent, NEW given, NEW k \in DOMAIN given,
           given[k].content = content
    PROVE  \A i \in DOMAIN r : Made(surface, sent, given, r[i])
<1>1. CASE surface = "chat"
  <2>1. PICK message : r = <<message>> /\ ChatAnswered(message, content, keys)
    BY <1>1, RenderedType
  <2>2. OneCapsule(message.calls)
    <3>1. SUFFICES ASSUME NEW c \in DOMAIN message.calls, IsCapsule(message.calls[c].wire)
                   PROVE  message.calls[c].wire.reasoning = SealedOf(content)
      BY DEF OneCapsule
    <3> DEFINE uses == Of(content, "toolUse")
    <3>2. /\ DOMAIN message.calls = DOMAIN uses
          /\ \A i \in DOMAIN uses : message.calls[i].wire = WireOf(content, keys, uses[i].of)
      BY <2>1 DEF ChatAnswered
    <3>3. uses \in Seq(BlocksOf({"toolUse"}))
      BY OfType
    <3> HIDE DEF uses
    <3>4. uses[c].of \in Int
      <4>1. uses[c] \in BlocksOf({"toolUse"})
        BY <3>2, <3>3
      <4>2. QED
        BY <4>1, BlockKind
    <3>5. QED
      BY <3>1, <3>2, <3>4, WireIs, TypedParts
  <2>3. QED
    BY <1>1, <2>1, <2>2, OneElement DEF Made, ToldOf, ChatAnswered
<1>2. CASE surface # "chat"
  <2> DEFINE t == ThoughtItems(content)
             s == SaidItems(content)
             c == CallItems(content, options.tools)
             T == InputItems
  <2>1. r = (t \o s) \o c
    BY <1>2, RenderedType
  <2>2. t \in Seq(T) /\ s \in Seq(T)
    BY ThoughtType, SaidType
  <2>3. c \in Seq(Calls)
    BY CallsType, TypedParts, OptionsType
  <2>4. \A i \in DOMAIN t : Made(surface, sent, given, t[i])
    <3>1. SUFFICES ASSUME NEW i \in DOMAIN t PROVE Made(surface, sent, given, t[i])
      OBVIOUS
    <3>2. t # <<>>
      <4> HIDE DEF t
      <4>1. QED
        BY <2>2, <3>1
    <3>3. PICK item \in InputItems : /\ t = <<item>> /\ item.type = "reasoning"
                                     /\ item.blocks = SealedOf(content)
      BY <3>2, ThoughtType
    <3>4. Carries(content, "reasoning")
      <4>1. PICK j \in DOMAIN content : content[j] \in BlocksOf({"reasoning"})
        BY <3>2, AmongNone DEF Of, ThoughtItems
      <4>2. QED
        BY <4>1, BlockKind DEF Carries
    <3>5. SealedIn(given, item.blocks)
      BY <3>3, <3>4 DEF SealedIn
    <3>6. QED
      BY <1>2, <3>1, <3>3, <3>5, OneElement DEF Made
  <2>5. \A i \in DOMAIN s : Made(surface, sent, given, s[i])
    <3>1. SUFFICES ASSUME NEW i \in DOMAIN s PROVE Made(surface, sent, given, s[i])
      OBVIOUS
    <3>2. s # <<>>
      <4> HIDE DEF s
      <4>1. QED
        BY <2>2, <3>1
    <3>3. PICK item \in InputItems : s = <<item>> /\ item.type = "message" /\ item.role = "assistant"
      BY <3>2, SaidType
    <3>4. QED
      BY <1>2, <3>1, <3>3, OneElement DEF Made, ToldOf
  <2>6. \A i \in DOMAIN c : Made(surface, sent, given, c[i])
    <3> HIDE DEF c
    <3>1. QED
      BY <1>2, <2>3 DEF Calls, Made
  <2> HIDE DEF t, s, c
  <2>7. c \in Seq(T)
    BY <2>3, SeqWithin DEF Calls
  <2> HIDE DEF T
  <2> DEFINE ts == t \o s
  <2>8. InARow(ts, t, s)
    BY <2>2, ConcatElements
  <2>9. ts \in Seq(T)
    BY <2>2
  <2> HIDE DEF ts
  <2>10. InARow(ts \o c, ts, c)
    BY <2>7, <2>9, ConcatElements
  <2>11. r = ts \o c
    BY <2>1 DEF ts
  <2>12. QED
    BY <2>4, <2>5, <2>6, <2>8, <2>10, <2>11 DEF InARow
<1>3. QED
  BY <1>1, <1>2

LEMMA ReplyOrigins == Typed /\ Origins /\ Reply => Origins'
<1> SUFFICES ASSUME Typed, Origins, Reply PROVE Origins'
  OBVIOUS
<1>1. PICK shape, content, keep : Replied(shape, content, keep)
  BY ReplyIs
<1>2. content \in Seq(Answered) /\ keep \in BOOLEAN
  BY <1>1 DEF Replied, Fills
<1> DEFINE T == Sent(surface)
           e == [content |-> content, uncovered |-> Uncovered(content)]
<1>3. PICK r : r = Rendered(content, keep)
  OBVIOUS
<1>4. r \in Seq(T) /\ transcript \in Seq(T)
  BY <1>2, <1>3, RenderedType, TypedParts
<1>5. /\ transcript' = transcript \o r /\ unanswered' = CallsGiven(r)
      /\ answers' = Append(answers, e) /\ surface' = surface
      /\ phase = "upstream" /\ phase' = "client"
  BY <1>1, <1>3 DEF Replied
<1>6. e.content = content
  OBVIOUS
<1> HIDE DEF e
<1>7. /\ Len(answers) + 1 \in DOMAIN answers' /\ answers'[Len(answers) + 1].content = content
      /\ Grows(answers, answers')
  <2>1. answers \in Seq([content : Seq(Answered), uncovered : BOOLEAN])
    BY DEF Typed
  <2> DEFINE W == [content : Seq(Answered), uncovered : BOOLEAN] \cup {e}
  <2>2. answers \in Seq(W) /\ e \in W
    <3>1. [content : Seq(Answered), uncovered : BOOLEAN] \subseteq W
      OBVIOUS
    <3>2. e \in W
      OBVIOUS
    <3> HIDE DEF W
    <3>3. QED
      BY <2>1, <3>1, <3>2, SeqWithin
  <2> HIDE DEF W
  <2>3. QED
    BY <1>5, <1>6, <2>2 DEF Grows
<1>8. OriginsOf(surface, transcript, answers, unanswered, phase)
  BY OriginsAre
<1>9. AllMade(surface, transcript, answers) /\ transcript # <<>>
  BY <1>5, <1>8, OpenNonempty DEF OriginsOf
<1> HIDE DEF T
<1>10. GrownFrom(surface, transcript, transcript', r, answers')
  BY <1>2, <1>3, <1>4, <1>5, <1>7, <1>9, OriginsGrow, ReplyMade
<1>11. OpenMade(surface, transcript', unanswered')
  <2>1. CASE surface = "chat"
    <3>1. PICK message : /\ r = <<message>> /\ CallsGiven(r) = message.calls
                         /\ ChatAnswered(message, content, keys)
      BY <1>2, <1>3, <2>1, RenderedType
    <3>2. PICK j \in DOMAIN transcript' : transcript'[j] = message
      BY <1>10, <3>1 DEF GrownFrom
    <3>3. QED
      BY <1>5, <3>1, <3>2 DEF OpenMade, FromCallOf, ChatAnswered
  <2>2. QED
    BY <2>1 DEF OpenMade
<1>12. transcript' # <<>>
  BY <1>4, <1>5, <1>9, EmptySeq
<1>13. QED
  BY <1>5, <1>8, <1>9, <1>10, <1>11, <1>12, OriginsAre DEF OriginsOf, GrownFrom

LEMMA OriginsStep == Typed /\ Origins /\ [Next]_vars => Origins'
<1> SUFFICES ASSUME Typed, Origins, [Next]_vars PROVE Origins'
  OBVIOUS
<1>1. OriginsOf(surface, transcript, answers, unanswered, phase)
  BY OriginsAre
<1>2. CASE Submit
  BY <1>1, <1>2, OriginsAre DEF OriginsOf, Submit
<1>3. CASE Reconsider \/ Restart \/ Fail
  BY <1>1, <1>3, OriginsAre DEF OriginsOf, Reconsider, Restart, Fail
<1>4. CASE UNCHANGED vars
  BY <1>1, <1>4, OriginsAre DEF vars
<1>5. QED
  BY <1>2, <1>3, <1>4, AskOrigins, AnswerOrigins, ResendOrigins, ReplyOrigins DEF Next

LEMMA OriginsInit == Init => Origins
<1> SUFFICES ASSUME Init PROVE Origins
  OBVIOUS
<1>1. QED
  BY OriginsAre DEF OriginsOf, AllMade, OpenMade, Init

(***************************************************************************)
(* Why a request is refused.                                               *)
(***************************************************************************)
Excused(v, side, row, ring, sent, given, o) ==
    /\ v = "unknownKid" =>
          \E i \in DOMAIN sent :
             /\ sent[i].role = "assistant"
             /\ \E c \in DOMAIN sent[i].calls : sent[i].calls[c].wire.kid \notin ring.known
    /\ v = "noEnvelope" =>
          \E k \in DOMAIN given :
             /\ Carries(given[k].content, "reasoning")
             /\ \A i \in DOMAIN given[k].content : ~Sealed(given[k].content[i])
    /\ v = "image" => ~row.sees
    /\ v = "forced" => side = "chat" /\ o.effort # None
    /\ v = "empty" => \E i \in DOMAIN sent : sent[i] = QuestionOf(side, <<Blank>>)
    /\ v \notin {"mismatch", "systemPart"}

LEMMA ReplayIs ==
    /\ ReplayAccepted <=> Excused(verdict, surface, model, keys, transcript, answers, options)
    /\ ReplayAccepted' <=> Excused(verdict', surface', model', keys', transcript', answers', options')
<1>1. QED
  BY QuestionsAre DEF ReplayAccepted, Excused, Question, QuestionOf

\* A blank question is one that holds nothing but the blank part.
LEMMA BlankQuestion ==
    ASSUME NEW side \in Sides, NEW msg, AskedOf(side, msg), Among(msg.parts, Spoken \ {Blank}) = <<>>
    PROVE  msg = QuestionOf(side, <<Blank>>)
<1>1. PICK n \in 1 .. MaxAsks : \E parts \in Parts(n) : msg = QuestionOf(side, parts)
  BY DEF AskedOf
<1>2. PICK parts \in Parts(n) : msg = QuestionOf(side, parts)
  BY <1>1
<1>3. n \in Int
  BY BoundsAssumption
<1>4. QED
  BY <1>2, <1>3, PartsType DEF QuestionOf

LEMMA OpenerPlain ==
    ASSUME NEW side
    PROVE  ~ Contains(OpenerOf(side).parts, Image)
<1> DEFINE t == Text(0)
<1>1. t # Image
  BY DEF Text, Image, Block
<1>2. OpenerOf(side).parts = <<t>>
  BY DEF OpenerOf
<1> HIDE DEF t
<1>3. QED
  BY <1>1, <1>2 DEF Contains

LEMMA SharedIs ==
    ASSUME NEW calls \in Seq(ChatCalls), OneCapsule(calls),
           NEW c \in DOMAIN calls, IsCapsule(calls[c].wire)
    PROVE  calls[c].wire.reasoning = SharedReasoning(calls)
<1> DEFINE S == {x \in ToSet(calls) : IsCapsule(x.wire)}
           capsules == Among(calls, S)
<1>1. calls[c] \in S
  BY DEF ToSet
<1>2. capsules # <<>>
  <2> HIDE DEF S
  <2>1. QED
    BY <1>1, AmongMisses
<1>3. Head(capsules) \in S
  <2> HIDE DEF S
  <2>1. capsules \in Seq(ChatCalls \cap S)
    BY AmongType
  <2> HIDE DEF capsules
  <2>2. QED
    BY <1>2, <2>1
<1>4. PICK d \in DOMAIN calls : Head(capsules) = calls[d] /\ IsCapsule(calls[d].wire)
  <2> HIDE DEF capsules
  <2>1. QED
    BY <1>3 DEF ToSet
<1>5. QED
  BY <1>2, <1>4 DEF OneCapsule, SharedReasoning

LEMMA ChatExcused ==
    ASSUME NEW sent \in Seq(ChatMessages), NEW row, NEW o, NEW ring, NEW given,
           AllMade("chat", sent, given),
           NEW v, v = ChatRefusal(sent, row, o, ring), v # None
    PROVE  Excused(v, "chat", row, ring, sent, given, o)
<1>1. CASE v = "forced" /\ ForcedWhileReasoning(sent, row, o, ring)
  BY <1>1 DEF Excused, ChatReasoning, BuildReasoningConfig, ForcedWhileReasoning
<1>2. ASSUME NEW i \in DOMAIN sent, v = MessageRefusal(sent[i], row, ring)
      PROVE  Excused(v, "chat", row, ring, sent, given, o)
  <2> DEFINE msg == sent[i]
  <2>1. msg \in ChatMessages
    OBVIOUS
  <2>2. /\ ToldOf("chat", msg)
        /\ msg.role = "assistant" => OneCapsule(msg.calls)
        /\ msg.role = "tool" => FromCallOf(sent, msg.wire)
    BY DEF Made, AllMade
  <2>3. \/ msg.role = "user" /\ v = "image" /\ ~ row.sees
        \/ msg.role = "user" /\ v = "empty" /\ Among(msg.parts, Spoken \ {Blank}) = <<>>
        \/ /\ msg.role = "assistant"
           /\ \E c \in DOMAIN msg.calls : v = CallRefusal(msg.calls, c, ring)
        \/ msg.role = "tool" /\ v = "unknownKid" /\ msg.wire.kid \notin ring.known
    <3> HIDE DEF msg
    <3>1. QED
      BY <1>2, <2>1, MessageRefusalFrom DEF msg
  <2>4. CASE v = "image" /\ ~ row.sees
    BY <2>4 DEF Excused
  <2>5. CASE msg.role = "user" /\ v = "empty" /\ Among(msg.parts, Spoken \ {Blank}) = <<>>
    <3>1. "chat" \in Sides
      BY DEF Sides
    <3> HIDE DEF msg
    <3>2. QED
      BY <2>2, <2>5, <3>1, BlankQuestion DEF Excused, msg, ToldOf
  <2>6. ASSUME msg.role = "assistant", NEW c \in DOMAIN msg.calls, v = CallRefusal(msg.calls, c, ring)
        PROVE  Excused(v, "chat", row, ring, sent, given, o)
    <3>1. \/ v = "unknownKid" /\ msg.calls[c].wire.kid \notin ring.known
          \/ /\ v = "mismatch" /\ IsCapsule(msg.calls[c].wire)
             /\ msg.calls[c].wire.reasoning # SharedReasoning(msg.calls)
      <4> HIDE DEF msg
      <4>1. QED
        BY <2>6, CallRefusalFrom
    <3>2. CASE v = "unknownKid" /\ msg.calls[c].wire.kid \notin ring.known
      BY <2>6, <3>2 DEF Excused
    <3>3. CASE IsCapsule(msg.calls[c].wire) /\ msg.calls[c].wire.reasoning # SharedReasoning(msg.calls)
      <4>1. msg.calls \in Seq(ChatCalls)
        <5> HIDE DEF msg
        <5>1. QED
          BY <2>1, <2>6, ChatMessageKinds
      <4> HIDE DEF msg
      <4>2. QED
        BY <2>2, <2>6, <3>3, <4>1, SharedIs
    <3>4. QED
      BY <3>1, <3>2, <3>3
  <2>7. CASE msg.role = "tool" /\ v = "unknownKid" /\ msg.wire.kid \notin ring.known
    <3> DEFINE wire == msg.wire
    <3>1. PICK j \in DOMAIN sent : /\ sent[j].role = "assistant"
                                   /\ \E c \in DOMAIN sent[j].calls : sent[j].calls[c].wire = wire
      BY <2>2, <2>7 DEF FromCallOf
    <3>2. wire.kid \notin ring.known /\ v = "unknownKid"
      BY <2>7
    <3> HIDE DEF wire
    <3>3. QED
      BY <3>1, <3>2 DEF Excused
  <2>8. QED
    BY <2>3, <2>4, <2>5, <2>6, <2>7
<1>3. ASSUME NEW i \in DOMAIN sent, sent[i].role = "system", Contains(sent[i].parts, Image)
      PROVE  FALSE
  BY <1>3, OpenerPlain DEF Made, ToldOf, AllMade
<1>4. QED
  BY <1>1, <1>2, <1>3, ChatRefusalFrom

LEMMA ResponsesExcused ==
    ASSUME NEW sent \in Seq(InputItems), NEW row, NEW o, NEW ring, NEW given,
           given \in Seq([content : Seq(Answered), uncovered : BOOLEAN]),
           AllMade("responses", sent, given),
           NEW v, v = ResponsesRefusal(sent, row, o), v # None
    PROVE  Excused(v, "responses", row, ring, sent, given, o)
<1>1. CASE v \in {"duplicateTool", "unknownTool"}
  BY <1>1 DEF Excused
<1>2. ASSUME NEW i \in DOMAIN sent, v = ItemRefusal(sent[i], row)
      PROVE  Excused(v, "responses", row, ring, sent, given, o)
  <2> DEFINE item == sent[i]
  <2>1. item \in InputItems
    OBVIOUS
  <2>2. /\ item.type = "message" => ToldOf("responses", item)
        /\ item.type = "reasoning" => SealedIn(given, item.blocks)
    BY DEF Made, AllMade
  <2>3. \/ item.type = "message" /\ item.role = "system" /\ Contains(item.parts, Image)
        \/ v = "image" /\ ~ row.sees
        \/ /\ item.type = "message" /\ item.role = "user" /\ v = "empty"
           /\ Among(item.parts, Spoken \ {Blank}) = <<>>
        \/ item.type = "reasoning" /\ v = "noEnvelope" /\ item.blocks = <<>>
    <3> HIDE DEF item
    <3>1. v = ItemRefusal(item, row)
      BY <1>2 DEF item
    <3>2. QED
      BY <2>1, <3>1, ItemRefusalFrom
  <2>4. CASE item.type = "message" /\ item.role = "system" /\ Contains(item.parts, Image)
    BY <2>2, <2>4, OpenerPlain DEF ToldOf
  <2>5. CASE v = "image" /\ ~ row.sees
    BY <2>5 DEF Excused
  <2>6. CASE /\ item.type = "message" /\ item.role = "user" /\ v = "empty"
             /\ Among(item.parts, Spoken \ {Blank}) = <<>>
    <3>1. "responses" \in Sides
      BY DEF Sides
    <3> HIDE DEF item
    <3>2. QED
      BY <2>2, <2>6, <3>1, BlankQuestion DEF Excused, item, ToldOf
  <2>7. CASE item.type = "reasoning" /\ v = "noEnvelope" /\ item.blocks = <<>>
    <3>1. PICK k \in DOMAIN given : /\ Carries(given[k].content, "reasoning")
                                    /\ SealedOf(given[k].content) = <<>>
      BY <2>2, <2>7 DEF SealedIn
    <3> DEFINE c == given[k].content
               V == Seq(Answered)
    <3>2. c \in V
      <4> DEFINE W == [content : V, uncovered : BOOLEAN]
      <4>1. given \in Seq(W)
        OBVIOUS
      <4> HIDE DEF V, W
      <4>2. given[k] \in W
        BY <4>1
      <4>3. QED
        BY <4>2 DEF W
    <3>3. \A j \in DOMAIN c : ~ Sealed(c[j])
      <4> DEFINE S == {b \in BlocksOf({"reasoning"}) : b.tag # <<"unsigned">>}
      <4>1. Among(c, S) = <<>>
        BY <3>1 DEF SealedOf
      <4>2. \A j \in DOMAIN c : c[j] \notin S
        <5> HIDE DEF S, c
        <5>1. QED
          BY <3>2, <4>1, AmongMisses
      <4>3. ASSUME NEW j \in DOMAIN c, Sealed(c[j]) PROVE c[j] \in S
        <5>1. c[j] \in Answered
          <6> HIDE DEF c
          <6>1. QED
            BY <3>2
        <5>2. c[j].kind = "reasoning" /\ c[j].tag # <<"unsigned">>
          BY <4>3 DEF Sealed
        <5>3. c[j] = Block("reasoning", c[j].of, c[j].tag) /\ c[j].of \in Int /\ c[j].tag \in Seq(STRING)
          <6> DEFINE b == c[j]
          <6> HIDE DEF b
          <6>1. b = [b EXCEPT !.of = b.of] /\ b \in Answered /\ b.kind = "reasoning"
            <7> DEFINE W == Seq(STRING)
            <7> HIDE DEF W
            <7>1. QED
              BY <5>1, <5>2 DEF Answered, BlocksOf, b
          <6>2. QED
            BY <6>1, AnsweredBlock DEF b
        <5>4. QED
          BY <5>2, <5>3, BlockFields
      <4>4. QED
        BY <4>2, <4>3
    <3>4. QED
      BY <2>7, <3>1, <3>3 DEF Excused
  <2>8. QED
    BY <2>3, <2>4, <2>5, <2>6, <2>7
<1>3. QED
  BY <1>1, <1>2, ResponsesRefusalFrom

LEMMA RefusedExcused ==
    ASSUME Typed, Origins, Refusal(options) # None
    PROVE  Excused(Refusal(options), surface, model, keys, transcript, answers, options)
<1>1. AllMade(surface, transcript, answers) /\ surface \in Sides
  BY TypedParts, OriginsAre DEF OriginsOf
<1>2. /\ transcript \in Seq(Sent(surface))
      /\ answers \in Seq([content : Seq(Answered), uncovered : BOOLEAN])
  BY TypedParts
<1>3. PICK v : v = Refusal(options)
  OBVIOUS
<1>4. CASE surface = "chat"
  <2>1. Excused(v, "chat", model, keys, transcript, answers, options)
    BY <1>1, <1>2, <1>3, <1>4, ChatExcused DEF Sent, Refusal
  <2>2. QED
    BY <1>3, <1>4, <2>1
<1>5. CASE surface = "responses"
  <2>1. v = ResponsesRefusal(transcript, model, options) /\ v # None
    BY <1>3, <1>5 DEF Refusal
  <2>2. QED
    BY <1>1, <1>2, <1>3, <1>5, <2>1, ResponsesExcused DEF Sent
<1>6. QED
  BY <1>1, <1>4, <1>5 DEF Sides

LEMMA ExcusedNone ==
    ASSUME NEW side, NEW row, NEW ring, NEW sent, NEW given, NEW o, NEW v, v \in {None, "accepted"}
    PROVE  Excused(v, side, row, ring, sent, given, o)
  BY DEF Excused, None

\* More messages of the client take no reason away.
LEMMA ExcusedLater ==
    ASSUME NEW v, NEW side, NEW row, NEW ring, NEW sent, NEW new, NEW given, NEW o, Grows(sent, new),
           Excused(v, side, row, ring, sent, given, o)
    PROVE  Excused(v, side, row, ring, new, given, o)
<1>1. QED
  BY DEF Excused, Grows

ReplayInv == Typed /\ Origins /\ ReplayAccepted

LEMMA ReplayStep == ReplayInv /\ [Next]_vars => ReplayInv'
<1> SUFFICES ASSUME ReplayInv, [Next]_vars PROVE ReplayAccepted'
  BY TypedStep, OriginsStep DEF ReplayInv
<1>1. Typed /\ Origins /\ ReplayAccepted
  BY DEF ReplayInv
<1>2. SUFFICES Excused(verdict', surface', model', keys', transcript', answers', options')
  BY ReplayIs
<1>3. Excused(verdict, surface, model, keys, transcript, answers, options)
  BY <1>1, ReplayIs
<1>4. CASE verdict' \in {None, "accepted"}
  BY <1>4, ExcusedNone
<1>5. CASE Submit /\ Refusal(options) # None
  BY <1>1, <1>5, RefusedExcused DEF Submit
<1>6. CASE AnswerCall
  <2>1. PICK i \in DOMAIN unanswered : transcript' = Append(transcript, Answer(unanswered[i]))
    BY <1>6 DEF AnswerCall
  <2>2. Grows(transcript, transcript')
    <3>1. /\ surface \in Sides /\ transcript \in Seq(Sent(surface))
          /\ unanswered \in Seq(Callable(surface))
      BY <1>1, TypedParts
    <3> DEFINE msg == Answer(unanswered[i])
    <3>2. unanswered[i] \in Callable(surface)
      BY <3>1
    <3>3. msg \in Sent(surface)
      BY <3>1, <3>2, AnswerType
    <3> HIDE DEF msg
    <3>4. QED
      BY <2>1, <3>1, <3>3 DEF Grows, msg
  <2>3. QED
    BY <1>3, <1>6, <2>2, ExcusedLater DEF AnswerCall
<1>7. CASE UNCHANGED vars
  BY <1>3, <1>7 DEF vars
<1>8. CASE Submit /\ Refusal(options) = None
  BY <1>4, <1>8 DEF Submit
<1>9. CASE Ask \/ Resend \/ Reconsider \/ Restart \/ Reply \/ Fail
  BY <1>4, <1>9 DEF Ask, Resend, Reconsider, Restart, Reply, Fail
<1>10. QED
  BY <1>5, <1>6, <1>7, <1>8, <1>9 DEF Next

(* A client that hands back what it was given is refused only for what it  *)
(* or the operator has to answer for: of the messages that the gateway     *)
(* wrote none is held against it, unless its key is gone or its reasoning  *)
(* came without a signature (translate.rs 436-545, responses_translate.rs  *)
(* 489-650).                                                               *)
THEOREM ReplayServed == Spec => []ReplayAccepted
<1>1. Init => ReplayInv
  BY TypedInit, OriginsInit DEF Init, ReplayInv, ReplayAccepted, None
<1>2. ReplayInv => ReplayAccepted
  BY DEF ReplayInv
<1>3. QED
  BY <1>1, <1>2, ReplayStep, PTL DEF Spec

(***************************************************************************)
(* Results and calls, said of values.                                      *)
(***************************************************************************)
IdOn(side, call) == IF side = "chat" THEN call.wire.id ELSE call.id
OpenOf(side, open) == {IdOn(side, open[i]) : i \in DOMAIN open}
Apart(side, open) == \A i, j \in DOMAIN open : IdOn(side, open[i]) = IdOn(side, open[j]) => i = j

AnswerOn(side, msg) == side = "chat" /\ msg.role = "tool"

ResendableOf(side, sent, framed) ==
    \A i \in DOMAIN sent :
        (\A j \in i .. Len(sent) : AnswerOn(side, sent[j]))
            => framed # <<>> /\ sent[i].wire.id \in ResultsOf(Last(framed).content)

CallsOk(side, sent, open) ==
    /\ Paired(FramedOf(side, sent), OpenOf(side, open))
    /\ Apart(side, open)
    /\ ResendableOf(side, sent, FramedOf(side, sent))
    /\ side = "responses" => AllSingle(FramedOf(side, sent))

LEMMA FramedNow ==
    /\ Framed = FramedOf(surface, transcript)
    /\ Framed' = FramedOf(surface', transcript')
  BY DEF Framed, Turns, FramedOf, TurnsIn

LEMMA CallsAre ==
    /\ CallsAnswered <=> CallsOk(surface, transcript, unanswered)
    /\ CallsAnswered' <=> CallsOk(surface', transcript', unanswered')
<1>1. CallsAnswered <=> CallsOk(surface, transcript, unanswered)
  <2>1. Open = OpenOf(surface, unanswered)
    BY DEF Open, OpenOf, IdOf, IdOn
  <2>2. QED
    BY <2>1, FramedNow DEF CallsAnswered, CallsOk, Apart, AllSingle, Resendable, ResendableOf,
       IsAnswer, AnswerOn, IdOf, IdOn
<1>2. CallsAnswered' <=> CallsOk(surface', transcript', unanswered')
  <2>1. Open' = OpenOf(surface', unanswered')
    BY DEF Open, OpenOf, IdOf, IdOn
  <2>2. QED
    BY <2>1, FramedNow DEF CallsAnswered, CallsOk, AllSingle, Apart, IdOf, IdOn, Resendable,
       ResendableOf, IsAnswer, AnswerOn
<1>3. QED
  BY <1>1, <1>2

\* When the last message is no answer, nothing can be resent.
LEMMA NothingToResend ==
    ASSUME NEW side, NEW T, NEW sent \in Seq(T), NEW msg \in T, ~ AnswerOn(side, msg), NEW framed
    PROVE  ResendableOf(side, Append(sent, msg), framed)
<1> DEFINE new == Append(sent, msg)
<1>1. /\ Len(new) = Len(sent) + 1 /\ Len(sent) \in Nat /\ DOMAIN new = 1 .. Len(sent) + 1
      /\ new[Len(sent) + 1] = msg
  OBVIOUS
<1> HIDE DEF new
<1>2. ASSUME NEW i \in DOMAIN new PROVE ~ \A j \in i .. Len(new) : AnswerOn(side, new[j])
  BY <1>1
<1>3. QED
  BY <1>2 DEF ResendableOf, new

LEMMA HeardTurn ==
    ASSUME NEW side, NEW framed, NEW msg, NEW t, TurnsOf(side, msg) = <<t>>
    PROVE  Heard(side, framed, msg) = Place(side, framed, t)
<1>1. QED
  BY DEF Heard

LEMMA PlacedSaid ==
    ASSUME NEW side, NEW framed \in Seq(AllTurns), NEW open, Paired(framed, open),
           NEW t \in AllTurns, t.role = "assistant", ResultsOf(t.content) = {}, Single(t.content),
           MayFollow(side, framed, open, t.content)
    PROVE  LET r == Place(side, framed, t)
           IN  /\ Called(r, open, CallsOf(t.content)) /\ r \in Seq(AllTurns)
               /\ AllSingle(framed) => AllSingle(r)
<1>1. Place(side, framed, t) \in Seq(AllTurns)
  BY PlaceType
<1>2. QED
  BY <1>1, PlaceSaid, PlaceSingle

\* A message that becomes a question, or no turn at all.
LEMMA HeardQuestion ==
    ASSUME NEW side, NEW framed \in Seq(AllTurns), Paired(framed, {}), NEW msg,
           TurnsOf(side, msg) = <<>>
             \/ \E t \in AllTurns : /\ TurnsOf(side, msg) = <<t>> /\ t.role = "user"
                                    /\ ResultsOf(t.content) = {} /\ Single(t.content)
    PROVE  /\ Paired(Heard(side, framed, msg), {})
           /\ AllSingle(framed) => AllSingle(Heard(side, framed, msg))
<1>1. CASE TurnsOf(side, msg) = <<>>
  BY <1>1 DEF Heard
<1>2. ASSUME NEW t \in AllTurns, TurnsOf(side, msg) = <<t>>, t.role = "user",
             ResultsOf(t.content) = {}, Single(t.content)
      PROVE  /\ Paired(Heard(side, framed, msg), {})
             /\ AllSingle(framed) => AllSingle(Heard(side, framed, msg))
  <2>1. Paired(Place(side, framed, t), {})
    BY <1>2, PlaceQuestion
  <2>2. QED
    BY <1>2, <2>1, PlaceSingle DEF Heard
<1>3. QED
  BY <1>1, <1>2

\* A message that becomes the answer to a call: one that is open, or one that has
\* its result already.
LEMMA HeardResult ==
    ASSUME NEW side, NEW framed \in Seq(AllTurns), NEW open, Paired(framed, open), NEW msg,
           NEW id \in Int, TurnsOf(side, msg) = <<Turn("user", <<ToolResult(id)>>)>>,
           id \in open \/ (framed # <<>> /\ id \in ResultsAt(framed, Len(framed)))
    PROVE  LET r == Heard(side, framed, msg)
           IN  /\ Paired(r, open \ {id}) /\ r \in Seq(AllTurns) /\ r # <<>>
               /\ id \in ResultsAt(r, Len(r))
               /\ framed # <<>> => ResultsAt(framed, Len(framed)) \subseteq ResultsAt(r, Len(r))
               /\ AllSingle(framed) /\ id \in open => AllSingle(r)
               /\ id \notin open => open \ {id} = open
<1> DEFINE t == Turn("user", <<ToolResult(id)>>)
           r == Heard(side, framed, msg)
<1>1. /\ t \in AllTurns /\ t.role = "user" /\ ResultsOf(t.content) = {id} /\ Single(t.content)
  BY ResultTurn
<1> HIDE DEF t
<1>2. r = Place(side, framed, t)
  BY DEF Heard, t
<1>3. /\ Paired(r, open \ {id})
      /\ id \in ResultsAt(r, Len(r))
      /\ framed # <<>> => ResultsAt(framed, Len(framed)) \subseteq ResultsAt(r, Len(r))
  <2>1. LET p == Place(side, framed, t)
        IN  /\ Paired(p, open \ {id})
            /\ id \in ResultsAt(p, Len(p))
            /\ framed # <<>> => ResultsAt(framed, Len(framed)) \subseteq ResultsAt(p, Len(p))
    BY <1>1, PlaceResult
  <2>2. QED
    BY <1>2, <2>1
<1>4. r \in Seq(AllTurns)
  BY <1>1, <1>2, PlaceType
<1>5. r # <<>>
  <2> HIDE DEF r
  <2>1. \/ Len(r) = Len(framed) + 1
        \/ framed # <<>> /\ Len(r) = Len(framed)
    BY <1>1, <1>2, PlaceType DEF Appended, Extended
  <2>2. Len(r) # 0
    BY <2>1, EmptySeq
  <2>3. QED
    BY <1>4, <2>2, EmptySeq
<1>6. ASSUME framed # <<>>, ResultsAt(framed, Len(framed)) # {}
      PROVE  ResultsAt(framed, Len(framed)) \cap open = {}
  BY <1>6, CallsApart, LastTurns
<1>7. ASSUME AllSingle(framed), id \in open PROVE AllSingle(r)
  BY <1>1, <1>2, <1>6, <1>7, PlaceSingle
<1>8. QED
  BY <1>3, <1>4, <1>5, <1>7

\* A message that becomes a turn of the assistant, or none.
LEMMA HeardSaid ==
    ASSUME NEW side, NEW framed \in Seq(AllTurns), NEW open, Paired(framed, open), NEW msg,
           NEW c, TurnsOf(side, msg) = IF c = <<>> THEN <<>> ELSE <<Turn("assistant", c)>>,
           c \in Seq(Answered), MayFollow(side, framed, open, c)
    PROVE  LET r == Heard(side, framed, msg)
           IN  /\ Called(r, open, CallsOf(c)) /\ r \in Seq(AllTurns)
               /\ AllSingle(framed) => AllSingle(r)
<1> DEFINE t == Turn("assistant", c)
           r == Heard(side, framed, msg)
<1>1. CASE c = <<>>
  <2>1. CallsOf(c) = {}
    BY <1>1 DEF CallsOf
  <2>2. QED
    BY <1>1, <2>1 DEF Heard, Called, MayFollow
<1>2. ASSUME c # <<>>
      PROVE  /\ Called(r, open, CallsOf(c)) /\ r \in Seq(AllTurns)
             /\ AllSingle(framed) => AllSingle(r)
  <2>1. /\ t \in AllTurns /\ t.role = "assistant" /\ t.content = c
        /\ ResultsOf(t.content) = {} /\ Single(t.content)
    BY <1>2, SaidTurn
  <2>2. TurnsOf(side, msg) = <<t>>
    BY <1>2
  <2> HIDE DEF t
  <2>3. r = Place(side, framed, t)
    BY <2>2, HeardTurn
  <2> HIDE DEF r
  <2>4. QED
    BY <2>1, <2>3, PlacedSaid
<1>3. QED
  BY <1>1, <1>2

(***************************************************************************)
(* Calls and results over the steps.                                       *)
(***************************************************************************)
LEMMA NothingOpen ==
    ASSUME NEW side
    PROVE  OpenOf(side, <<>>) = {} /\ Apart(side, <<>>)
<1>1. QED
  BY DEF OpenOf, Apart

\* A message of the user or the system leaves calls and results as they are.
LEMMA SpokenCalls ==
    ASSUME NEW side \in Sides, NEW sent \in Seq(Sent(side)), NEW msg \in Sent(side),
           CallsOk(side, sent, <<>>), msg.role \in {"system", "user"},
           side # "chat" => msg.type = "message"
    PROVE  CallsOk(side, Append(sent, msg), <<>>)
<1> DEFINE framed == FramedOf(side, sent)
           now == FramedOf(side, Append(sent, msg))
           c == Among(msg.parts, Spoken \ {Blank})
<1>1. framed \in Seq(AllTurns) /\ now = Heard(side, framed, msg)
  BY FramedType, FramedAppend
<1>2. Paired(framed, {}) /\ (side = "responses" => AllSingle(framed))
  BY NothingOpen DEF CallsOk
<1>3. msg.parts \in Seq(Spoken)
  <2>1. CASE side = "chat"
    BY <2>1, ChatMessageKinds DEF Sent
  <2>2. CASE side # "chat"
    BY <2>2, InputItemKinds DEF Sent
  <2>3. QED
    BY <2>1, <2>2
<1>4. \/ TurnsOf(side, msg) = <<>>
      \/ TurnsOf(side, msg) = <<Turn("user", c)>> /\ c # <<>>
  <2>1. CASE side = "chat"
    BY <2>1, ChatTurns DEF TurnsOf
  <2>2. CASE side # "chat"
    BY <2>2, InputTurns DEF TurnsOf
  <2>3. QED
    BY <2>1, <2>2
<1>5. \/ TurnsOf(side, msg) = <<>>
      \/ \E t \in AllTurns : /\ TurnsOf(side, msg) = <<t>> /\ t.role = "user"
                             /\ ResultsOf(t.content) = {} /\ Single(t.content)
  BY <1>3, <1>4, QuestionTurn
<1> HIDE DEF framed, now, c
<1>6. ~ AnswerOn(side, msg)
  BY DEF AnswerOn
<1>7. QED
  BY <1>1, <1>2, <1>5, <1>6, NothingOpen, NothingToResend, HeardQuestion DEF CallsOk, now

LEMMA EmptyCalls ==
    ASSUME NEW side
    PROVE  CallsOk(side, <<>>, <<>>)
<1>1. Len(<<>>) = 0 /\ DOMAIN <<>> = {}
  OBVIOUS
<1>2. Paired(<<>>, {})
  BY <1>1 DEF Paired
<1>3. QED
  BY <1>1, <1>2, NothingOpen, FramedNothing DEF CallsOk, ResendableOf, AllSingle

\* What a question appends: in a new conversation the opener goes first.
LEMMA AskAppends ==
    ASSUME Typed, Ask
    PROVE  \E o, q \in Sent(surface) :
              /\ o.role \in {"system", "user"} /\ q.role \in {"system", "user"}
              /\ surface # "chat" => o.type = "message" /\ q.type = "message"
              /\ transcript' = IF transcript = <<>> THEN Append(Append(<<>>, o), q)
                               ELSE Append(transcript, q)
<1>1. PICK parts \in Parts(asks + 1) :
         transcript' = transcript \o Opening(transcript = <<>>) \o <<Question(parts)>>
  BY DEF Ask
<1>2. /\ surface \in Sides /\ transcript \in Seq(Sent(surface)) /\ asks \in 0 .. MaxAsks
      /\ MaxAsks \in Nat
  BY TypedParts, BoundsAssumption
<1> DEFINE q == QuestionOf(surface, parts)
           o == OpenerOf(surface)
           T == Sent(surface)
<1>3. q \in T /\ o \in T /\ Question(parts) = q
  <2>1. Question(parts) \in T
    BY <1>2, QuestionType
  <2>2. <<Text(0)>> \in Seq(Spoken)
    BY TextBlock, OneSeq
  <2>3. QED
    BY <1>2, <2>1, <2>2, QuestionsAre, SpokenMessage DEF OpenerOf, Sent, Sides
<1>4. Opening(TRUE) = <<o>>
  <2> DEFINE a == [role |-> "system", parts |-> <<Text(0)>>]
             b == [type |-> "message", role |-> "system", parts |-> <<Text(0)>>]
  <2>1. Opening(TRUE) = IF surface = "chat" THEN <<a>> ELSE <<b>>
    BY DEF Opening
  <2>2. o = IF surface = "chat" THEN a ELSE b
    BY DEF OpenerOf
  <2> HIDE DEF a, b, o
  <2>3. QED
    BY <2>1, <2>2
<1>5. /\ o.role \in {"system", "user"} /\ q.role \in {"system", "user"}
      /\ surface # "chat" => o.type = "message" /\ q.type = "message"
  BY QuestionFields
<1>6. transcript' = (transcript \o Opening(transcript = <<>>)) \o <<q>>
  BY <1>1, <1>3
<1>7. transcript \in Seq(T)
  BY <1>2
<1> HIDE DEF q, o, T
<1>8. CASE transcript = <<>>
  <2>1. Opening(transcript = <<>>) = <<o>>
    BY <1>4, <1>8
  <2>2. transcript' = (<<>> \o <<o>>) \o <<q>>
    BY <1>6, <1>8, <2>1
  <2>3. QED
    BY <1>3, <1>5, <1>8, <2>2 DEF T
<1>9. CASE transcript # <<>>
  <2>1. Opening(transcript = <<>>) = <<>>
    BY <1>9 DEF Opening
  <2>2. QED
    BY <1>3, <1>5, <1>6, <1>7, <1>9, <2>1 DEF T
<1>10. QED
  BY <1>8, <1>9

LEMMA AskCalls == Typed /\ CallsAnswered /\ Ask => CallsAnswered'
<1> SUFFICES ASSUME Typed, CallsAnswered, Ask PROVE CallsAnswered'
  OBVIOUS
<1>1. PICK o, q \in Sent(surface) :
              /\ o.role \in {"system", "user"} /\ q.role \in {"system", "user"}
              /\ surface # "chat" => o.type = "message" /\ q.type = "message"
              /\ transcript' = IF transcript = <<>> THEN Append(Append(<<>>, o), q)
                               ELSE Append(transcript, q)
  BY AskAppends
<1>2. surface \in Sides /\ transcript \in Seq(Sent(surface)) /\ <<>> \in Seq(Sent(surface))
  BY TypedParts, EmptySeq
<1>3. surface' = surface /\ unanswered = <<>> /\ unanswered' = <<>>
  BY DEF Ask
<1>4. CallsOk(surface, transcript', <<>>)
  <2>1. CASE transcript = <<>>
    <3> DEFINE one == Append(<<>>, o)
    <3>1. one \in Seq(Sent(surface))
      BY <1>2
    <3>2. CallsOk(surface, one, <<>>)
      BY <1>1, <1>2, SpokenCalls, EmptyCalls
    <3>3. transcript' = Append(one, q)
      BY <1>1, <2>1
    <3> HIDE DEF one
    <3>4. QED
      BY <1>1, <1>2, <3>1, <3>2, <3>3, SpokenCalls
  <2>2. CASE transcript # <<>>
    BY <1>1, <1>2, <1>3, <2>2, SpokenCalls, CallsAre
  <2>3. QED
    BY <2>1, <2>2
<1>5. QED
  BY <1>3, <1>4, CallsAre

\* One call less: the call that was answered.
LEMMA RemovedOpen ==
    ASSUME NEW side \in Sides, NEW T, NEW open \in Seq(T), NEW i \in DOMAIN open, Apart(side, open)
    PROVE  /\ OpenOf(side, RemoveAt(open, i)) = OpenOf(side, open) \ {IdOn(side, open[i])}
           /\ Apart(side, RemoveAt(open, i))
<1> DEFINE r == RemoveAt(open, i)
           n == Len(open)
           id(k) == IdOn(side, open[k])
<1>1. /\ r \in Seq(T) /\ Len(r) = n - 1
      /\ \A k \in 1 .. n - 1 : r[k] = IF k < i THEN open[k] ELSE open[k + 1]
  BY RemoveType
<1>2. n \in Nat /\ DOMAIN open = 1 .. n /\ i \in 1 .. n /\ DOMAIN r = 1 .. n - 1
  BY <1>1
<1> HIDE DEF r, n
<1>3. \A j, k \in 1 .. n : id(j) = id(k) => j = k
  BY <1>2 DEF Apart
<1>4. \A k \in 1 .. n - 1 : IdOn(side, r[k]) = IF k < i THEN id(k) ELSE id(k + 1)
  BY <1>1
<1> HIDE DEF id
<1>5. OpenOf(side, open) = {id(k) : k \in 1 .. n}
  BY <1>2 DEF OpenOf, id
<1>6. OpenOf(side, r) = {IdOn(side, r[k]) : k \in 1 .. n - 1}
  BY <1>2 DEF OpenOf
<1>7. ASSUME NEW x \in OpenOf(side, r) PROVE x \in OpenOf(side, open) \ {id(i)}
  <2>1. PICK k \in 1 .. n - 1 : x = IdOn(side, r[k])
    BY <1>6
  <2>2. PICK j \in 1 .. n : x = id(j) /\ j # i
    <3>1. CASE k < i
      BY <1>2, <1>4, <2>1, <3>1
    <3>2. CASE ~ (k < i)
      BY <1>2, <1>4, <2>1, <3>2
    <3>3. QED
      BY <3>1, <3>2
  <2>3. QED
    BY <1>2, <1>3, <1>5, <2>2
<1>8. ASSUME NEW x \in OpenOf(side, open) \ {id(i)} PROVE x \in OpenOf(side, r)
  <2>1. PICK j \in 1 .. n : x = id(j)
    BY <1>5
  <2>2. j # i
    BY <2>1
  <2>3. \E k \in 1 .. n - 1 : x = IdOn(side, r[k])
    <3>1. CASE j < i
      BY <1>2, <1>4, <2>1, <3>1
    <3>2. CASE j > i
      <4>1. j - 1 \in 1 .. n - 1 /\ ~ (j - 1 < i) /\ (j - 1) + 1 = j
        BY <1>2, <3>2
      <4>2. QED
        BY <1>4, <2>1, <4>1
    <3>3. QED
      BY <1>2, <2>2, <3>1, <3>2
  <2>4. QED
    BY <1>6, <2>3
<1>9. Apart(side, r)
  <2>1. ASSUME NEW j \in 1 .. n - 1, NEW k \in 1 .. n - 1, IdOn(side, r[j]) = IdOn(side, r[k])
        PROVE  j = k
    <3> DEFINE a == IF j < i THEN j ELSE j + 1
               b == IF k < i THEN k ELSE k + 1
    <3>1. a = b
      BY <1>2, <1>3, <1>4, <2>1
    <3>2. QED
      BY <1>2, <3>1
  <2>2. QED
    BY <1>2, <2>1 DEF Apart
<1>10. QED
  BY <1>7, <1>8, <1>9 DEF r, id

\* What can be resent after a result: this result, and what could be before it.
LEMMA ResultResends ==
    ASSUME NEW side, NEW T, NEW sent \in Seq(T), NEW msg \in T, NEW framed, NEW now,
           ResendableOf(side, sent, framed), now # <<>>,
           side = "chat" => msg.wire.id \in ResultsAt(now, Len(now)),
           framed # <<>> => ResultsAt(framed, Len(framed)) \subseteq ResultsAt(now, Len(now))
    PROVE  ResendableOf(side, Append(sent, msg), now)
<1> DEFINE new == Append(sent, msg)
           n == Len(sent)
<1>1. /\ n \in Nat /\ DOMAIN sent = 1 .. n /\ DOMAIN new = 1 .. n + 1 /\ Len(new) = n + 1
      /\ new[n + 1] = msg /\ \A j \in 1 .. n : new[j] = sent[j]
  OBVIOUS
<1> HIDE DEF new, n
<1>2. /\ ResultsOf(Last(now).content) = ResultsAt(now, Len(now))
      /\ ResultsOf(Last(framed).content) = ResultsAt(framed, Len(framed))
  BY DEF ResultsAt, Last
<1>3. ASSUME NEW i \in DOMAIN new, \A j \in i .. Len(new) : AnswerOn(side, new[j])
      PROVE  new[i].wire.id \in ResultsAt(now, Len(now))
  <2>1. i \in 1 .. n + 1
    BY <1>1
  <2>2. side = "chat"
    BY <1>1, <1>3, <2>1 DEF AnswerOn
  <2>3. CASE i = n + 1
    BY <1>1, <2>2, <2>3
  <2>4. CASE i # n + 1
    <3>1. i \in DOMAIN sent
      BY <1>1, <2>1, <2>4
    <3>2. ASSUME NEW j \in i .. n PROVE AnswerOn(side, sent[j])
      BY <1>1, <1>3, <2>1
    <3>3. QED
      BY <1>1, <1>2, <3>1, <3>2 DEF ResendableOf, n
  <2>5. QED
    BY <2>3, <2>4
<1>4. QED
  BY <1>2, <1>3 DEF ResendableOf, new

\* A result, said of the whole transcript.
LEMMA ResultCalls ==
    ASSUME NEW side \in Sides, NEW sent \in Seq(Sent(side)), NEW msg \in Sent(side), NEW open,
           CallsOk(side, sent, open), NEW id \in Int,
           TurnsOf(side, msg) = <<Turn("user", <<ToolResult(id)>>)>>,
           side = "chat" => msg.wire.id = id,
           NEW framed, framed = FramedOf(side, sent),
           id \in OpenOf(side, open) \/ (framed # <<>> /\ id \in ResultsAt(framed, Len(framed)))
    PROVE  LET now == FramedOf(side, Append(sent, msg))
           IN  /\ Paired(now, OpenOf(side, open) \ {id})
               /\ ResendableOf(side, Append(sent, msg), now)
               /\ side = "responses" /\ id \in OpenOf(side, open) => AllSingle(now)
<1> DEFINE now == FramedOf(side, Append(sent, msg))
           o == OpenOf(side, open)
<1>1. framed \in Seq(AllTurns) /\ now = Heard(side, framed, msg)
  BY FramedType, FramedAppend
<1>2. Paired(framed, o) /\ ResendableOf(side, sent, framed)
  BY DEF CallsOk
<1>3. side = "responses" => AllSingle(framed)
  BY DEF CallsOk
<1> HIDE DEF now, o
<1>4. id \in o \/ (framed # <<>> /\ id \in ResultsAt(framed, Len(framed)))
  BY DEF o
<1>5. /\ Paired(now, o \ {id}) /\ now # <<>>
      /\ id \in ResultsAt(now, Len(now))
      /\ framed # <<>> => ResultsAt(framed, Len(framed)) \subseteq ResultsAt(now, Len(now))
      /\ AllSingle(framed) /\ id \in o => AllSingle(now)
  BY <1>1, <1>2, <1>4, HeardResult
<1>6. QED
  BY <1>2, <1>3, <1>5, ResultResends DEF now, o

LEMMA AnswerCalls == Typed /\ CallsAnswered /\ AnswerCall => CallsAnswered'
<1> SUFFICES ASSUME Typed, CallsAnswered, AnswerCall PROVE CallsAnswered'
  OBVIOUS
<1>1. PICK i \in DOMAIN unanswered :
         /\ transcript' = Append(transcript, Answer(unanswered[i]))
         /\ unanswered' = RemoveAt(unanswered, i)
  BY DEF AnswerCall
<1>2. /\ surface \in Sides /\ transcript \in Seq(Sent(surface))
      /\ unanswered \in Seq(Callable(surface))
  BY TypedParts
<1> DEFINE call == unanswered[i]
           msg == Answer(call)
           id == IdOf(call)
           framed == FramedOf(surface, transcript)
<1>3. call \in Callable(surface)
  BY <1>2
<1>4. id = IdOn(surface, unanswered[i])
  BY DEF IdOf, IdOn
<1> HIDE DEF call
<1>5. msg \in Sent(surface) /\ id \in Int /\ TurnsOf(surface, msg) = <<Turn("user", <<ToolResult(id)>>)>>
  BY <1>2, <1>3, AnswerType
<1>6. surface = "chat" => msg.wire.id = id
  BY DEF Answer, IdOf
<1>7. transcript' = Append(transcript, msg)
  BY <1>1 DEF call
<1>8. CallsOk(surface, transcript, unanswered)
  BY CallsAre
<1>9. id \in OpenOf(surface, unanswered)
  BY <1>4 DEF OpenOf
<1> HIDE DEF msg, id, framed
<1>10. LET now == FramedOf(surface, Append(transcript, msg))
       IN  /\ Paired(now, OpenOf(surface, unanswered) \ {id})
           /\ ResendableOf(surface, Append(transcript, msg), now)
           /\ surface = "responses" /\ id \in OpenOf(surface, unanswered) => AllSingle(now)
  BY <1>2, <1>5, <1>6, <1>8, <1>9, ResultCalls DEF framed
<1>11. CallsOk(surface, transcript', unanswered')
  BY <1>1, <1>2, <1>4, <1>7, <1>8, <1>9, <1>10, RemovedOpen DEF CallsOk
<1>12. QED
  BY <1>11, CallsAre DEF AnswerCall

LEMMA ResendCalls == Typed /\ CallsAnswered /\ Resend => CallsAnswered'
<1> SUFFICES ASSUME Typed, CallsAnswered, Resend PROVE CallsAnswered'
  OBVIOUS
<1>1. PICK i \in DOMAIN transcript :
         /\ \A j \in i .. Len(transcript) : AnswerOn(surface, transcript[j])
         /\ transcript' = Append(transcript, transcript[i])
  BY DEF Resend, IsAnswer, AnswerOn
<1>2. surface \in Sides /\ transcript \in Seq(Sent(surface))
  BY TypedParts
<1>3. surface' = surface /\ unanswered' = unanswered
  BY DEF Resend
<1> DEFINE msg == transcript[i]
           id == msg.wire.id
           framed == FramedOf(surface, transcript)
           open == OpenOf(surface, unanswered)
<1>4. i \in i .. Len(transcript) /\ msg \in Sent(surface)
  BY <1>2
<1>5. surface = "chat" /\ msg.role = "tool"
  BY <1>1, <1>4 DEF AnswerOn
<1>6. id \in Int /\ TurnsOf(surface, msg) = <<Turn("user", <<ToolResult(id)>>)>>
  <2> HIDE DEF msg
  <2>1. QED
    BY <1>4, <1>5, ChatTurns, ChatMessageKinds DEF TurnsOf, Wires, Sent
<1>7. CallsOk(surface, transcript, unanswered)
  BY CallsAre
<1>8. framed # <<>> /\ id \in ResultsAt(framed, Len(framed))
  BY <1>1, <1>7 DEF CallsOk, ResendableOf, ResultsAt, Last
<1>9. framed \in Seq(AllTurns) /\ Paired(framed, open)
  BY <1>2, <1>7, FramedType DEF CallsOk
<1>10. transcript' = Append(transcript, msg)
  BY <1>1
<1> HIDE DEF msg, id, framed, open
<1>11. open \ {id} = open
  <2> DEFINE m == Len(framed)
  <2>1. QED
    BY <1>8, <1>9, CallsApart, LastTurns
<1>12. LET now == FramedOf(surface, Append(transcript, msg))
       IN  /\ Paired(now, OpenOf(surface, unanswered) \ {id})
           /\ ResendableOf(surface, Append(transcript, msg), now)
  BY <1>2, <1>4, <1>6, <1>7, <1>8, ResultCalls DEF framed, id
<1>13. CallsOk(surface, transcript', unanswered')
  BY <1>3, <1>5, <1>7, <1>10, <1>11, <1>12 DEF CallsOk, open
<1>14. QED
  BY <1>3, <1>13, CallsAre

\* The calls of an answer have different numbers.
LEMMA UsesApart ==
    ASSUME NEW content, NEW shape, NEW base \in Int, Fills(content, shape, base),
           NEW u, u = Of(content, "toolUse")
    PROVE  /\ \A i, j \in DOMAIN u : u[i].of = u[j].of => i = j
           /\ \A i \in DOMAIN u : u[i] \in BlocksOf({"toolUse"})
<1> DEFINE P == {k \in DOMAIN content : content[k] \in BlocksOf({"toolUse"})}
<1>1. content \in Seq(Answered)
  BY DEF Fills
<1>2. PICK x : Places(x, u, content, P)
  BY <1>1, AtPlaces, AmongAt DEF Of
<1>3. ASSUME NEW i \in 1 .. Len(u) PROVE x[i] \in 1 .. Len(content) /\ u[i].of = base + x[i]
  <2>1. x[i] \in DOMAIN content /\ u[i] = content[x[i]]
    BY <1>2 DEF Places
  <2>2. QED
    BY <1>1, <2>1 DEF Fills
<1> HIDE DEF P
<1>4. ASSUME NEW i \in 1 .. Len(u), NEW j \in 1 .. Len(u), u[i].of = u[j].of PROVE i = j
  <2>1. x[i] = x[j]
    BY <1>3, <1>4
  <2>2. QED
    BY <1>2, <2>1 DEF Places
<1>5. QED
  BY <1>1, <1>4, OfType

\* Off the chat surface nothing is resent.
LEMMA NoneResends ==
    ASSUME NEW side, side # "chat", NEW T, NEW sent \in Seq(T), NEW framed
    PROVE  ResendableOf(side, sent, framed)
<1>1. ASSUME NEW i \in DOMAIN sent PROVE ~ \A j \in i .. Len(sent) : AnswerOn(side, sent[j])
  BY DEF AnswerOn
<1>2. QED
  BY <1>1 DEF ResendableOf

LEMMA ChatCallsOk ==
    ASSUME NEW sent \in Seq(ChatMessages), CallsOk("chat", sent, <<>>),
           NEW content, NEW shape, NEW base \in Int, Fills(content, shape, base),
           NEW ring \in Keyrings, NEW message, ChatAnswered(message, content, ring)
    PROVE  CallsOk("chat", Append(sent, message), message.calls)
<1> DEFINE side == "chat"
           framed == FramedOf(side, sent)
           now == FramedOf(side, Append(sent, message))
           c == AssistantContent(message)
           calls == message.calls
           u == Of(content, "toolUse")
<1>1. /\ message \in ChatMessages /\ message.role = "assistant" /\ calls \in Seq(ChatCalls)
      /\ message.think \in Seq(Int) /\ message.parts \in Seq(BlocksOf({"text"}))
      /\ DOMAIN calls = DOMAIN u
      /\ \A i \in DOMAIN u : calls[i].wire = WireOf(content, ring, u[i].of)
  BY DEF ChatAnswered
<1>2. \A i \in DOMAIN u : calls[i].wire.id = u[i].of
  <2>1. SUFFICES ASSUME NEW i \in DOMAIN u PROVE calls[i].wire.id = u[i].of
    OBVIOUS
  <2>2. u[i] \in BlocksOf({"toolUse"})
    BY UsesApart
  <2> HIDE DEF u
  <2>3. u[i].of \in Int
    BY <2>2, BlockKind
  <2>4. QED
    BY <1>1, <2>3, WireIs DEF Fills
<1>3. \A i, j \in DOMAIN u : u[i].of = u[j].of => i = j
  BY UsesApart
<1> HIDE DEF u
<1>4. c \in Seq(Answered) /\ CallsOf(c) = OpenOf(side, calls)
  BY <1>1, AssistantType DEF OpenOf, IdOn
<1>5. TurnsOf(side, message) = IF c = <<>> THEN <<>> ELSE <<Turn("assistant", c)>>
  BY <1>1, ChatTurns DEF TurnsOf
<1>6. sent \in Seq(Sent(side)) /\ message \in Sent(side)
  BY <1>1 DEF Sent
<1>7. framed \in Seq(AllTurns) /\ now = Heard(side, framed, message)
  BY <1>6, FramedType, FramedAppend
<1>8. Paired(framed, {})
  BY NothingOpen DEF CallsOk
<1>9. MayFollow(side, framed, {}, c)
  BY DEF MayFollow
<1>10. ResendableOf(side, Append(sent, message), now)
  BY <1>1, <1>6, NothingToResend DEF AnswerOn
<1> HIDE DEF side, framed, now, c, calls
<1>11. Called(now, {}, CallsOf(c))
  BY <1>4, <1>5, <1>7, <1>8, <1>9, HeardSaid
<1>12. Paired(now, OpenOf(side, calls))
  BY <1>4, <1>11 DEF Called
<1>13. QED
  BY <1>1, <1>2, <1>3, <1>10, <1>12 DEF CallsOk, side, now, calls, Apart, IdOn

\* While the items of one answer are appended: its calls so far are open, and they
\* stand in the last turn.
SaidSoFar(sent, open) ==
    LET framed == FramedOf("responses", sent)
    IN  /\ sent \in Seq(InputItems) /\ Paired(framed, open) /\ AllSingle(framed)
        /\ open # {} => CallsAt(framed, Len(framed)) = open

LEMMA AnswerItem ==
    ASSUME NEW sent, NEW open, SaidSoFar(sent, open), NEW item \in InputItems,
           NEW c \in Seq(Answered), ItemTurns(item) = IF c = <<>> THEN <<>> ELSE <<Turn("assistant", c)>>,
           open = {} \/ (CallsOf(c) # {} /\ ~ Carries(c, "reasoning"))
    PROVE  SaidSoFar(Append(sent, item), open \cup CallsOf(c))
<1> DEFINE side == "responses"
           framed == FramedOf(side, sent)
           now == FramedOf(side, Append(sent, item))
           calls == CallsOf(c)
<1>1. /\ sent \in Seq(InputItems) /\ Paired(framed, open) /\ AllSingle(framed)
      /\ open # {} => CallsAt(framed, Len(framed)) = open
  BY DEF SaidSoFar
<1>2. framed \in Seq(AllTurns) /\ now = Heard(side, framed, item)
  BY <1>1, FramedType, FramedAppend DEF Sent
<1>3. TurnsOf(side, item) = IF c = <<>> THEN <<>> ELSE <<Turn("assistant", c)>>
  BY DEF TurnsOf
<1>4. MayFollow(side, framed, open, c)
  BY <1>1 DEF MayFollow
<1> HIDE DEF side, framed, now
<1>5. Called(now, open, calls) /\ (AllSingle(framed) => AllSingle(now))
  BY <1>1, <1>2, <1>3, <1>4, HeardSaid
<1>6. open \cup calls # {} => calls # {}
  OBVIOUS
<1>7. Append(sent, item) \in Seq(InputItems)
  BY <1>1
<1> HIDE DEF calls
<1>8. QED
  BY <1>1, <1>5, <1>6, <1>7 DEF SaidSoFar, now, side, calls, Called

LEMMA ThoughtSaid ==
    ASSUME NEW sent, SaidSoFar(sent, {}), NEW content \in Seq(Answered),
           NEW items, items = ThoughtItems(content) \/ items = SaidItems(content)
    PROVE  SaidSoFar(sent \o items, {})
<1>1. sent \in Seq(InputItems)
  BY DEF SaidSoFar
<1>2. CASE items = <<>>
  BY <1>1, <1>2
<1>3. CASE items # <<>>
  <2>1. PICK item \in InputItems, c \in Seq(Answered) :
           /\ items = <<item>>
           /\ ItemTurns(item) = IF c = <<>> THEN <<>> ELSE <<Turn("assistant", c)>>
           /\ CallsOf(c) = {}
    <3>1. CASE items = ThoughtItems(content)
      <4>1. PICK item \in InputItems : /\ items = <<item>>
                                       /\ item.type = "reasoning" /\ item.blocks = SealedOf(content)
        BY <1>3, <3>1, ThoughtType
      <4> DEFINE c == SealedOf(content)
      <4>2. c \in Seq(BlocksOf({"reasoning"}))
        BY SealedType
      <4> HIDE DEF c
      <4>3. CallsOf(c) = {}
        BY <4>2, OneKind, IdsNames
      <4>4. QED
        BY <4>1, <4>2, <4>3, InputTurns, AnsweredKinds, SeqWithin DEF c
    <3>2. CASE items = SaidItems(content)
      <4>1. PICK item \in InputItems : /\ items = <<item>>
                                       /\ item.type = "message" /\ item.role = "assistant"
                                       /\ item.parts = OutputText(Of(content, "text"))
        BY <1>3, <3>2, SaidType
      <4> DEFINE c == Among(item.parts, Spoken \ {Blank})
      <4>2. c \in Seq(BlocksOf({"text"}))
        BY <4>1, TextGiven, OfType
      <4>3. ItemTurns(item) = IF c = <<>> THEN <<>> ELSE <<Turn("assistant", c)>>
        BY <4>1, InputTurns
      <4> HIDE DEF c
      <4>4. CallsOf(c) = {}
        BY <4>2, OneKind, IdsNames
      <4>5. QED
        BY <4>1, <4>2, <4>3, <4>4, AnsweredKinds, SeqWithin
    <3>3. QED
      BY <3>1, <3>2
  <2>2. {} \cup CallsOf(c) = {} /\ sent \o items = Append(sent, item)
    BY <1>1, <2>1
  <2>3. QED
    BY <2>1, <2>2, AnswerItem
<1>4. QED
  BY <1>2, <1>3

LEMMA CallsSaid ==
    ASSUME NEW sent, SaidSoFar(sent, {}), NEW calls \in Seq(Calls)
    PROVE  SaidSoFar(sent \o calls, {calls[i].id : i \in DOMAIN calls})
<1> DEFINE ids(r) == {r[i].id : i \in DOMAIN r}
           Q == {r \in Seq(Calls) : SaidSoFar(sent \o r, ids(r))}
           I == InputItems
<1>1. sent \in Seq(I)
  BY DEF SaidSoFar
<1> HIDE DEF I
<1>2. <<>> \in Q
  <2>1. sent \o <<>> = sent /\ ids(<<>>) = {} /\ <<>> \in Seq(Calls)
    BY <1>1, EmptySeq
  <2> HIDE DEF ids
  <2>2. QED
    BY <2>1
<1>3. ASSUME NEW r \in Seq(Calls), NEW e \in Calls, r \in Q PROVE Append(r, e) \in Q
  <2> DEFINE c == <<ToolUse(e.id, Joined(e.ns, e.name))>>
             w == Append(r, e)
  <2>1. e \in I /\ e.type = "call"
    BY DEF Calls, I
  <2>2. c \in Seq(Answered) /\ c # <<>> /\ CallsOf(c) = {e.id} /\ ~ Carries(c, "reasoning")
    BY <2>1, JoinedType, CallContent, InputItemKinds DEF I
  <2>3. ItemTurns(e) = IF c = <<>> THEN <<>> ELSE <<Turn("assistant", c)>>
    BY <2>1, <2>2, InputTurns
  <2> HIDE DEF c
  <2>4. SaidSoFar(Append(sent \o r, e), ids(r) \cup CallsOf(c))
    <3> HIDE DEF ids
    <3>1. QED
      BY <1>3, <2>1, <2>2, <2>3, AnswerItem DEF I
  <2>5. ids(w) = ids(r) \cup {e.id}
    <3>1. /\ DOMAIN w = DOMAIN r \cup {Len(r) + 1} /\ w[Len(r) + 1] = e
          /\ \A i \in DOMAIN r : w[i] = r[i]
      OBVIOUS
    <3> HIDE DEF w
    <3>2. QED
      BY <3>1
  <2>6. sent \o w = Append(sent \o r, e)
    BY <1>1, <2>1, SeqWithin DEF Calls
  <2>7. w \in Seq(Calls)
    OBVIOUS
  <2> HIDE DEF ids, w
  <2>8. QED
    BY <2>2, <2>4, <2>5, <2>6, <2>7 DEF w
<1>4. Seq(Calls) \subseteq Q
  <2> HIDE DEF Q
  <2>1. QED
    BY <1>2, <1>3, SeqInductionSet
<1>5. QED
  BY <1>4

LEMMA ReplyCalls == Typed /\ CallsAnswered /\ Reply => CallsAnswered'
<1> SUFFICES ASSUME Typed, CallsAnswered, Reply PROVE CallsAnswered'
  OBVIOUS
<1>1. PICK shape, content, keep : Replied(shape, content, keep)
  BY ReplyIs
<1>2. /\ content \in Seq(Answered) /\ keep \in BOOLEAN
      /\ Fills(content, shape, 10 * (Len(answers) + 1))
  BY <1>1 DEF Replied, Fills
<1> DEFINE r == Rendered(content, keep)
           base == 10 * (Len(answers) + 1)
<1>3. /\ transcript' = transcript \o r /\ unanswered' = CallsGiven(r) /\ surface' = surface
      /\ phase = "upstream"
  BY <1>1 DEF Replied
<1>4. /\ surface \in Sides /\ transcript \in Seq(Sent(surface)) /\ unanswered = <<>>
      /\ keys \in Keyrings /\ Len(answers) \in Nat
  BY <1>3, TypedParts
<1>5. base \in Int
  BY <1>4
<1> HIDE DEF base
<1>6. Fills(content, shape, base)
  BY <1>2 DEF base
<1>7. CallsOk(surface, transcript, <<>>)
  BY <1>4, CallsAre
<1>8. CASE surface = "chat"
  <2>1. PICK message : r = <<message>> /\ CallsGiven(r) = message.calls /\ ChatAnswered(message, content, keys)
    BY <1>2, <1>8, RenderedType
  <2> HIDE DEF r
  <2>2. transcript \in Seq(ChatMessages)
    BY <1>4, <1>8 DEF Sent
  <2>3. CallsOk("chat", Append(transcript, message), message.calls)
    BY <1>4, <1>5, <1>6, <1>7, <1>8, <2>1, <2>2, ChatCallsOk
  <2>4. transcript' = Append(transcript, message) /\ unanswered' = message.calls
    BY <1>3, <2>1, <2>2 DEF ChatAnswered
  <2>5. QED
    BY <1>3, <1>8, <2>3, <2>4, CallsAre
<1>9. CASE surface # "chat"
  <2> DEFINE t == ThoughtItems(content)
             s == SaidItems(content)
             c == CallItems(content, options.tools)
             u == Of(content, "toolUse")
             side == "responses"
  <2>1. r = (t \o s) \o c /\ CallsGiven(r) = c
    BY <1>2, <1>9, RenderedType
  <2>2. /\ c \in Seq(Calls) /\ DOMAIN c = DOMAIN u
        /\ \A i \in DOMAIN u : CallItem(c[i], options.tools, u[i])
    BY <1>2, CallsType, TypedParts, OptionsType
  <2>3. t \in Seq(InputItems) /\ s \in Seq(InputItems)
    BY <1>2, ThoughtType, SaidType
  <2>4. surface = side /\ transcript \in Seq(InputItems)
    BY <1>4, <1>9 DEF Sent, Sides
  <2> HIDE DEF r
  <2>5. SaidSoFar(transcript \o t, {})
    <3> HIDE DEF s, c, u
    <3>1. QED
      BY <1>2, <1>7, <2>4, ThoughtSaid, NothingOpen DEF CallsOk, SaidSoFar
  <2>6. SaidSoFar((transcript \o t) \o s, {})
    BY <1>2, <2>5, ThoughtSaid
  <2> HIDE DEF t, s
  <2> DEFINE new == ((transcript \o t) \o s) \o c
             ids == {c[i].id : i \in DOMAIN c}
  <2>7. SaidSoFar(new, ids)
    <3> HIDE DEF c
    <3>1. QED
      BY <2>2, <2>6, CallsSaid
  <2>8. \A i, j \in DOMAIN u : u[i].of = u[j].of => i = j
    BY <1>5, <1>6, UsesApart
  <2> HIDE DEF c, u
  <2>9. Apart(side, c) /\ OpenOf(side, c) = ids
    <3>1. \A call : IdOn(side, call) = call.id
      BY DEF IdOn
    <3>2. QED
      BY <2>2, <2>8, <3>1 DEF Apart, OpenOf, CallItem
  <2>10. c \in Seq(InputItems)
    BY <2>2, SeqWithin DEF Calls
  <2>11. transcript' = new
    <3> DEFINE I == InputItems
    <3>1. transcript \in Seq(I) /\ t \in Seq(I) /\ s \in Seq(I) /\ c \in Seq(I)
      BY <2>3, <2>4, <2>10
    <3> HIDE DEF I
    <3>2. transcript \o ((t \o s) \o c) = ((transcript \o t) \o s) \o c
      BY <3>1, SMTT(30)
    <3>3. QED
      BY <1>3, <2>1, <3>2
  <2> HIDE DEF ids, new, side
  <2>12. CallsOk(side, new, c)
    <3>1. Paired(FramedOf(side, new), ids) /\ AllSingle(FramedOf(side, new)) /\ new \in Seq(InputItems)
      BY <2>7 DEF SaidSoFar, side
    <3>2. ResendableOf(side, new, FramedOf(side, new))
      BY <3>1, NoneResends DEF side
    <3>3. QED
      BY <2>9, <3>1, <3>2 DEF CallsOk
  <2>13. QED
    BY <1>3, <2>1, <2>4, <2>11, <2>12, CallsAre
<1>10. QED
  BY <1>8, <1>9

LEMMA CallsInit == Init => CallsAnswered
<1>1. QED
  BY EmptyCalls, CallsAre DEF Init

LEMMA CallsStep == Typed /\ CallsAnswered /\ [Next]_vars => CallsAnswered'
<1> SUFFICES ASSUME Typed, CallsAnswered, [Next]_vars PROVE CallsAnswered'
  OBVIOUS
<1>1. ASSUME surface' = surface, transcript' = transcript, unanswered' = unanswered
      PROVE  CallsAnswered'
  BY <1>1, CallsAre
<1>2. CASE Ask
  BY <1>2, AskCalls
<1>3. CASE AnswerCall
  BY <1>3, AnswerCalls
<1>4. CASE Resend
  BY <1>4, ResendCalls
<1>5. CASE Reply
  BY <1>5, ReplyCalls
<1>6. CASE Reconsider \/ Restart \/ Fail \/ Submit \/ UNCHANGED vars
  BY <1>1, <1>6 DEF Reconsider, Restart, Fail, Submit, vars
<1>7. QED
  BY <1>2, <1>3, <1>4, <1>5, <1>6 DEF Next

(***************************************************************************)
(* An accepted request has messages, and they follow each other.           *)
(***************************************************************************)
LEMMA PlaceSome ==
    ASSUME NEW side, NEW framed \in Seq(AllTurns), NEW t \in AllTurns
    PROVE  Place(side, framed, t) # <<>>
<1> DEFINE r == Place(side, framed, t)
<1>1. /\ r \in Seq(AllTurns)
      /\ Splits(side, framed, t) => Appended(r, framed, t)
      /\ ~ Splits(side, framed, t) => Extended(r, framed, t)
  BY PlaceType
<1> HIDE DEF r
<1>2. \/ Len(r) = Len(framed) + 1
      \/ framed # <<>> /\ Len(r) = Len(framed)
  BY <1>1 DEF Appended, Extended
<1>3. Len(r) # 0
  BY <1>2, EmptySeq
<1>4. QED
  BY <1>1, <1>3, EmptySeq DEF r

\* A message with a turn leaves no transcript without turns.
LEMMA FramedSome ==
    ASSUME NEW side, NEW sent \in Seq(Sent(side)), NEW i \in DOMAIN sent,
           TurnsOf(side, sent[i]) # <<>>
    PROVE  FramedOf(side, sent) # <<>>
<1> DEFINE T == Sent(side)
           Heavy(s) == \E k \in DOMAIN s : TurnsOf(side, s[k]) # <<>>
           Q == {s \in Seq(T) : Heavy(s) => FramedOf(side, s) # <<>>}
<1>1. <<>> \in Q
  <2>1. ~ Heavy(<<>>) /\ <<>> \in Seq(T)
    OBVIOUS
  <2> HIDE DEF Heavy
  <2>2. QED
    BY <2>1
<1>2. ASSUME NEW s \in Seq(T), NEW e \in T, s \in Q PROVE Append(s, e) \in Q
  <2> DEFINE w == Append(s, e)
             framed == FramedOf(side, s)
  <2>1. framed \in Seq(AllTurns) /\ FramedOf(side, w) = Heard(side, framed, e)
    BY FramedType, FramedAppend
  <2>2. Heavy(w) => Heavy(s) \/ TurnsOf(side, e) # <<>>
    <3>1. \A k \in DOMAIN w : w[k] = e \/ (k \in DOMAIN s /\ w[k] = s[k])
      OBVIOUS
    <3> HIDE DEF w
    <3>2. QED
      BY <3>1
  <2>3. Heavy(s) => framed # <<>>
    BY <1>2
  <2> HIDE DEF Heavy, w, framed
  <2>4. Heavy(w) => FramedOf(side, w) # <<>>
    <3>1. CASE TurnsOf(side, e) = <<>>
      BY <2>1, <2>2, <2>3, <3>1 DEF Heard
    <3>2. CASE TurnsOf(side, e) # <<>>
      <4>1. PICK t \in AllTurns : TurnsOf(side, e) = <<t>>
        BY <3>2, SentTurns
      <4>2. QED
        BY <2>1, <4>1, PlaceSome, HeardTurn
    <3>3. QED
      BY <3>1, <3>2
  <2>5. QED
    BY <2>4 DEF w
<1>3. Seq(T) \subseteq Q
  <2> HIDE DEF Q
  <2>1. QED
    BY <1>1, <1>2, SeqInductionSet
<1>4. sent \in Q
  BY <1>3
<1>5. Heavy(sent)
  OBVIOUS
<1> HIDE DEF Heavy
<1>6. QED
  BY <1>4, <1>5

LEMMA AcceptedFramed ==
    ASSUME Typed, Origins, transcript # <<>>, Refusal(options) = None
    PROVE  Framed # <<>>
<1>1. surface \in Sides /\ transcript \in Seq(Sent(surface))
  BY TypedParts
<1>2. PICK i \in DOMAIN transcript : AskedOf(surface, transcript[i])
  BY OriginsAre DEF SomeAsked, OriginsOf
<1> DEFINE msg == transcript[i]
<1>3. PICK parts : msg = QuestionOf(surface, parts)
  BY <1>2 DEF AskedOf
<1>4. /\ msg.role = "user" /\ msg.parts = parts
      /\ surface # "chat" => msg.type = "message"
  BY <1>3, QuestionFields DEF QuestionOf
<1> DEFINE c == Among(msg.parts, Spoken \ {Blank})
<1>5. TurnsOf(surface, msg) # <<>>
  <2>1. CASE surface = "chat"
    <3>1. transcript \in Seq(ChatMessages)
      BY <1>1, <2>1 DEF Sent
    <3>2. MessageRefusal(msg, model, keys) = None
      BY <2>1, <3>1, ChatRefusalFrom DEF Refusal
    <3> HIDE DEF msg
    <3>3. c # <<>>
      BY <1>4, <3>2 DEF MessageRefusal, None, ParseContentParts
    <3>4. MessageTurns(msg) = IF c = <<>> THEN <<>> ELSE <<Turn("user", c)>>
      BY <1>4, ChatTurns
    <3> HIDE DEF c
    <3>5. QED
      BY <2>1, <3>3, <3>4 DEF TurnsOf
  <2>2. CASE surface # "chat"
    <3>1. ItemRefusal(msg, model) = None
      BY <1>1, <2>2, ResponsesRefusalFrom DEF Refusal, Sent
    <3> HIDE DEF msg
    <3>2. c # <<>>
      BY <1>4, <2>2, <3>1 DEF ItemRefusal, None, ParseMessageContent
    <3>3. ItemTurns(msg) = IF c = <<>> THEN <<>> ELSE <<Turn(msg.role, c)>>
      BY <1>4, <2>2, InputTurns
    <3> HIDE DEF c
    <3>4. QED
      BY <2>2, <3>2, <3>3 DEF TurnsOf
  <2>3. QED
    BY <2>1, <2>2
<1>6. QED
  BY <1>1, <1>5, FramedNow, FramedSome

\* What a request's messages must be.
WellFormed(msgs) ==
    /\ msgs # <<>> /\ Follow(msgs)
    /\ \A n \in DOMAIN msgs : /\ msgs[n].role \in {"user", "assistant"}
                              /\ msgs[n].content # <<>>

LEMMA FinalWell ==
    ASSUME NEW framed \in Seq(AllTurns), framed # <<>>, Paired(framed, {}), NEW side \in Sides,
           side = "responses" => AllSingle(framed),
           NEW msgs, NEW mark, NEW ttl \in STRING, Final(msgs, framed, side, mark, ttl)
    PROVE  WellFormed(msgs)
<1>1. side \in {"chat", "responses"}
  BY DEF Sides
<1>2. Follow(msgs)
  BY <1>1, FinalFollow
<1>3. ASSUME NEW n \in DOMAIN framed
      PROVE  msgs[n].role \in {"user", "assistant"} /\ msgs[n].content # <<>>
  <2>1. msgs[n].content # <<>>
    BY <1>1, FinalTurn
  <2>2. QED
    BY <2>1, TurnSorts DEF Final
<1>4. DOMAIN msgs = DOMAIN framed /\ msgs # <<>>
  <2>1. DOMAIN framed # {}
    <3>1. 1 \in DOMAIN framed
      BY EmptySeq
    <3>2. QED
      BY <3>1
  <2>2. QED
    BY <2>1 DEF Final
<1>5. QED
  BY <1>2, <1>3, <1>4 DEF WellFormed

LEMMA SubmitWell ==
    ASSUME Typed, CallsAnswered, Origins, Submit, Refusal(options) = None
    PROVE  WellFormed(Assemble(options).messages)
<1>1. /\ surface \in Sides /\ transcript \in Seq(Sent(surface)) /\ options \in Options
      /\ transcript # <<>> /\ unanswered = <<>>
  BY TypedParts DEF Submit
<1> DEFINE full == Full(surface, Framed, model)
           req == Assemble(options)
<1>2. PICK system, tools, scopes, ttl :
         /\ ttl \in STRING /\ full \in Seq(AllTurns)
         /\ Built(req, full, surface, system, tools, model, scopes, ttl)
  BY <1>1, AssembleBuilt
<1>3. PICK mark \in Nat : Final(req.messages, full, surface, mark, ttl)
  BY <1>2 DEF Built
<1>4. Framed # <<>> /\ Framed \in Seq(AllTurns)
  BY <1>1, FramedNow, FramedType, AcceptedFramed
<1>5. Paired(Framed, {}) /\ (surface = "responses" => AllSingle(Framed))
  BY <1>1, FramedNow, NothingOpen, CallsAre DEF CallsOk
<1>6. full # <<>> /\ Paired(full, {}) /\ (surface = "responses" => AllSingle(full))
  BY <1>4, <1>5, FullKeeps
<1> HIDE DEF full, req
<1>7. QED
  BY <1>1, <1>2, <1>3, <1>6, FinalWell DEF req

\* What is kept of the last accepted request, and what it is while it is served.
Worded(req) ==
    \A n \in DOMAIN req.messages : /\ req.messages[n].role \in {"user", "assistant"}
                                   /\ req.messages[n].content # <<>>

Served ==
    /\ Worded(request)
    /\ phase = "upstream" => WellFormed(request.messages)

ServedInv == Typed /\ CallsAnswered /\ Origins /\ Served

\* Only an accepted submission changes the request or hands it on.
LEMMA RequestChanges ==
    ASSUME Typed, [Next]_vars
    PROVE  \/ Submit /\ Refusal(options) = None /\ request' = Assemble(options)
           \/ request' = request /\ (phase' = "upstream" => phase = "upstream")
<1>1. CASE UNCHANGED vars
  BY <1>1 DEF vars
<1>2. CASE Submit
  BY <1>2 DEF Submit
<1>3. CASE Ask \/ AnswerCall \/ Resend \/ Reconsider \/ Restart
  BY <1>3 DEF Ask, AnswerCall, Resend, Reconsider, Restart
<1>4. CASE Reply \/ Fail
  BY <1>4 DEF Reply, Fail
<1>5. QED
  BY <1>1, <1>2, <1>3, <1>4 DEF Next

LEMMA ServedStep == ServedInv /\ [Next]_vars => ServedInv'
<1> SUFFICES ASSUME ServedInv, [Next]_vars PROVE ServedInv'
  OBVIOUS
<1>1. Typed /\ CallsAnswered /\ Origins /\ Served
  BY DEF ServedInv
<1>2. Served'
  <2>1. CASE Submit /\ Refusal(options) = None /\ request' = Assemble(options)
    BY <1>1, <2>1, SubmitWell DEF Served, WellFormed, Worded
  <2>2. CASE request' = request /\ (phase' = "upstream" => phase = "upstream")
    BY <1>1, <2>2 DEF Served
  <2>3. QED
    BY <1>1, <2>1, <2>2, RequestChanges
<1>3. QED
  BY <1>1, <1>2, TypedStep, CallsStep, OriginsStep DEF ServedInv

LEMMA ServedInit == Init => ServedInv
<1>1. Init => Served
  <2>1. SUFFICES ASSUME Init PROVE Served
    OBVIOUS
  <2>2. QED
    BY <2>1 DEF Served, Worded, Init, NoRequest
<1>2. QED
  BY <1>1, TypedInit, CallsInit, OriginsInit DEF ServedInv

LEMMA ServedAlways == Spec => []ServedInv
  BY ServedInit, ServedStep, PTL DEF Spec

(* The variables have their types, an accepted request has messages, each  *)
(* of a role that Converse knows and none of them empty, and while it is   *)
(* served no call is unanswered (provider.rs, responses_provider.rs).      *)
THEOREM TypesKept == Spec => []TypeOK
<1>1. ServedInv => TypeOK
  BY DEF ServedInv, Served, Typed, Worded, WellFormed, TypeOK
<1>2. QED
  BY <1>1, ServedAlways, PTL

(* Every accepted request pairs calls with results: behind each turn with  *)
(* calls stand the results of exactly these calls, each once, however the  *)
(* client ordered or repeated them (tools.rs 292-370).                     *)
THEOREM ResultsKept == Spec => []ResultsFollowCalls
<1>1. ServedInv => ResultsFollowCalls
  <2>1. SUFFICES ASSUME ServedInv, phase = "upstream" PROVE Follow(request.messages)
    BY DEF ResultsFollowCalls, Follow, Followed
  <2>2. QED
    BY <2>1 DEF WellFormed, ServedInv, Served
<1>2. QED
  BY <1>1, ServedAlways, PTL

(***************************************************************************)
(* Signed turns, said of values.                                           *)
(***************************************************************************)
OrderlyOn(side, content) ==
    /\ content = Of(content, "reasoning") \o Of(content, "text") \o Of(content, "toolUse")
    /\ side = "chat" => Len(Of(content, "text")) <= 1

BindingOn(side, row, answer) ==
    /\ RequiresSignatureReplay(row.path)
    /\ ~answer.uncovered
    /\ Carries(answer.content, "reasoning")
    /\ Of(answer.content, "reasoning") = SealedOf(answer.content)
    /\ side = "chat" => Carries(answer.content, "toolUse")
    /\ OrderlyOn(side, answer.content)

SignedOf(side, row, sent, given) ==
    \A k \in DOMAIN given :
        BindingOn(side, row, given[k]) => Opens(FramedOf(side, sent), Rejoined(given[k].content))

Upstreams == [content : Seq(Answered), uncovered : BOOLEAN]

LEMMA RejoinedType ==
    ASSUME NEW content \in Seq(Answered)
    PROVE  /\ Rejoined(content) \in Seq(Answered)
           /\ OrderlyOn("chat", content) => Rejoined(content) = content
<1> DEFINE r == Of(content, "reasoning")
           x == Of(content, "text")
           u == Of(content, "toolUse")
           o == OneText(x)
<1>1. /\ r \in Seq(Answered) /\ u \in Seq(Answered)
      /\ x \in Seq(BlocksOf({"text"}))
  BY OfType
<1>2. o \in Seq(Answered)
  <2> HIDE DEF x
  <2>1. o \in Seq(BlocksOf({"text"}))
    BY <1>1, TextGiven
  <2> HIDE DEF o
  <2>2. QED
    BY <2>1, AnsweredKinds, SeqWithin
<1>3. OrderlyOn("chat", content) => Rejoined(content) = content
  BY DEF OrderlyOn, OneText, Rejoined
<1>4. Rejoined(content) = (r \o o) \o u
  BY DEF Rejoined
<1> HIDE DEF r, x, u, o
<1> DEFINE A == Answered
<1>5. r \in Seq(A) /\ o \in Seq(A) /\ u \in Seq(A)
  BY <1>1, <1>2
<1> HIDE DEF A
<1>6. (r \o o) \o u \in Seq(A)
  BY <1>5
<1>7. QED
  BY <1>3, <1>4, <1>6 DEF A

LEMMA GivenContents ==
    ASSUME NEW given \in Seq(Upstreams), NEW k \in DOMAIN given
    PROVE  /\ given[k].content \in Seq(Answered)
           /\ Rejoined(given[k].content) \in Seq(Answered)
           /\ Rejoined(given[k].content) \in Seq(Blocks)
<1> DEFINE V == Seq(Answered)
<1>1. given[k] \in Upstreams
  OBVIOUS
<1>2. Upstreams = [content : V, uncovered : BOOLEAN]
  BY DEF Upstreams
<1> HIDE DEF V
<1>3. given[k].content \in V
  BY <1>1, <1>2
<1>4. given[k].content \in Seq(Answered)
  BY <1>3 DEF V
<1>5. Rejoined(given[k].content) \in Seq(Answered)
  BY <1>4, RejoinedType
<1>6. QED
  BY <1>4, <1>5, SomeBlocks

\* In a frame, to open a turn is to be a prefix of one.
LEMMA OpensPrefix ==
    ASSUME NEW framed \in Seq(AllTurns), NEW content \in Seq(Blocks)
    PROVE  Opens(framed, content) <=> \E n \in DOMAIN framed : /\ framed[n].role = "assistant"
                                                               /\ IsPrefix(content, framed[n].content)
<1>1. ASSUME NEW n \in DOMAIN framed
      PROVE  IsPrefix(content, framed[n].content) <=> Starts(content, framed[n].content)
  BY PrefixStarts, TurnSorts
<1>2. QED
  BY <1>1 DEF Opens

LEMMA SignedAre ==
    /\ Typed => (SignedKept <=> SignedOf(surface, model, transcript, answers))
    /\ Typed' => (SignedKept' <=> SignedOf(surface', model', transcript', answers'))
<1>1. ASSUME Typed PROVE SignedKept <=> SignedOf(surface, model, transcript, answers)
  <2>1. transcript \in Seq(Sent(surface)) /\ answers \in Seq(Upstreams)
    BY <1>1, TypedParts DEF Upstreams
  <2>2. FramedOf(surface, transcript) \in Seq(AllTurns) /\ Framed = FramedOf(surface, transcript)
    BY <2>1, FramedType, FramedNow
  <2> DEFINE f == FramedOf(surface, transcript)
  <2>3. ASSUME NEW k \in DOMAIN answers
        PROVE  Opens(f, Rejoined(answers[k].content))
                 <=> \E n \in DOMAIN f : /\ f[n].role = "assistant"
                                         /\ IsPrefix(Rejoined(answers[k].content), f[n].content)
    <3> HIDE DEF f
    <3>1. QED
      BY <2>1, <2>2, OpensPrefix, GivenContents DEF f
  <2>4. QED
    BY <2>2, <2>3 DEF SignedKept, SignedOf, Binding, BindingOn, Orderly, OrderlyOn
<1>2. ASSUME Typed' PROVE SignedKept' <=> SignedOf(surface', model', transcript', answers')
  <2>1. transcript' \in Seq(Sent(surface')) /\ answers' \in Seq(Upstreams)
    BY <1>2 DEF Typed, Sent, Upstreams
  <2>2. FramedOf(surface', transcript') \in Seq(AllTurns) /\ Framed' = FramedOf(surface', transcript')
    BY <2>1, FramedType, FramedNow
  <2> DEFINE f == FramedOf(surface', transcript')
  <2>3. ASSUME NEW k \in DOMAIN answers'
        PROVE  Opens(f, Rejoined(answers'[k].content))
                 <=> \E n \in DOMAIN f : /\ f[n].role = "assistant"
                                         /\ IsPrefix(Rejoined(answers'[k].content), f[n].content)
    <3> HIDE DEF f
    <3>1. QED
      BY <2>1, <2>2, OpensPrefix, GivenContents DEF f
  <2>4. QED
    BY <2>2, <2>3 DEF SignedOf, SignedKept, Binding, BindingOn, Orderly, OrderlyOn
<1>3. QED
  BY <1>1, <1>2

\* More messages leave the turns open that were.
LEMMA MoreOpens ==
    ASSUME NEW side, NEW sent \in Seq(Sent(side)), NEW more \in Seq(Sent(side)),
           NEW content \in Seq(Blocks), Opens(FramedOf(side, sent), content)
    PROVE  Opens(FramedOf(side, sent \o more), content)
<1> DEFINE T == Sent(side)
           Q == {s \in Seq(T) : Opens(FramedOf(side, sent \o s), content)}
<1>1. sent \in Seq(T) /\ more \in Seq(T)
  OBVIOUS
<1> HIDE DEF T
<1>2. <<>> \in Q
  BY <1>1, EmptySeq
<1>3. ASSUME NEW s \in Seq(T), NEW e \in T, s \in Q PROVE Append(s, e) \in Q
  <2> DEFINE w == sent \o s
             framed == FramedOf(side, w)
  <2>1. w \in Seq(T) /\ sent \o Append(s, e) = Append(w, e) /\ Append(s, e) \in Seq(T)
    BY <1>1
  <2>2. Opens(framed, content)
    BY <1>3
  <2> HIDE DEF w
  <2>3. framed \in Seq(AllTurns) /\ FramedOf(side, Append(w, e)) = Heard(side, framed, e)
    BY <2>1, FramedType, FramedAppend DEF T
  <2> HIDE DEF framed
  <2>4. Opens(Heard(side, framed, e), content)
    <3>1. CASE TurnsOf(side, e) = <<>>
      BY <2>2, <3>1 DEF Heard
    <3>2. CASE TurnsOf(side, e) # <<>>
      <4>1. PICK t \in AllTurns : TurnsOf(side, e) = <<t>>
        BY <3>2, SentTurns DEF T
      <4>2. QED
        BY <2>2, <2>3, <4>1, PlaceKeeps, HeardTurn
    <3>3. QED
      BY <3>1, <3>2
  <2>5. QED
    BY <2>1, <2>3, <2>4
<1>4. Seq(T) \subseteq Q
  <2> HIDE DEF Q
  <2>1. QED
    BY <1>2, <1>3, SeqInductionSet
<1>5. QED
  BY <1>1, <1>4

\* What kept signed turns keeps them when messages are added, and an answer that
\* opens a turn of its own.
LEMMA SignedMore ==
    ASSUME NEW side, NEW row, NEW sent \in Seq(Sent(side)), NEW more \in Seq(Sent(side)),
           NEW given \in Seq(Upstreams), SignedOf(side, row, sent, given)
    PROVE  SignedOf(side, row, sent \o more, given)
<1>1. ASSUME NEW k \in DOMAIN given, BindingOn(side, row, given[k])
      PROVE  Opens(FramedOf(side, sent \o more), Rejoined(given[k].content))
  BY <1>1, MoreOpens, GivenContents DEF SignedOf
<1>2. QED
  BY <1>1 DEF SignedOf

LEMMA SignedOneMore ==
    ASSUME NEW side, NEW row, NEW sent, NEW given \in Seq(Upstreams), NEW answer \in Upstreams,
           SignedOf(side, row, sent, given),
           BindingOn(side, row, answer) => Opens(FramedOf(side, sent), Rejoined(answer.content))
    PROVE  SignedOf(side, row, sent, Append(given, answer))
<1> DEFINE w == Append(given, answer)
<1> HIDE DEF w
<1>1. QED
  BY DEF SignedOf, w

(***************************************************************************)
(* An answer with signed reasoning comes back as the turn it was.          *)
(***************************************************************************)
LEMMA KindOwn ==
    ASSUME NEW b \in Answered
    PROVE  b \in BlocksOf({b.kind})
<1> DEFINE V == Seq(STRING)
<1>1. b \in [kind : {"text", "reasoning", "toolUse"}, of : Int, tag : V]
  BY DEF Answered, BlocksOf
<1> HIDE DEF V
<1>2. QED
  BY <1>1 DEF BlocksOf, V

LEMMA CarriedKept ==
    ASSUME NEW content \in Seq(Answered), NEW kind, Carries(content, kind)
    PROVE  Of(content, kind) # <<>>
<1>1. PICK i \in DOMAIN content : content[i].kind = kind
  BY DEF Carries
<1>2. content[i] \in BlocksOf({kind})
  BY <1>1, KindOwn
<1>3. Of(content, kind) = <<>> => \A k \in DOMAIN content : content[k] \notin BlocksOf({kind})
  <2> DEFINE S == BlocksOf({kind})
  <2> HIDE DEF S
  <2>1. QED
    BY AmongMisses DEF Of, S
<1>4. QED
  BY <1>2, <1>3

LEMMA LastOfOne ==
    ASSUME NEW T, NEW texts \in Seq(T), Len(texts) <= 1
    PROVE  texts = IF texts = <<>> THEN <<>> ELSE <<Last(texts)>>
<1>1. CASE texts = <<>>
  BY <1>1
<1>2. CASE texts # <<>>
  <2>1. Len(texts) = 1
    <3> DEFINE n == Len(texts)
    <3>1. n \in Nat /\ n <= 1
      OBVIOUS
    <3>2. n # 0
      BY <1>2, EmptySeq
    <3> HIDE DEF n
    <3>3. n = 1
      BY <3>1, <3>2
    <3>4. QED
      BY <3>3 DEF n
  <2>2. QED
    BY <1>2, <2>1 DEF Last
<1>3. QED
  BY <1>1, <1>2

LEMMA SameEnds ==
    ASSUME NEW m \in Nat, NEW n \in Nat, 1 .. m = 1 .. n
    PROVE  m = n
<1>1. CASE m < n
  BY <1>1
<1>2. CASE n < m
  BY <1>2
<1>3. QED
  BY <1>1, <1>2

LEMMA ThreeParts ==
    ASSUME NEW T, NEW r \in Seq(T), NEW t \in Seq(T), NEW u \in Seq(T)
    PROVE  ((r \o <<>>) \o t) \o u = (r \o t) \o u
<1>1. QED
  OBVIOUS

LEMMA ChatRestored ==
    ASSUME NEW content \in Seq(Answered), NEW ring \in Keyrings, ring.encoder,
           NEW message, ChatAnswered(message, content, ring), OrderlyOn("chat", content),
           Of(content, "reasoning") = SealedOf(content),
           Carries(content, "reasoning"), Carries(content, "toolUse")
    PROVE  AssistantContent(message) = content
<1> DEFINE rs == Of(content, "reasoning")
           ts == Of(content, "text")
           us == Of(content, "toolUse")
           calls == message.calls
           a == SharedReasoning(calls)
           b == StripReplayedReasoning(message.think, a)
           c == ParseContentParts(message.parts)
           d == Uses(calls)
<1>1. AssistantContent(message) = ((a \o b) \o c) \o d
  BY DEF AssistantContent, Uses
<1>2. /\ rs \in Seq(BlocksOf({"reasoning"})) /\ ts \in Seq(BlocksOf({"text"}))
      /\ us \in Seq(BlocksOf({"toolUse"}))
      /\ rs \in Seq(Answered) /\ ts \in Seq(Answered) /\ us \in Seq(Answered)
  BY OfType
<1>3. rs # <<>> /\ us # <<>> /\ rs = SealedOf(content)
  BY CarriedKept
<1>4. /\ calls \in Seq(ChatCalls) /\ DOMAIN calls = DOMAIN us
      /\ \A i \in DOMAIN us : /\ calls[i].wire = WireOf(content, ring, us[i].of)
                              /\ calls[i].name = us[i].tag
      /\ message.parts = IF ts = <<>> THEN <<>> ELSE <<Last(ts)>>
      /\ message.think = <<>> \/ message.think = Shown(rs)
  BY DEF ChatAnswered
<1>5. content = (rs \o ts) \o us /\ Len(ts) <= 1
  BY DEF OrderlyOn
<1> HIDE DEF rs, ts, us, calls
<1>6. ASSUME NEW i \in DOMAIN us
      PROVE  /\ IsCapsule(calls[i].wire) /\ calls[i].wire.reasoning = rs
             /\ calls[i].wire.id = us[i].of /\ us[i] = ToolUse(us[i].of, us[i].tag)
  <2>1. us[i] \in BlocksOf({"toolUse"})
    BY <1>2
  <2>2. us[i].of \in Int /\ us[i] = Block("toolUse", us[i].of, us[i].tag)
    BY <2>1, BlockKind, ZenonT(60)
  <2>3. QED
    BY <1>3, <1>4, <2>2, WireIs DEF ToolUse
<1>7. a = rs
  <2>1. 1 \in DOMAIN us
    BY <1>2, <1>3, EmptySeq
  <2>2. QED
    BY <1>4, <1>6, <2>1, SharedIs DEF OneCapsule
<1>8. b = <<>>
  BY <1>4, <1>7 DEF StripReplayedReasoning
<1>9. c = ts
  BY <1>2, <1>4, <1>5, TextsParsed, LastOfOne DEF ParseContentParts
<1>10. d = us
  <2>1. /\ d \in Seq(BlocksOf({"toolUse"})) /\ Len(d) = Len(calls) /\ DOMAIN d = DOMAIN calls
    BY <1>4, UsesType
  <2>2. \A i \in DOMAIN us : d[i] = us[i]
    <3>1. SUFFICES ASSUME NEW i \in DOMAIN us PROVE d[i] = us[i]
      OBVIOUS
    <3>2. QED
      BY <1>4, <1>6 DEF Uses
  <2>3. Len(d) = Len(us) /\ DOMAIN us = 1 .. Len(d)
    <3>1. Len(calls) = Len(us)
      BY <1>2, <1>4, SameEnds
    <3>2. QED
      BY <1>2, <2>1, <3>1
  <2> HIDE DEF d
  <2>4. QED
    BY <1>2, <2>1, <2>2, <2>3, SameSeq
<1> HIDE DEF a, b, c, d
<1>11. QED
  BY <1>1, <1>2, <1>5, <1>7, <1>8, <1>9, <1>10, ThreeParts

\* A turn of the assistant that is split off opens with itself, and is the last.
LEMMA SplitOpens ==
    ASSUME NEW side, NEW framed \in Seq(AllTurns), NEW c \in Seq(Answered), c # <<>>,
           Splits(side, framed, Turn("assistant", c))
    PROVE  LET r == Place(side, framed, Turn("assistant", c))
           IN  /\ r \in Seq(AllTurns) /\ Len(r) = Len(framed) + 1
               /\ r[Len(r)] = Turn("assistant", c)
<1> DEFINE t == Turn("assistant", c)
           r == Place(side, framed, t)
<1> HIDE DEF r, t
<1>1. QED
  BY PlaceType, SaidTurn DEF r, t, Appended

LEMMA LastOpens ==
    ASSUME NEW framed \in Seq(AllTurns), NEW m \in Nat, Len(framed) = m + 1,
           NEW c \in Seq(Answered), framed[m + 1].role = "assistant", framed[m + 1].content = c
    PROVE  Opens(framed, c)
<1>1. Starts(c, c)
  <2> DEFINE n == Len(c)
  <2>1. QED
    BY DEF Starts
<1>2. QED
  BY <1>1 DEF Opens

\* When every call has its result, calls open a turn of their own on chat.
LEMMA CallsSplit ==
    ASSUME NEW framed \in Seq(AllTurns), Paired(framed, {}), NEW c \in Seq(Answered),
           Carries(c, "toolUse")
    PROVE  Splits("chat", framed, Turn("assistant", c))
<1> DEFINE m == Len(framed)
<1>1. m \in Nat /\ (framed # <<>> <=> m > 0) /\ (m > 0 => framed[m] \in AllTurns)
  BY LastTurns
<1>2. m > 0 => ~ Carries(framed[m].content, "toolUse")
  <2>1. SUFFICES ASSUME m > 0 PROVE ~ Carries(framed[m].content, "toolUse")
    OBVIOUS
  <2>2. QED
    BY <1>1, <2>1, TurnViews, CallsApart DEF CallsAt
<1> HIDE DEF m
<1>3. QED
  BY <1>1, <1>2 DEF Splits, m, Turn, ShouldSplit, ShouldSplitSameRoleMerge

LEMMA ChatOpens ==
    ASSUME NEW sent \in Seq(ChatMessages), Paired(FramedOf("chat", sent), {}),
           NEW content \in Seq(Answered), NEW ring \in Keyrings, ring.encoder,
           NEW message, ChatAnswered(message, content, ring), OrderlyOn("chat", content),
           Of(content, "reasoning") = SealedOf(content),
           Carries(content, "reasoning"), Carries(content, "toolUse")
    PROVE  Opens(FramedOf("chat", Append(sent, message)), content)
<1> DEFINE framed == FramedOf("chat", sent)
           t == Turn("assistant", content)
           r == Place("chat", framed, t)
<1>1. sent \in Seq(Sent("chat")) /\ message \in Sent("chat") /\ message.role = "assistant"
  BY DEF Sent, ChatAnswered
<1>2. framed \in Seq(AllTurns) /\ FramedOf("chat", Append(sent, message)) = Heard("chat", framed, message)
  BY <1>1, FramedType, FramedAppend
<1>3. content # <<>>
  BY DEF Carries
<1>4. TurnsOf("chat", message) = <<t>>
  BY <1>1, <1>3, ChatTurns, ChatRestored DEF TurnsOf
<1> HIDE DEF framed
<1>5. r \in Seq(AllTurns) /\ Len(r) = Len(framed) + 1 /\ r[Len(r)] = t
  BY <1>2, <1>3, SplitOpens, CallsSplit DEF framed
<1>6. t.role = "assistant" /\ t.content = content
  BY DEF Turn
<1> HIDE DEF t
<1>7. FramedOf("chat", Append(sent, message)) = r
  BY <1>2, <1>4, HeardTurn
<1>8. Len(framed) \in Nat
  BY <1>2
<1> HIDE DEF r
<1>9. Opens(r, content)
  BY <1>5, <1>6, <1>8, LastOpens
<1>10. QED
  BY <1>7, <1>9

(***************************************************************************)
(* On Responses the items of an answer become one turn.                    *)
(***************************************************************************)
Saying(sent, c) ==
    LET framed == FramedOf("responses", sent)
    IN  /\ sent \in Seq(InputItems) /\ c \in Seq(Answered) /\ Carries(c, "reasoning")
        /\ framed # <<>> /\ framed[Len(framed)].role = "assistant"
        /\ framed[Len(framed)].content = c

\* Reasoning opens a turn.
LEMMA ThoughtOpens ==
    ASSUME NEW sent \in Seq(InputItems), NEW c \in Seq(Answered), Carries(c, "reasoning"),
           NEW item \in InputItems, ItemTurns(item) = <<Turn("assistant", c)>>
    PROVE  Saying(Append(sent, item), c)
<1> DEFINE side == "responses"
           framed == FramedOf(side, sent)
           now == FramedOf(side, Append(sent, item))
           t == Turn("assistant", c)
           r == Place(side, framed, t)
<1>1. framed \in Seq(AllTurns) /\ now = Heard(side, framed, item)
  BY FramedType, FramedAppend DEF Sent
<1>2. TurnsOf(side, item) = <<t>>
  BY DEF TurnsOf
<1>3. t.role = "assistant" /\ t.content = c
  BY DEF Turn
<1>4. Splits(side, framed, t)
  <2> HIDE DEF framed, t
  <2>1. QED
    BY <1>3 DEF Splits, ShouldSplit, ShouldSplitResponseTurn
<1>5. c # <<>>
  BY DEF Carries
<1> HIDE DEF side, framed, now
<1>6. r \in Seq(AllTurns) /\ Len(r) = Len(framed) + 1 /\ r[Len(r)] = t
  BY <1>1, <1>4, <1>5, SplitOpens
<1>7. now = r
  <2> HIDE DEF t
  <2>1. QED
    BY <1>1, <1>2, HeardTurn
<1> HIDE DEF r, t
<1>8. r # <<>>
  BY <1>1, <1>6, EmptySeq
<1>9. QED
  BY <1>3, <1>6, <1>7, <1>8 DEF Saying, now, side

\* What follows without reasoning joins it.
LEMMA AnswerJoins ==
    ASSUME NEW sent, NEW c, Saying(sent, c), NEW item \in InputItems, NEW d \in Seq(Answered),
           ~ Carries(d, "reasoning"),
           ItemTurns(item) = IF d = <<>> THEN <<>> ELSE <<Turn("assistant", d)>>
    PROVE  Saying(Append(sent, item), c \o d)
<1> DEFINE side == "responses"
           framed == FramedOf(side, sent)
           now == FramedOf(side, Append(sent, item))
           m == Len(framed)
<1>1. /\ sent \in Seq(InputItems) /\ c \in Seq(Answered) /\ Carries(c, "reasoning")
      /\ framed # <<>> /\ framed[m].role = "assistant" /\ framed[m].content = c
  BY DEF Saying
<1>2. framed \in Seq(AllTurns) /\ now = Heard(side, framed, item)
  BY <1>1, FramedType, FramedAppend DEF Sent
<1>3. Append(sent, item) \in Seq(InputItems)
  BY <1>1
<1>4. TurnsOf(side, item) = IF d = <<>> THEN <<>> ELSE <<Turn("assistant", d)>>
  BY DEF TurnsOf
<1>5. c \o d \in Seq(Answered)
  BY <1>1
<1>6. Carries(c \o d, "reasoning")
  <2> DEFINE A == Answered
  <2> HIDE DEF A
  <2>1. QED
    BY <1>1, IdsConcat
<1>7. CASE d = <<>>
  <2>1. now = framed
    BY <1>2, <1>4, <1>7 DEF Heard
  <2> HIDE DEF framed, now
  <2>2. QED
    BY <1>1, <1>3, <1>5, <1>6, <1>7, <2>1 DEF Saying, now, side, m
<1>8. CASE d # <<>>
  <2> DEFINE t == Turn("assistant", d)
             r == Place(side, framed, t)
  <2>1. t \in AllTurns /\ t.role = "assistant" /\ t.content = d
    BY <1>8, SaidTurn
  <2>2. TurnsOf(side, item) = <<t>>
    BY <1>4, <1>8
  <2> HIDE DEF t
  <2>3. ~ Splits(side, framed, t)
    <3>1. ~ ShouldSplit(side, "assistant", c, d)
      BY <1>1 DEF ShouldSplit, ShouldSplitResponseTurn
    <3> HIDE DEF framed, side
    <3>2. QED
      BY <1>1, <2>1, <3>1 DEF Splits
  <2>4. r \in Seq(AllTurns) /\ Extended(r, framed, t)
    BY <1>2, <2>1, <2>3, PlaceType
  <2>5. now = r
    BY <1>2, <2>2, HeardTurn
  <2> HIDE DEF r, framed, now
  <2>6. Len(r) = m /\ r[m].role = "assistant" /\ r[m].content = c \o d
    BY <1>1, <2>1, <2>4 DEF Extended
  <2>7. r # <<>>
    BY <1>1, <1>2, <2>4, <2>6, EmptySeq
  <2>8. QED
    BY <1>3, <1>5, <1>6, <2>5, <2>6, <2>7 DEF Saying, now, side
<1>9. QED
  BY <1>7, <1>8

\* The calls, each by the name that Bedrock knows.
Replayed(calls) == [i \in DOMAIN calls |-> ToolUse(calls[i].id, Joined(calls[i].ns, calls[i].name))]

LEMMA CallParts ==
    ASSUME NEW e \in Calls
    PROVE  LET d == <<ToolUse(e.id, Joined(e.ns, e.name))>>
           IN  /\ e \in InputItems /\ d \in Seq(Answered) /\ ~ Carries(d, "reasoning")
               /\ ToolUse(e.id, Joined(e.ns, e.name)) \in Answered
               /\ ItemTurns(e) = IF d = <<>> THEN <<>> ELSE <<Turn("assistant", d)>>
<1> DEFINE u == ToolUse(e.id, Joined(e.ns, e.name))
           d == <<u>>
<1>1. e \in InputItems /\ e.type = "call"
  BY DEF Calls
<1>2. d \in Seq(Answered) /\ d # <<>> /\ ~ Carries(d, "reasoning")
  BY <1>1, JoinedType, CallContent, InputItemKinds
<1>3. u \in Answered
  <2> HIDE DEF u
  <2>1. QED
    BY <1>2
<1> HIDE DEF d
<1>4. QED
  BY <1>1, <1>2, <1>3, InputTurns DEF d

LEMMA ReplayedMore ==
    ASSUME NEW r \in Seq(Calls), NEW e \in Calls, Replayed(r) \in Seq(Answered)
    PROVE  /\ Replayed(Append(r, e)) = Append(Replayed(r), ToolUse(e.id, Joined(e.ns, e.name)))
           /\ Replayed(Append(r, e)) \in Seq(Answered)
<1> DEFINE u(call) == ToolUse(call.id, Joined(call.ns, call.name))
           w == Append(r, e)
           old == Replayed(r)
           new == Replayed(w)
           A == Answered
           C == Calls
<1>1. u(e) \in A
  BY CallParts
<1>2. r \in Seq(C) /\ e \in C /\ old \in Seq(A)
  OBVIOUS
<1>3. DOMAIN new = DOMAIN w /\ DOMAIN old = DOMAIN r
  BY DEF Replayed
<1>4. (\A i \in DOMAIN w : new[i] = u(w[i])) /\ (\A i \in DOMAIN r : old[i] = u(r[i]))
  BY DEF Replayed
<1>5. new = [i \in DOMAIN w |-> u(w[i])]
  BY DEF Replayed
<1> HIDE DEF u, old, new, A, C
<1>6. /\ DOMAIN w = 1 .. Len(r) + 1 /\ DOMAIN r = 1 .. Len(r) /\ Len(r) \in Nat
      /\ w[Len(r) + 1] = e /\ \A i \in 1 .. Len(r) : w[i] = r[i]
  BY <1>2
<1> HIDE DEF w
<1>7. Len(old) = Len(r)
  BY <1>2, <1>3, <1>6, SameEnds
<1> DEFINE n == Len(r)
           x == u(e)
           z == Append(old, x)
<1>8. /\ z \in Seq(A) /\ Len(z) = n + 1 /\ z[n + 1] = x /\ \A i \in 1 .. n : z[i] = old[i]
      /\ z = [i \in 1 .. n + 1 |-> z[i]]
  <2> HIDE DEF x
  <2>1. x \in A
    BY <1>1 DEF x
  <2>2. /\ z \in Seq(A) /\ Len(z) = Len(old) + 1 /\ z[Len(old) + 1] = x
        /\ \A i \in 1 .. Len(old) : z[i] = old[i]
    BY <1>2, <2>1
  <2> HIDE DEF z
  <2>3. QED
    BY <1>7, <2>2
<1> HIDE DEF z
<1>9. \A i \in 1 .. n + 1 : z[i] = u(w[i])
  <2>1. \A i \in 1 .. n : z[i] = u(w[i])
    <3>1. SUFFICES ASSUME NEW i \in 1 .. n PROVE z[i] = u(w[i])
      OBVIOUS
    <3>2. i \in DOMAIN r /\ w[i] = r[i]
      BY <1>6
    <3>3. QED
      BY <1>4, <1>8, <3>2
  <2>2. z[n + 1] = u(w[n + 1])
    BY <1>6, <1>8
  <2>3. QED
    BY <1>6, <2>1, <2>2
<1>10. QED
  BY <1>5, <1>6, <1>8, <1>9 DEF z, A, new, old, u, w, x

LEMMA EndJoined ==
    ASSUME NEW T, NEW s \in Seq(T), NEW r \in Seq(T), NEW e \in T
    PROVE  (s \o r) \o <<e>> = s \o Append(r, e)
<1> DEFINE x == s \o r
<1>1. s \o Append(r, e) = Append(x, e) /\ x \in Seq(T)
  BY ConcatOfAppend DEF Follows
<1> HIDE DEF x
<1>2. QED
  BY <1>1 DEF x

LEMMA CallsJoin ==
    ASSUME NEW sent, NEW c, Saying(sent, c), NEW calls \in Seq(Calls)
    PROVE  Saying(sent \o calls, c \o Replayed(calls)) /\ Replayed(calls) \in Seq(Answered)
<1> DEFINE Q == {r \in Seq(Calls) : /\ Replayed(r) \in Seq(Answered)
                                    /\ Saying(sent \o r, c \o Replayed(r))}
           I == InputItems
           A == Answered
<1>1. sent \in Seq(I) /\ c \in Seq(A)
  BY DEF Saying
<1> HIDE DEF I
<1>2. <<>> \in Q
  <2>1. <<>> \in Seq(Calls) /\ <<>> \in Seq(A) /\ sent \o <<>> = sent /\ c \o <<>> = c
    BY <1>1, EmptySeq
  <2>2. QED
    BY <2>1 DEF Replayed
<1>3. ASSUME NEW r \in Seq(Calls), NEW e \in Calls, r \in Q PROVE Append(r, e) \in Q
  <2> DEFINE u == ToolUse(e.id, Joined(e.ns, e.name))
             old == Replayed(r)
             w == Append(r, e)
             new == Replayed(w)
  <2>1. old \in Seq(A) /\ Saying(sent \o r, c \o old)
    BY <1>3
  <2>2. /\ e \in I /\ <<u>> \in Seq(A) /\ ~ Carries(<<u>>, "reasoning") /\ u \in A
        /\ ItemTurns(e) = IF <<u>> = <<>> THEN <<>> ELSE <<Turn("assistant", <<u>>)>>
    BY CallParts DEF I
  <2>3. new = Append(old, u) /\ new \in Seq(A)
    BY <2>1, ReplayedMore
  <2>4. w \in Seq(Calls)
    OBVIOUS
  <2> HIDE DEF u, old, new
  <2>5. Saying(Append(sent \o r, e), (c \o old) \o <<u>>)
    BY <2>1, <2>2, AnswerJoins DEF I
  <2> HIDE DEF A
  <2>6. (c \o old) \o <<u>> = c \o new
    <3>1. (c \o old) \o <<u>> = c \o Append(old, u)
      BY <1>1, <2>1, <2>2, EndJoined
    <3>2. QED
      BY <2>3, <3>1
  <2>7. sent \o w = Append(sent \o r, e)
    BY <1>1, <2>2, SeqWithin DEF Calls
  <2> HIDE DEF w
  <2>8. QED
    BY <2>3, <2>4, <2>5, <2>6, <2>7 DEF new, w, A
<1>4. Seq(Calls) \subseteq Q
  <2> HIDE DEF Q
  <2>1. QED
    BY <1>2, <1>3, SeqInductionSet
<1>5. QED
  BY <1>4

NamelessOn(tools, block) ==
    /\ block.kind = "toolUse"
    /\ \E i \in DOMAIN tools : /\ tools[i].kind # "function"
                               /\ tools[i].ns # None
                               /\ BedrockName(tools[i]) = block.tag

\* What is among a sequence is taken from it.
From(w, s) == \A i \in DOMAIN w : \E k \in DOMAIN s : s[k] = w[i]

LEMMA AmongFrom ==
    ASSUME NEW T, NEW s \in Seq(T), NEW S
    PROVE  From(Among(s, S), s)
<1> DEFINE w == Among(s, S)
<1>1. /\ w \in Seq(T \cap S)
      /\ \A k \in DOMAIN s : s[k] \in S => \E i \in DOMAIN w : w[i] = s[k]
      /\ \A i \in DOMAIN w : \E k \in DOMAIN s : s[k] = w[i]
  BY AmongElements
<1> HIDE DEF w
<1>2. QED
  BY <1>1 DEF From, w

\* Calls that keep their names come back as the blocks they were.
LEMMA CallsRestored ==
    ASSUME NEW content \in Seq(Answered), NEW tools \in Seq(DeclaredTools),
           \A i \in DOMAIN content : ~ NamelessOn(tools, content[i])
    PROVE  Replayed(CallItems(content, tools)) = Of(content, "toolUse")
<1> DEFINE u == Of(content, "toolUse")
           c == CallItems(content, tools)
           B == BlocksOf({"toolUse"})
<1>1. /\ c \in Seq(Calls) /\ DOMAIN c = DOMAIN u /\ Len(c) = Len(u)
      /\ \A i \in DOMAIN u : CallItem(c[i], tools, u[i])
  BY CallsType
<1>2. u \in Seq(B) /\ Len(u) \in Nat /\ DOMAIN u = 1 .. Len(u)
  BY OfType
<1>3. \A i \in DOMAIN u : \E k \in DOMAIN content : content[k] = u[i]
  BY AmongFrom DEF From, Of
<1> HIDE DEF u, c
<1>4. ASSUME NEW i \in DOMAIN u
      PROVE  ToolUse(c[i].id, Joined(c[i].ns, c[i].name)) = u[i]
  <2>1. u[i] \in B
    BY <1>2
  <2>2. u[i].kind = "toolUse" /\ u[i] = Block("toolUse", u[i].of, u[i].tag)
    BY <2>1, BlockKind
  <2>3. ~ NamelessOn(tools, u[i])
    BY <1>3
  <2>4. QED
    BY <1>1, <2>2, <2>3 DEF ToolUse, CallItem, NamelessOn
<1>5. QED
  BY <1>1, <1>2, <1>4 DEF u, c, Replayed

LEMMA TextJoins ==
    ASSUME NEW sent, NEW r, Saying(sent, r), NEW content \in Seq(Answered)
    PROVE  Saying(sent \o SaidItems(content), r \o OneText(Of(content, "text")))
<1> DEFINE s == SaidItems(content)
           texts == Of(content, "text")
           x == OneText(texts)
           A == Answered
<1>1. sent \in Seq(InputItems) /\ r \in Seq(A)
  BY DEF Saying
<1>2. /\ x \in Seq(BlocksOf({"text"})) /\ (x = <<>> <=> texts = <<>>)
      /\ Among(OutputText(texts), Spoken \ {Blank}) = x
  <2>1. texts \in Seq(BlocksOf({"text"}))
    BY OfType
  <2> HIDE DEF texts
  <2>2. QED
    BY <2>1, TextGiven
<1>3. x \in Seq(A)
  <2> HIDE DEF x
  <2>1. QED
    BY <1>2, AnsweredKinds, SeqWithin
<1>4. CASE s = <<>>
  <2>1. texts = <<>>
    BY <1>4 DEF SaidItems
  <2> HIDE DEF x, A, s, texts
  <2>2. sent \o s = sent /\ r \o x = r
    BY <1>1, <1>2, <1>4, <2>1
  <2>3. QED
    BY <2>2 DEF s, x, texts
<1>5. CASE s # <<>>
  <2>1. PICK item \in InputItems : /\ s = <<item>> /\ item.type = "message"
                                   /\ item.role = "assistant" /\ item.parts = OutputText(texts)
    BY <1>5, SaidType
  <2>2. ItemTurns(item) = IF x = <<>> THEN <<>> ELSE <<Turn("assistant", x)>>
    <3> HIDE DEF x, texts
    <3>1. QED
      BY <1>2, <2>1, InputTurns
  <2> HIDE DEF x
  <2> HIDE DEF s
  <2>3. sent \o s = Append(sent, item)
    BY <1>1, <2>1
  <2>4. QED
    BY <1>2, <1>3, <2>2, <2>3, AnswerJoins, OneKind DEF s, x
<1>6. QED
  BY <1>4, <1>5

LEMMA ResponsesSaid ==
    ASSUME NEW sent \in Seq(InputItems), NEW content \in Seq(Answered),
           NEW tools \in Seq(DeclaredTools),
           \A i \in DOMAIN content : ~ NamelessOn(tools, content[i]),
           Of(content, "reasoning") = SealedOf(content), Carries(content, "reasoning")
    PROVE  LET t == ThoughtItems(content)
               s == SaidItems(content)
           IN  Saying(((sent \o t) \o s) \o CallItems(content, tools), Rejoined(content))
<1> DEFINE t == ThoughtItems(content)
           s == SaidItems(content)
           c == CallItems(content, tools)
           rs == Of(content, "reasoning")
           xs == OneText(Of(content, "text"))
           us == Of(content, "toolUse")
<1>1. rs # <<>> /\ rs = SealedOf(content)
  BY CarriedKept
<1>2. rs \in Seq(BlocksOf({"reasoning"})) /\ rs \in Seq(Answered)
  BY OfType
<1>3. Carries(rs, "reasoning")
  <2> HIDE DEF rs
  <2>1. 1 \in DOMAIN rs
    BY <1>1, <1>2, EmptySeq
  <2>2. rs[1] \in BlocksOf({"reasoning"})
    BY <1>2, <2>1
  <2>3. QED
    BY <2>1, <2>2, BlockKind DEF Carries
<1>4. Rejoined(content) = (rs \o xs) \o us
  BY DEF Rejoined
<1>5. Saying(sent \o t, rs)
  <2>1. t # <<>>
    BY <1>1 DEF ThoughtItems
  <2>2. PICK item \in InputItems : t = <<item>> /\ item.type = "reasoning" /\ item.blocks = SealedOf(content)
    BY <2>1, ThoughtType
  <2> HIDE DEF rs, t
  <2>3. ItemTurns(item) = <<Turn("assistant", rs)>>
    BY <1>1, <2>2, InputTurns
  <2>4. sent \o t = Append(sent, item)
    BY <2>2
  <2>5. QED
    BY <1>2, <1>3, <2>3, <2>4, ThoughtOpens
<1>6. Saying((sent \o t) \o s, rs \o xs)
  <2> HIDE DEF rs, t
  <2>1. QED
    BY <1>5, TextJoins
<1>7. c \in Seq(Calls) /\ Replayed(c) = us
  BY CallsType, CallsRestored
<1> HIDE DEF rs, t, s, xs, us, c
<1>8. Saying(((sent \o t) \o s) \o c, (rs \o xs) \o us)
  BY <1>6, <1>7, CallsJoin
<1>9. QED
  BY <1>4, <1>8 DEF t, s, c

LEMMA SayingOpens ==
    ASSUME NEW sent, NEW c, Saying(sent, c)
    PROVE  Opens(FramedOf("responses", sent), c)
<1> DEFINE framed == FramedOf("responses", sent)
           n == Len(framed)
<1>1. /\ sent \in Seq(InputItems) /\ c \in Seq(Answered)
      /\ framed # <<>> /\ framed[n].role = "assistant" /\ framed[n].content = c
  BY DEF Saying
<1>2. framed \in Seq(AllTurns)
  BY <1>1, FramedType DEF Sent
<1> HIDE DEF framed
<1> DEFINE m == n - 1
<1>3. m \in Nat /\ n = m + 1
  BY <1>1, <1>2, EmptySeq
<1> HIDE DEF m
<1>4. Opens(framed, c)
  BY <1>1, <1>2, <1>3, LastOpens
<1>5. QED
  BY <1>4 DEF framed

(***************************************************************************)
(* A conversation without tools makes a request without tools.             *)
(***************************************************************************)
Toolless(sent) ==
    \A i \in DOMAIN sent : /\ sent[i].role # "tool"
                           /\ sent[i].role = "assistant" => sent[i].calls = <<>>

Plain(framed) == \A n \in DOMAIN framed : CallsAt(framed, n) = {} /\ ResultsAt(framed, n) = {}

LEMMA PlainPaired ==
    ASSUME NEW framed \in Seq(AllTurns), Plain(framed)
    PROVE  Paired(framed, {})
<1>1. QED
  BY EmptySeq DEF Paired, Plain

LEMMA PlainPlace ==
    ASSUME NEW side, NEW framed \in Seq(AllTurns), Plain(framed), NEW t \in AllTurns,
           CallsOf(t.content) = {}, ResultsOf(t.content) = {}
    PROVE  Plain(Place(side, framed, t))
<1> DEFINE r == Place(side, framed, t)
           m == Len(framed)
<1>1. /\ r \in Seq(AllTurns)
      /\ Splits(side, framed, t) => Appended(r, framed, t)
      /\ ~ Splits(side, framed, t) => Extended(r, framed, t)
  BY PlaceType
<1>2. m \in Nat /\ DOMAIN framed = 1 .. m /\ (framed # <<>> => m > 0)
  BY LastTurns
<1>3. \A n \in 1 .. m : CallsAt(framed, n) = {} /\ ResultsAt(framed, n) = {}
  BY <1>2 DEF Plain
<1> HIDE DEF r
<1>4. DOMAIN r = 1 .. Len(r)
  BY <1>1
<1>5. CASE Appended(r, framed, t)
  <2>1. Len(r) = m + 1 /\ r[m + 1] = t /\ \A n \in 1 .. m : r[n] = framed[n]
    BY <1>5 DEF Appended
  <2>2. ASSUME NEW n \in DOMAIN r PROVE CallsAt(r, n) = {} /\ ResultsAt(r, n) = {}
    <3>1. CASE n \in 1 .. m
      BY <1>3, <2>1, <3>1 DEF CallsAt, ResultsAt
    <3>2. CASE n = m + 1
      BY <2>1, <3>2 DEF CallsAt, ResultsAt
    <3>3. QED
      BY <1>2, <1>4, <2>1, <3>1, <3>2
  <2>3. QED
    BY <2>2 DEF Plain, r
<1>6. CASE Extended(r, framed, t)
  <2>1. Len(r) = m /\ m > 0 /\ \A n \in 1 .. m - 1 : r[n] = framed[n]
    BY <1>2, <1>6 DEF Extended
  <2>2. CallsAt(r, m) = {} /\ ResultsAt(r, m) = {}
    BY <1>2, <1>3, <1>6, <2>1, PlacedViews
  <2>3. ASSUME NEW n \in DOMAIN r PROVE CallsAt(r, n) = {} /\ ResultsAt(r, n) = {}
    <3>1. CASE n \in 1 .. m - 1
      <4>1. n \in 1 .. m /\ r[n] = framed[n]
        BY <1>2, <2>1, <3>1
      <4>2. QED
        BY <1>3, <4>1 DEF CallsAt, ResultsAt
    <3>2. QED
      BY <1>2, <1>4, <2>1, <2>2, <3>1
  <2>4. QED
    BY <2>3 DEF Plain, r
<1>7. QED
  BY <1>1, <1>5, <1>6 DEF r

\* What a message says without a call holds none.
LEMMA ToollessTurn ==
    ASSUME NEW msg \in ChatMessages, msg.role # "tool", msg.role = "assistant" => msg.calls = <<>>,
           NEW t \in AllTurns, MessageTurns(msg) = <<t>>
    PROVE  CallsOf(t.content) = {} /\ ResultsOf(t.content) = {}
<1>1. CASE msg.role \in {"system", "user"} /\ msg.parts \in Seq(Spoken)
  <2> DEFINE c == Among(msg.parts, Spoken \ {Blank})
  <2>1. msg.role = "user"
    <3>1. MessageTurns(msg) # <<>>
      OBVIOUS
    <3>2. QED
      BY <1>1, <3>1, ChatTurns
  <2>2. MessageTurns(msg) = IF c = <<>> THEN <<>> ELSE <<Turn("user", c)>>
    BY <2>1, ChatTurns
  <2> HIDE DEF c
  <2>3. c # <<>> /\ t = Turn("user", c)
    BY <2>2
  <2>4. QED
    BY <1>1, <2>3, TurnViews, QuestionTurn DEF c
<1>2. CASE /\ msg.role = "assistant" /\ msg.think \in Seq(Int)
           /\ msg.parts \in Seq(BlocksOf({"text"})) /\ msg.calls \in Seq(ChatCalls)
  <2> DEFINE c == AssistantContent(msg)
  <2>1. MessageTurns(msg) = IF c = <<>> THEN <<>> ELSE <<Turn("assistant", c)>>
    BY <1>2, ChatTurns
  <2>2. CallsOf(c) = {msg.calls[i].wire.id : i \in DOMAIN msg.calls}
    BY <1>2, AssistantType
  <2> HIDE DEF c
  <2>3. CallsOf(c) = {}
    BY <1>2, <2>2
  <2>4. QED
    BY <2>1, <2>3, TurnViews DEF Turn
<1>3. QED
  BY <1>1, <1>2, ChatMessageKinds

LEMMA ToollessPlain ==
    ASSUME NEW sent \in Seq(ChatMessages), Toolless(sent)
    PROVE  Plain(FramedOf("chat", sent))
<1> DEFINE T == ChatMessages
           Q == {s \in Seq(T) : Toolless(s) => Plain(FramedOf("chat", s))}
<1>1. <<>> \in Q
  BY FramedNothing, EmptySeq DEF Plain
<1>2. ASSUME NEW s \in Seq(T), NEW e \in T, s \in Q PROVE Append(s, e) \in Q
  <2> DEFINE w == Append(s, e)
             framed == FramedOf("chat", s)
  <2>1. SUFFICES ASSUME Toolless(w) PROVE Plain(FramedOf("chat", w))
    OBVIOUS
  <2>2. DOMAIN w = 1 .. Len(s) + 1 /\ w[Len(s) + 1] = e /\ (\A i \in DOMAIN s : w[i] = s[i])
        /\ DOMAIN s = 1 .. Len(s) /\ Len(s) \in Nat
    OBVIOUS
  <2>3. s \in Seq(Sent("chat")) /\ e \in Sent("chat")
    BY DEF Sent
  <2>4. framed \in Seq(AllTurns) /\ FramedOf("chat", w) = Heard("chat", framed, e)
    BY <2>3, FramedType, FramedAppend
  <2> HIDE DEF w, T
  <2>5. Toolless(s)
    BY <2>1, <2>2 DEF Toolless
  <2>6. e.role # "tool" /\ (e.role = "assistant" => e.calls = <<>>)
    BY <2>1, <2>2 DEF Toolless
  <2>7. Plain(framed)
    BY <1>2, <2>5
  <2> HIDE DEF framed
  <2>8. Plain(Heard("chat", framed, e))
    <3>1. CASE TurnsOf("chat", e) = <<>>
      BY <2>7, <3>1 DEF Heard
    <3>2. CASE TurnsOf("chat", e) # <<>>
      <4>1. PICK t \in AllTurns : TurnsOf("chat", e) = <<t>>
        BY <2>3, <3>2, SentTurns
      <4>2. Heard("chat", framed, e) = Place("chat", framed, t)
        BY <4>1, HeardTurn
      <4>3. MessageTurns(e) = <<t>>
        BY <4>1 DEF TurnsOf
      <4>4. QED
        BY <2>4, <2>6, <2>7, <4>2, <4>3, PlainPlace, ToollessTurn DEF T
    <3>3. QED
      BY <3>1, <3>2
  <2>9. QED
    BY <2>4, <2>8
<1>3. Seq(T) \subseteq Q
  <2> HIDE DEF Q
  <2>1. QED
    BY <1>1, <1>2, SeqInductionSet
<1>4. QED
  BY <1>3

\* What no turn carries, all of them together do not.
LEMMA NoneCarried ==
    ASSUME NEW m \in Nat, NEW msgs, DOMAIN msgs = 1 .. m, NEW kind,
           \A n \in 1 .. m : msgs[n].content \in Seq(Blocks) /\ ~ Carries(msgs[n].content, kind)
    PROVE  Of(AllBlocks(msgs), kind) = <<>> /\ ~ Carries(AllBlocks(msgs), kind)
<1> DEFINE ss == [n \in DOMAIN msgs |-> msgs[n].content]
           V == Seq(Blocks)
           Q == {r \in Seq(V) : (\A n \in DOMAIN r : ~ Carries(r[n], kind))
                                   => ~ Carries(FlattenSeq(r), kind)}
<1>1. ss \in Seq(V) /\ DOMAIN ss = 1 .. m /\ \A n \in DOMAIN ss : ~ Carries(ss[n], kind)
  <2> HIDE DEF V
  <2>1. QED
    BY DEF V
<1>2. ASSUME NEW s \in Seq(Blocks), ~ Carries(s, kind) PROVE Of(s, kind) = <<>>
  <2> DEFINE S == BlocksOf({kind})
  <2>1. \A b \in S : b.kind = kind
    BY BlockKind
  <2> HIDE DEF S
  <2>2. Among(s, S) = <<>>
    BY <1>2, <2>1, AmongNone DEF Carries
  <2>3. QED
    BY <2>2 DEF Of, S
<1>3. <<>> \in Q
  BY FlattenEmpty, EmptySeq DEF Carries
<1>4. ASSUME NEW r \in Seq(V), NEW e \in V, r \in Q PROVE Append(r, e) \in Q
  <2> DEFINE w == Append(r, e)
             f == FlattenSeq(r)
  <2>1. /\ w \in Seq(V) /\ DOMAIN w = 1 .. Len(r) + 1 /\ w[Len(r) + 1] = e
        /\ DOMAIN r = 1 .. Len(r) /\ Len(r) \in Nat /\ \A i \in DOMAIN r : w[i] = r[i]
    BY AppendProperties, LenProperties
  <2>2. FlattenSeq(w) = f \o e /\ f \in Seq(Blocks) /\ e \in Seq(Blocks)
    BY FlattenAppend, FlattenType
  <2> HIDE DEF w
  <2>3. SUFFICES ASSUME \A n \in DOMAIN w : ~ Carries(w[n], kind)
                 PROVE  ~ Carries(FlattenSeq(w), kind)
    BY <2>1 DEF w
  <2>4. \A n \in DOMAIN r : ~ Carries(r[n], kind)
    BY <2>1, <2>3
  <2>5. ~ Carries(f, kind)
    BY <1>4, <2>4
  <2>6. ~ Carries(e, kind)
    BY <2>1, <2>3
  <2> HIDE DEF f
  <2>7. QED
    BY <2>2, <2>5, <2>6, IdsConcat
<1>5. Seq(V) \subseteq Q
  <2> HIDE DEF Q, V
  <2>1. QED
    BY <1>3, <1>4, SeqInductionSet
<1>6. AllBlocks(msgs) = FlattenSeq(ss)
  BY DEF AllBlocks
<1>7. FlattenSeq(ss) \in Seq(Blocks)
  BY <1>1, FlattenType
<1> HIDE DEF ss
<1>8. QED
  BY <1>1, <1>2, <1>5, <1>6, <1>7

LEMMA PlainCarries ==
    ASSUME NEW content, CallsOf(content) = {}, ResultsOf(content) = {}
    PROVE  ~ Carries(content, "toolUse") /\ ~ Carries(content, "toolResult")
  BY IdsNames, IdsCarried

LEMMA PlainSynthesis ==
    ASSUME NEW framed \in Seq(AllTurns), Plain(framed)
    PROVE  SynthesizeToolConfig(framed).tools = <<>>
<1> DEFINE uses == Of(AllBlocks(framed), "toolUse")
           P(u) == {k \in DOMAIN u : \A j \in 1 .. (k - 1) : u[j].tag # u[k].tag}
           m == Len(framed)
<1>1. m \in Nat /\ DOMAIN framed = 1 .. m
  OBVIOUS
<1>2. ASSUME NEW n \in 1 .. m
      PROVE  framed[n].content \in Seq(Blocks) /\ ~ Carries(framed[n].content, "toolUse")
  BY <1>1, PlainCarries, TurnSorts DEF Plain, CallsAt, ResultsAt
<1>3. uses = <<>>
  BY <1>1, <1>2, NoneCarried
<1>4. At(uses, P(uses)) = <<>>
  <2> HIDE DEF uses, P
  <2>1. QED
    BY <1>3, AtEmpty
<1>5. SynthesizeToolConfig(framed).tools
        = [k \in DOMAIN At(uses, P(uses)) |-> Tool(At(uses, P(uses))[k].tag)]
  BY DEF SynthesizeToolConfig, ToolConfig
<1> HIDE DEF uses, P
<1>6. QED
  BY <1>4, <1>5

LEMMA BareRequest ==
    ASSUME NEW sent \in Seq(ChatMessages), Toolless(sent), NEW row, NEW o, o.tools = <<>>,
           o.ttl \in STRING, NEW ring, NEW setting, setting.ttl \in STRING
    PROVE  ChatAssemble(sent, row, o, ring, setting).config.tools = <<>>
<1> DEFINE ttl    == ResolveCacheTtl(o.ttl, setting.ttl, row)
           turns  == ReframeMessages(BuildIntermediateMessages(sent), row)
           framed == Full("chat", FramedOf("chat", sent), row)
           system == ParseSystemPrompts(sent)
           built  == BuildToolConfig(row, o)
           inf    == ChatInference(row, o, ChatReasoning(sent, row, o, ring))
           synth  == SynthesizeToolConfig(turns)
           config == IF built = NoConfig THEN synth ELSE built
           plain  == [messages |-> turns, system |-> system, config |-> config,
                      inference |-> inf]
           scopes == ChatScopes(o, setting.caching)
           cached == DecorateZones(plain, row, scopes, ttl)
           normal == NormalizeToolResultTurns(cached.messages)
           final  == [cached EXCEPT !.messages = normal,
                                    !.config = InjectPlaceholder(normal, @)]
           used   == Zones(system, config.tools, row, scopes, ttl)
<1>1. ChatAssemble(sent, row, o, ring, setting) = final
  BY DEF ChatAssemble
<1>2. turns = framed
  BY DEF ReframeMessages, Full, FramedOf, TurnsIn
<1>3. config = [tools |-> <<>>, choice |-> config.choice] /\ ttl \in STRING
      /\ framed \in Seq(AllTurns) /\ Plain(framed)
  <2>1. built = NoConfig
    BY DEF BuildToolConfig
  <2>2. synth = [tools |-> synth.tools, choice |-> synth.choice]
    BY DEF SynthesizeToolConfig, ToolConfig
  <2>3. FramedOf("chat", sent) \in Seq(AllTurns) /\ Plain(FramedOf("chat", sent))
    BY FramedType, ToollessPlain DEF Sent
  <2>4. framed \in Seq(AllTurns)
    BY <2>3, FullKeeps
  <2>5. Plain(framed)
    <3> DEFINE f == FramedOf("chat", sent)
    <3>1. Plain(Place("chat", f, Continuation))
      <4> HIDE DEF f
      <4>1. QED
        BY <2>3, ContinuationTurn, PlainPlace, TurnViews DEF f
    <3>2. QED
      BY <2>3, <3>1, FullForms
  <2> HIDE DEF built, framed
  <2>6. synth.tools = <<>>
    BY <1>2, <2>4, <2>5, PlainSynthesis
  <2>7. ttl \in STRING
    BY TtlIs
  <2> HIDE DEF synth, ttl
  <2>8. QED
    BY <2>1, <2>2, <2>4, <2>5, <2>6, <2>7
<1>4. /\ DOMAIN cached = {"messages", "system", "config", "inference"}
      /\ cached.config.tools = DecorateTools(<<>>, row, scopes.system, 0, ttl)
      /\ cached.messages = DecorateMessages(turns, row, scopes.messages, used, ttl)
  <2> HIDE DEF turns, system, config, inf, scopes, ttl
  <2>1. QED
    BY <1>3, ZonesDecorated
<1>5. cached.config.tools = <<>>
  BY <1>4 DEF DecorateTools
<1> HIDE DEF turns, cached, config, system, scopes, used, framed, ttl
<1>6. PICK mark \in Nat : Decorated(cached.messages, framed, mark, ttl)
  BY <1>2, <1>3, <1>4, MarkedTurns
<1>7. Final(normal, framed, "chat", mark, ttl)
  BY <1>3, <1>6, NormalTurns
<1> HIDE DEF normal
<1>8. ~ ContainToolContent(normal)
  <2> DEFINE m == Len(framed)
  <2>1. m \in Nat /\ DOMAIN framed = 1 .. m
    BY <1>3
  <2>2. DOMAIN normal = 1 .. m
    BY <1>7, <2>1 DEF Final
  <2>3. ASSUME NEW n \in 1 .. m
        PROVE  /\ normal[n].content \in Seq(Blocks)
               /\ ~ Carries(normal[n].content, "toolUse") /\ ~ Carries(normal[n].content, "toolResult")
    <3>1. n \in DOMAIN framed
      BY <2>1
    <3>2. /\ CallsOf(normal[n].content) = CallsAt(framed, n)
          /\ ResultsOf(normal[n].content) = ResultsAt(framed, n)
          /\ normal[n].content \in Seq(Blocks)
      BY <1>3, <1>7, <3>1, FinalTurn, PlainPaired
    <3>3. QED
      BY <1>3, <3>1, <3>2, PlainCarries DEF Plain
  <2>4. QED
    BY <2>1, <2>2, <2>3, NoneCarried DEF ContainToolContent
<1>9. final.config = cached.config
  BY <1>4, <1>8 DEF InjectPlaceholder
<1> HIDE DEF final
<1>10. QED
  BY <1>1, <1>5, <1>9

LEMMA BareStep == Typed /\ BareThinking /\ [Next]_vars => BareThinking'
<1> SUFFICES ASSUME Typed, BareThinking, [Next]_vars PROVE BareThinking'
  OBVIOUS
<1>1. CASE /\ Submit /\ phase' = "upstream" /\ Refusal(options) = None /\ request' = Assemble(options)
           /\ UNCHANGED <<surface, model, keys, transcript, options, answers, unanswered>>
  <2> DEFINE req == ChatAssemble(transcript, model, options, keys, Setting)
             r   == ChatReasoning(transcript, model, options, keys)
  <2>1. SUFFICES ASSUME surface = "chat", RequiresSignatureReplay(model.path), ~keys.encoder,
                        Thinking(request'.inference), ~options.thinking
                 PROVE  Of(request'.config.tools, "tool") = <<>>
    BY <1>1 DEF BareThinking
  <2>2. request' = req
    BY <1>1, <2>1 DEF Assemble
  <2>3. req.inference = ChatInference(model, options, r)
    BY ChatAssembled
  <2>4. r.fields # {}
    <3>1. req.inference.fields = r.fields \cup {}
      <4> HIDE DEF r, req
      <4>1. QED
        BY <2>1, <2>3 DEF ChatInference
    <3>2. QED
      BY <2>1, <2>2, <3>1 DEF Thinking
  <2>5. ~ HasToolContext(transcript, options)
    BY <2>1, <2>4 DEF ChatReasoning, NoReasoning
  <2>6. transcript \in Seq(ChatMessages) /\ options.ttl \in STRING
    BY <2>1, OptionsType, TypedParts DEF Sent
  <2>7. req.config.tools = <<>>
    BY <2>5, <2>6, BareRequest, SettingAssumption DEF HasToolContext, Toolless
  <2> HIDE DEF req
  <2>8. QED
    BY <2>2, <2>7, AmongEmpty DEF Of
<1>2. CASE phase' = "client"
  BY <1>2 DEF BareThinking
<1>3. CASE UNCHANGED vars
  BY <1>3 DEF BareThinking, vars
<1>4. QED
  BY <1>1, <1>2, <1>3, NextHands DEF Hands

LEMMA FilledCarries ==
    ASSUME NEW content, NEW shape, NEW base, Fills(content, shape, base), NEW kind
    PROVE  Carries(content, kind) <=> Carries(shape, kind)
  BY DEF Fills, Carries

LEMMA SignedAppend ==
    ASSUME Typed, Typed', SignedKept, surface' = surface, model' = model, answers' = answers,
           NEW more, transcript' = transcript \o more, more \in Seq(Sent(surface))
    PROVE  SignedKept'
<1>1. QED
  BY SignedAre, SignedMore, TypedParts DEF Upstreams

\* With signed reasoning beside calls the encoder is on.
LEMMA EncoderOn ==
    ASSUME Typed, BareThinking, surface = "chat",
           NEW shape, NEW content, NEW keep, Replied(shape, content, keep),
           NEW answer, answer = [content |-> content, uncovered |-> Uncovered(content)],
           BindingOn(surface, model, answer)
    PROVE  keys.encoder
<1>1. /\ RequiresSignatureReplay(model.path) /\ ~answer.uncovered
      /\ Carries(content, "reasoning") /\ Carries(content, "toolUse")
  BY DEF BindingOn
<1>2. ~ (options.thinking /\ ~ keys.encoder)
  BY <1>1 DEF Uncovered
<1>3. CanAnswer(shape) /\ phase = "upstream" /\ Fills(content, shape, 10 * (Len(answers) + 1))
  BY DEF Replied
<1>4. QED
  BY <1>1, <1>2, <1>3, FilledCarries DEF BareThinking, CanAnswer

LEMMA ReplySigned == Typed /\ CallsAnswered /\ SignedKept /\ BareThinking /\ Reply => SignedKept'
<1> SUFFICES ASSUME Typed, CallsAnswered, SignedKept, BareThinking, Reply PROVE SignedKept'
  OBVIOUS
<1>1. PICK shape, content, keep : Replied(shape, content, keep)
  BY ReplyIs
<1>2. /\ content \in Seq(Answered) /\ keep \in BOOLEAN
  BY <1>1 DEF Replied, Fills
<1> DEFINE r == Rendered(content, keep)
           answer == [content |-> content, uncovered |-> Uncovered(content)]
<1>3. /\ transcript' = transcript \o r /\ answers' = Append(answers, answer)
      /\ surface' = surface /\ model' = model /\ phase = "upstream"
  BY <1>1 DEF Replied
<1>4. /\ surface \in Sides /\ transcript \in Seq(Sent(surface)) /\ unanswered = <<>>
      /\ keys \in Keyrings /\ answers \in Seq(Upstreams) /\ options \in Options
      /\ r \in Seq(Sent(surface))
  BY <1>2, <1>3, TypedParts, RenderedType DEF Upstreams
<1>5. SignedOf(surface, model, transcript \o r, answers)
  <2> HIDE DEF r
  <2>1. QED
    BY <1>4, SignedMore, SignedAre
<1>6. answer \in Upstreams
  BY <1>2 DEF Upstreams, Uncovered
<1>7. ASSUME BindingOn(surface, model, answer)
      PROVE  Opens(FramedOf(surface, transcript \o r), Rejoined(content))
  <2>1. /\ ~answer.uncovered /\ Carries(content, "reasoning")
        /\ Of(content, "reasoning") = SealedOf(content)
        /\ surface = "chat" => Carries(content, "toolUse")
        /\ OrderlyOn(surface, content)
    BY <1>7 DEF BindingOn
  <2>2. CASE surface = "chat"
    <3>1. keys.encoder
      <4> HIDE DEF answer
      <4>1. QED
        BY <1>1, <1>7, <2>2, EncoderOn DEF answer
    <3>2. PICK message : r = <<message>> /\ ChatAnswered(message, content, keys)
      BY <1>2, <2>2, RenderedType
    <3> HIDE DEF r
    <3>3. transcript \in Seq(ChatMessages) /\ message \in ChatMessages
      BY <1>4, <2>2, <3>2 DEF Sent, ChatAnswered
    <3>4. Paired(FramedOf("chat", transcript), {})
      BY <1>4, <2>2, NothingOpen, CallsAre DEF CallsOk
    <3>5. Opens(FramedOf("chat", Append(transcript, message)), content)
      BY <1>2, <1>4, <2>1, <2>2, <3>1, <3>2, <3>3, <3>4, ChatOpens
    <3>6. transcript \o r = Append(transcript, message)
      BY <3>2, <3>3
    <3>7. Rejoined(content) = content
      BY <1>2, <2>1, <2>2, RejoinedType
    <3>8. QED
      BY <2>2, <3>5, <3>6, <3>7
  <2>3. CASE surface # "chat"
    <3> DEFINE t == ThoughtItems(content)
               s == SaidItems(content)
               c == CallItems(content, options.tools)
    <3>1. r = (t \o s) \o c
      BY <1>2, <2>3, RenderedType
    <3>2. options.tools \in Seq(DeclaredTools)
      BY <1>4, OptionsType
    <3>3. c \in Seq(Calls) /\ t \in Seq(InputItems) /\ s \in Seq(InputItems)
      BY <1>2, <3>2, CallsType, ThoughtType, SaidType
    <3>4. surface = "responses" /\ transcript \in Seq(InputItems)
      BY <1>4, <2>3 DEF Sent, Sides
    <3>5. Saying(((transcript \o t) \o s) \o c, Rejoined(content))
      BY <1>2, <2>1, <2>3, <3>2, <3>4, ResponsesSaid DEF Uncovered, Nameless, NamelessOn
    <3> HIDE DEF r, t, s, c
    <3>6. transcript \o r = ((transcript \o t) \o s) \o c
      <4> DEFINE I == InputItems
      <4>1. transcript \in Seq(I) /\ t \in Seq(I) /\ s \in Seq(I) /\ c \in Seq(I)
        BY <3>3, <3>4, SeqWithin DEF Calls
      <4> HIDE DEF I
      <4>2. transcript \o ((t \o s) \o c) = ((transcript \o t) \o s) \o c
        BY <4>1, SMTT(30)
      <4>3. QED
        BY <3>1, <4>2
    <3>7. QED
      BY <3>4, <3>5, <3>6, SayingOpens
  <2>4. QED
    BY <2>2, <2>3
<1> HIDE DEF r
<1>8. SignedOf(surface, model, transcript \o r, Append(answers, answer))
  <2>1. answer.content = content
    OBVIOUS
  <2> HIDE DEF answer
  <2>2. QED
    BY <1>4, <1>5, <1>6, <1>7, <2>1, SignedOneMore
<1> HIDE DEF answer
<1>9. Typed'
  BY ReplyTyped
<1>10. QED
  BY <1>3, <1>8, <1>9, SignedAre

\* Every other action leaves the signed turns or adds messages behind them.
LEMMA SentAppend ==
    ASSUME Typed, Typed', SignedKept, surface' = surface, model' = model, answers' = answers,
           NEW msg \in Sent(surface), transcript' = Append(transcript, msg)
    PROVE  SignedKept'
<1> DEFINE T == Sent(surface)
<1>1. transcript \in Seq(T) /\ msg \in T
  BY TypedParts
<1> HIDE DEF T
<1>2. <<msg>> \in Seq(T) /\ transcript' = transcript \o <<msg>>
  BY <1>1, OneSeq
<1>3. QED
  BY <1>2, SignedAppend DEF T

LEMMA AskSigned == Typed /\ Typed' /\ SignedKept /\ Ask => SignedKept'
<1> SUFFICES ASSUME Typed, Typed', SignedKept, Ask PROVE SignedKept'
  OBVIOUS
<1> DEFINE T == Sent(surface)
<1>1. surface' = surface /\ model' = model /\ answers' = answers
  BY DEF Ask
<1>2. PICK o, q \in T : transcript' = IF transcript = <<>> THEN Append(Append(<<>>, o), q)
                                      ELSE Append(transcript, q)
  BY AskAppends
<1> HIDE DEF T
<1>3. CASE transcript = <<>>
  <2> DEFINE more == Append(Append(<<>>, o), q)
  <2>1. more \in Seq(T) /\ transcript' = more
    BY <1>2, <1>3
  <2> HIDE DEF more
  <2>2. QED
    BY <1>1, <1>3, <2>1, SignedAppend DEF T
<1>4. CASE transcript # <<>>
  BY <1>1, <1>2, <1>4, SentAppend DEF T
<1>5. QED
  BY <1>3, <1>4

LEMMA SignedStep ==
    Typed /\ CallsAnswered /\ SignedKept /\ BareThinking /\ [Next]_vars => SignedKept'
<1> SUFFICES ASSUME Typed, CallsAnswered, SignedKept, BareThinking, [Next]_vars PROVE SignedKept'
  OBVIOUS
<1>1. Typed'
  BY TypedStep
<1>2. ASSUME surface' = surface, model' = model, transcript' = transcript, answers' = answers
      PROVE  SignedKept'
  BY <1>1, <1>2, SignedAre
<1>3. CASE Ask
  BY <1>1, <1>3, AskSigned
<1>4. CASE AnswerCall
  <2>1. PICK i \in DOMAIN unanswered : transcript' = Append(transcript, Answer(unanswered[i]))
    BY <1>4 DEF AnswerCall
  <2>2. Answer(unanswered[i]) \in Sent(surface)
    <3> DEFINE C == Callable(surface)
    <3>1. surface \in Sides /\ unanswered \in Seq(C)
      BY TypedParts
    <3> HIDE DEF C
    <3>2. unanswered[i] \in C
      BY <3>1
    <3>3. QED
      BY <3>1, <3>2, AnswerType DEF C
  <2>3. QED
    BY <1>1, <1>4, <2>1, <2>2, SentAppend DEF AnswerCall
<1>5. CASE Resend
  <2>1. PICK i \in DOMAIN transcript : transcript' = Append(transcript, transcript[i])
    BY <1>5 DEF Resend
  <2>2. transcript[i] \in Sent(surface)
    <3> DEFINE T == Sent(surface)
    <3>1. transcript \in Seq(T)
      BY TypedParts
    <3> HIDE DEF T
    <3>2. QED
      BY <3>1 DEF T
  <2>3. QED
    BY <1>1, <1>5, <2>1, <2>2, SentAppend DEF Resend
<1>6. CASE Reply
  BY <1>6, ReplySigned
<1>7. CASE Reconsider \/ Restart \/ Fail \/ Submit \/ UNCHANGED vars
  BY <1>2, <1>7 DEF Reconsider, Restart, Fail, Submit, vars
<1>8. QED
  BY <1>3, <1>4, <1>5, <1>6, <1>7 DEF Next

\* What the transcript keeps goes into the request.
LEMMA FinalPrefix ==
    ASSUME NEW framed \in Seq(AllTurns), NEW side, NEW row, NEW content \in Seq(Blocks),
           Opens(framed, content),
           NEW full, full = Full(side, framed, row),
           NEW msgs, NEW mark, NEW ttl, Final(msgs, full, side, mark, ttl)
    PROVE  \E n \in DOMAIN msgs : msgs[n].role = "assistant" /\ IsPrefix(content, msgs[n].content)
<1>1. PICK n \in DOMAIN full : full[n].role = "assistant" /\ IsPrefix(content, full[n].content)
  BY OpensPrefix, FullKeeps
<1>2. QED
  BY <1>1 DEF Final

SignedInv == Typed /\ CallsAnswered /\ SignedKept /\ BareThinking /\ SignedTurnsIntact

LEMMA SubmitSigned ==
    ASSUME Typed, SignedKept, Submit, request' = Assemble(options),
           surface' = surface, model' = model, answers' = answers
    PROVE  SignedTurnsIntact'
<1>1. /\ surface \in Sides /\ transcript \in Seq(Sent(surface)) /\ options \in Options
      /\ answers \in Seq(Upstreams) /\ SignedOf(surface, model, transcript, answers)
  BY TypedParts, SignedAre DEF Upstreams
<1> DEFINE framed == FramedOf(surface, transcript)
           full == Full(surface, framed, model)
           req == Assemble(options)
<1>2. framed = Framed /\ framed \in Seq(AllTurns)
  BY <1>1, FramedNow, FramedType
<1>3. PICK system, tools, scopes, ttl :
         Built(req, full, surface, system, tools, model, scopes, ttl)
  BY <1>1, <1>2, AssembleBuilt
<1>4. PICK mark \in Nat : Final(req.messages, full, surface, mark, ttl)
  BY <1>3 DEF Built
<1>5. ASSUME NEW k \in DOMAIN answers, BindingOn(surface, model, answers[k])
      PROVE  \E n \in DOMAIN req.messages : /\ req.messages[n].role = "assistant"
                                            /\ IsPrefix(Rejoined(answers[k].content),
                                                        req.messages[n].content)
  <2>1. Opens(framed, Rejoined(answers[k].content))
    BY <1>1, <1>5 DEF SignedOf
  <2>2. full = Full(surface, framed, model)
    OBVIOUS
  <2> HIDE DEF framed, full, req
  <2>3. QED
    BY <1>1, <1>2, <1>4, <2>1, <2>2, FinalPrefix, GivenContents
<1> HIDE DEF req
<1>6. request' = req
  BY DEF req
<1>7. QED
  BY <1>5, <1>6 DEF SignedTurnsIntact, Binding, BindingOn, Orderly, OrderlyOn

LEMMA SignedInvStep == SignedInv /\ [Next]_vars => SignedInv'
<1> SUFFICES ASSUME SignedInv, [Next]_vars PROVE SignedInv'
  OBVIOUS
<1>1. Typed /\ CallsAnswered /\ SignedKept /\ BareThinking /\ SignedTurnsIntact
  BY DEF SignedInv
<1>2. SignedTurnsIntact'
  <2>1. CASE /\ Submit /\ request' = Assemble(options)
             /\ surface' = surface /\ model' = model /\ answers' = answers
    BY <1>1, <2>1, SubmitSigned
  <2>2. CASE phase' = "client"
    BY <2>2 DEF SignedTurnsIntact
  <2>3. CASE UNCHANGED vars
    BY <1>1, <2>3 DEF SignedTurnsIntact, Binding, Orderly, vars
  <2>4. QED
    BY <1>1, <2>1, <2>2, <2>3, NextHands DEF Hands
<1>3. QED
  BY <1>1, <1>2, TypedStep, CallsStep, SignedStep, BareStep DEF SignedInv

(* Signed reasoning comes back as it came: a turn that Bedrock answered    *)
(* with signed reasoning, next to calls on chat, opens one assistant turn  *)
(* of every later request, block by block but for its texts, which         *)
(* Responses joins into one, whatever was asked, resent, switched or       *)
(* rotated in between (translate.rs 436-661, responses_translate.rs        *)
(* 824-882, responses_response.rs 118-186, capsule.rs 156-259).            *)
THEOREM SignedServed == Spec => []SignedTurnsIntact
<1>1. Init => SignedInv
  <2>1. SUFFICES ASSUME Init PROVE SignedInv
    OBVIOUS
  <2>2. Typed /\ CallsAnswered
    BY <2>1, TypedInit, CallsInit
  <2>3. QED
    BY <2>1, <2>2 DEF SignedInv, SignedKept, BareThinking, SignedTurnsIntact, Init
<1>2. SignedInv => SignedTurnsIntact
  BY DEF SignedInv
<1>3. QED
  BY <1>1, <1>2, SignedInvStep, PTL DEF Spec

(***************************************************************************)
(* What is cached is met again.                                            *)
(***************************************************************************)
\* Turns grow: new ones come behind them, and the last one may get longer.
Prolongs(f, g) ==
    /\ Len(f) <= Len(g)
    /\ \A n \in 1 .. Len(f) - 1 : g[n] = f[n]
    /\ f # <<>> => /\ g[Len(f)].role = f[Len(f)].role
                   /\ Starts(f[Len(f)].content, g[Len(f)].content)

LEMMA ProlongsSame ==
    ASSUME NEW f \in Seq(AllTurns)
    PROVE  Prolongs(f, f)
<1>1. Len(f) \in Nat /\ (f # <<>> => Len(f) \in DOMAIN f)
  BY LenProperties, EmptySeq
<1>2. CASE f = <<>>
  BY <1>1, <1>2 DEF Prolongs
<1>3. CASE f # <<>>
  BY <1>1, <1>3, TurnSorts DEF Prolongs, Starts
<1>4. QED
  BY <1>2, <1>3

\* One more turn.
LEMMA PlaceProlongs ==
    ASSUME NEW side, NEW old \in Seq(AllTurns), NEW framed \in Seq(AllTurns), NEW turn \in AllTurns,
           Prolongs(old, framed)
    PROVE  Prolongs(old, Place(side, framed, turn))
<1> DEFINE r == Place(side, framed, turn)
           m == Len(framed)
           k == Len(old)
<1>1. /\ r \in Seq(AllTurns)
      /\ Splits(side, framed, turn) => Appended(r, framed, turn)
      /\ ~ Splits(side, framed, turn) => Extended(r, framed, turn)
  BY PlaceType
<1>2. m \in Nat /\ k \in Nat /\ k <= m /\ (old # <<>> => k > 0)
  BY LenProperties, EmptySeq DEF Prolongs
<1>3. \A n \in 1 .. k - 1 : framed[n] = old[n]
  BY DEF Prolongs
<1>4. old # <<>> => /\ framed[k].role = old[k].role
                    /\ Starts(old[k].content, framed[k].content)
  BY DEF Prolongs
<1> SUFFICES Prolongs(old, r)
  BY DEF r
<1> HIDE DEF r
<1>5. CASE Splits(side, framed, turn)
  <2>1. Len(r) = m + 1 /\ \A n \in 1 .. m : r[n] = framed[n]
    BY <1>1, <1>5 DEF Appended
  <2> HIDE DEF m, k
  <2>2. k <= Len(r)
    BY <1>2, <2>1
  <2>3. QED
    BY <1>2, <1>3, <1>4, <2>1, <2>2 DEF Prolongs, k
<1>6. CASE ~ Splits(side, framed, turn)
  <2>1. /\ framed # <<>> /\ Len(r) = m
        /\ \A n \in 1 .. m - 1 : r[n] = framed[n]
        /\ framed[m].role = turn.role /\ r[m].role = turn.role
        /\ r[m].content = framed[m].content \o turn.content
    BY <1>1, <1>6 DEF Extended
  <2>2. m > 0
    BY <1>2, <2>1, EmptySeq
  <2>3. \A n \in 1 .. k - 1 : r[n] = old[n]
    <3> HIDE DEF m, k
    <3>1. QED
      BY <1>2, <1>3, <2>1
  <2>4. CASE k < m
    <3>1. old # <<>> => r[k] = framed[k]
      <4> HIDE DEF m, k
      <4>1. QED
        BY <1>2, <2>1, <2>4
    <3>2. QED
      BY <1>2, <1>4, <2>1, <2>3, <3>1 DEF Prolongs
  <2>5. CASE k = m
    <3>1. CASE old = <<>>
      BY <1>2, <2>1, <2>3, <3>1 DEF Prolongs
    <3>2. CASE old # <<>>
      <4>1. /\ old[m].content \in Seq(Blocks) /\ framed[m].content \in Seq(Blocks)
            /\ turn.content \in Seq(Blocks)
        BY <1>2, <2>2, <2>5, TurnSorts, TurnBlocks DEF TurnsWith
      <4>2. Starts(old[m].content, framed[m].content \o turn.content)
        BY <1>4, <2>5, <3>2, <4>1, StartsConcat
      <4>3. QED
        BY <1>2, <1>4, <2>1, <2>3, <2>5, <3>2, <4>2 DEF Prolongs
    <3>3. QED
      BY <3>1, <3>2
  <2>6. QED
    BY <1>2, <2>4, <2>5
<1>7. QED
  BY <1>5, <1>6

\* More messages.
LEMMA MoreProlongs ==
    ASSUME NEW side, NEW sent \in Seq(Sent(side)), NEW more \in Seq(Sent(side)),
           NEW old \in Seq(AllTurns), Prolongs(old, FramedOf(side, sent))
    PROVE  Prolongs(old, FramedOf(side, sent \o more))
<1> DEFINE T == Sent(side)
           Q == {s \in Seq(T) : Prolongs(old, FramedOf(side, sent \o s))}
<1>1. sent \in Seq(T) /\ more \in Seq(T)
  OBVIOUS
<1> HIDE DEF T
<1>2. <<>> \in Q
  BY <1>1, EmptySeq
<1>3. ASSUME NEW s \in Seq(T), NEW e \in T, s \in Q PROVE Append(s, e) \in Q
  <2> DEFINE w == sent \o s
             framed == FramedOf(side, w)
  <2>1. w \in Seq(T) /\ sent \o Append(s, e) = Append(w, e) /\ Append(s, e) \in Seq(T)
    BY <1>1
  <2>2. Prolongs(old, framed)
    BY <1>3
  <2> HIDE DEF w
  <2>3. framed \in Seq(AllTurns) /\ FramedOf(side, Append(w, e)) = Heard(side, framed, e)
    BY <2>1, FramedType, FramedAppend DEF T
  <2> HIDE DEF framed
  <2>4. Prolongs(old, Heard(side, framed, e))
    <3>1. CASE TurnsOf(side, e) = <<>>
      BY <2>2, <3>1 DEF Heard
    <3>2. CASE TurnsOf(side, e) # <<>>
      <4>1. PICK t \in AllTurns : TurnsOf(side, e) = <<t>>
        BY <3>2, SentTurns DEF T
      <4>2. QED
        BY <2>2, <2>3, <4>1, PlaceProlongs, HeardTurn
    <3>3. QED
      BY <3>1, <3>2
  <2>5. QED
    BY <2>1, <2>3, <2>4
<1>4. Seq(T) \subseteq Q
  <2> HIDE DEF Q
  <2>1. QED
    BY <1>2, <1>3, SeqInductionSet
<1>5. QED
  BY <1>1, <1>4

\* A continuation.
LEMMA FullProlongs ==
    ASSUME NEW side, NEW old \in Seq(AllTurns), NEW framed \in Seq(AllTurns), NEW row,
           Prolongs(old, framed)
    PROVE  Prolongs(old, Full(side, framed, row)) /\ Full(side, framed, row) \in Seq(AllTurns)
<1>1. Prolongs(old, Place(side, framed, Continuation))
  BY ContinuationTurn, PlaceProlongs
<1>2. QED
  BY <1>1, FullForms, FullKeeps

(***************************************************************************)
(* The system blocks are those of the first message.                       *)
(***************************************************************************)
SystemOf(side, sent) == IF side = "chat" THEN ParseSystemPrompts(sent) ELSE PushSystemBlocks(sent)
Directs(side, msg)   == IF side = "chat" THEN msg.role = "system" ELSE IsSystem(msg)

LEMMA SystemAppend ==
    ASSUME NEW side, NEW sent \in Seq(Sent(side)), NEW msg \in Sent(side), ~ Directs(side, msg)
    PROVE  SystemOf(side, Append(sent, msg)) = SystemOf(side, sent)
<1> DEFINE M == Sent(side)
           B == Seq(Spoken)
           g == [x \in M |-> IF Directs(side, x) THEN x.parts ELSE <<>>]
<1>1. Takes(g, M, B)
  <2>1. \A x \in M : Directs(side, x) => x.parts \in B
    BY ChatMessageKinds, InputItemKinds DEF Directs, IsSystem, Sent
  <2>2. <<>> \in B
    BY EmptySeq
  <2> HIDE DEF M, B
  <2>3. QED
    BY <2>1, <2>2 DEF Takes
<1>2. \A r \in Seq(M) : SystemOf(side, r) = Among(FlatMap(r, g), Spoken \ {Blank})
  <2>1. TAKE r \in Seq(M)
  <2> DEFINE f == [i \in DOMAIN r |-> IF Directs(side, r[i]) THEN r[i].parts ELSE <<>>]
  <2>2. \A i \in DOMAIN r : g[r[i]] = IF Directs(side, r[i]) THEN r[i].parts ELSE <<>>
    OBVIOUS
  <2> HIDE DEF g
  <2>3. SystemOf(side, r) = Among(FlattenSeq(f), Spoken \ {Blank})
    <3>1. CASE side = "chat"
      <4>1. f = [i \in DOMAIN r |-> IF r[i].role = "system" THEN r[i].parts ELSE <<>>]
        BY <3>1 DEF Directs
      <4> HIDE DEF f
      <4>2. QED
        BY <3>1, <4>1 DEF SystemOf, ParseSystemPrompts, ParseContentParts
    <3>2. CASE side # "chat"
      <4>1. f = [i \in DOMAIN r |-> IF IsSystem(r[i]) THEN r[i].parts ELSE <<>>]
        BY <3>2 DEF Directs
      <4> HIDE DEF f
      <4>2. QED
        BY <3>2, <4>1 DEF SystemOf, PushSystemBlocks, ParseMessageContent
    <3>3. QED
      BY <3>1, <3>2
  <2>4. QED
    BY <2>2, <2>3 DEF FlatMap, Mapped
<1>3. g[msg] = <<>>
  OBVIOUS
<1> HIDE DEF g, M, B
<1>4. sent \in Seq(M) /\ msg \in M /\ Append(sent, msg) \in Seq(M)
  BY AppendProperties DEF M
<1>5. FlatMap(sent, g) \in Seq(Spoken) /\ FlatMap(Append(sent, msg), g) = FlatMap(sent, g) \o g[msg]
  BY <1>1, <1>4, FlatMapAppend DEF B
<1>6. QED
  BY <1>2, <1>3, <1>4, <1>5, ConcatEmptySeq

LEMMA SystemMore ==
    ASSUME NEW side, NEW sent \in Seq(Sent(side)), NEW more \in Seq(Sent(side)),
           \A i \in DOMAIN more : ~ Directs(side, more[i])
    PROVE  SystemOf(side, sent \o more) = SystemOf(side, sent)
<1> DEFINE T == {msg \in Sent(side) : ~ Directs(side, msg)}
           Q == {s \in Seq(T) : SystemOf(side, sent \o s) = SystemOf(side, sent)}
           U == Sent(side)
<1>1. sent \in Seq(U) /\ more \in Seq(T) /\ T \subseteq U /\ \A e \in T : ~ Directs(side, e)
  <2>1. more \in [1 .. Len(more) -> T] /\ Len(more) \in Nat
    OBVIOUS
  <2> HIDE DEF T
  <2>2. QED
    BY <2>1 DEF T
<1> HIDE DEF T, U
<1>2. <<>> \in Q
  BY <1>1, EmptySeq
<1>3. ASSUME NEW s \in Seq(T), NEW e \in T, s \in Q PROVE Append(s, e) \in Q
  <2> DEFINE w == sent \o s
  <2>1. w \in Seq(U) /\ sent \o Append(s, e) = Append(w, e) /\ Append(s, e) \in Seq(T) /\ e \in U
    BY <1>1, SeqWithin
  <2>2. SystemOf(side, w) = SystemOf(side, sent)
    BY <1>3
  <2> HIDE DEF w
  <2>3. QED
    BY <1>1, <2>1, <2>2, SystemAppend DEF U
<1>4. Seq(T) \subseteq Q
  <2> HIDE DEF Q
  <2>1. QED
    BY <1>2, <1>3, SeqInductionSet
<1>5. QED
  BY <1>1, <1>4

(***************************************************************************)
(* The entries of a request: its blocks, each with its turn and role.      *)
(***************************************************************************)
Roles     == {"system", "user", "assistant"}
Entries   == Nat \X Roles \X Blocks
NonPoints == {e \in Entries : ~ IsPoint(e)}

LEMMA Bared ==
    ASSUME NEW s \in Seq(Entries)
    PROVE  WithoutPoints(s) = Among(s, NonPoints) /\ WithoutPoints(s) \in Seq(Entries)
<1> DEFINE E == Entries
           S == {e \in ToSet(s) : ~ IsPoint(e)}
<1>1. \A k \in DOMAIN s : s[k] \in S <=> s[k] \in NonPoints
  <2>1. \A k \in DOMAIN s : s[k] \in E
    <3> HIDE DEF E
    <3>1. QED
      BY DEF E
  <2>2. QED
    BY <2>1 DEF NonPoints, ToSet
<1> HIDE DEF S, E
<1>2. s \in Seq(E)
  BY DEF E
<1>3. Among(s, NonPoints) \in Seq(E)
  BY <1>2, AmongType
<1>4. QED
  BY <1>1, <1>2, <1>3, AmongSame DEF E, WithoutPoints, S

MarkAs(n, role, c) == [i \in DOMAIN c |-> <<n, role, c[i]>>]

\* Entries of a content.
LEMMA MarkType ==
    ASSUME NEW n \in Nat, NEW role \in Roles, NEW c \in Seq(Blocks)
    PROVE  /\ MarkAs(n, role, c) \in Seq(Entries) /\ Len(MarkAs(n, role, c)) = Len(c)
           /\ DOMAIN MarkAs(n, role, c) = 1 .. Len(c) /\ Len(c) \in Nat
           /\ \A i \in 1 .. Len(c) : /\ MarkAs(n, role, c)[i] = <<n, role, c[i]>>
                                     /\ IsPoint(MarkAs(n, role, c)[i]) <=> c[i].kind = "cachePoint"
<1> DEFINE B == Blocks
           k == Len(c)
           w == MarkAs(n, role, c)
<1>1. k \in Nat /\ DOMAIN c = 1 .. k /\ \A i \in 1 .. k : c[i] \in B
  <2>1. c \in Seq(B)
    OBVIOUS
  <2> HIDE DEF B
  <2>2. QED
    BY <2>1, LenProperties, ElementOfSeq
<1>2. w = [i \in 1 .. k |-> <<n, role, c[i]>>]
  BY <1>1 DEF MarkAs
<1> HIDE DEF B, k, w
<1>3. w \in Seq(Entries) /\ Len(w) = k /\ DOMAIN w = 1 .. k
  <2> DEFINE E == Entries
  <2>1. \A i \in 1 .. k : <<n, role, c[i]>> \in E
    BY <1>1 DEF Entries, B
  <2> HIDE DEF E
  <2>2. w \in [1 .. k -> E]
    BY <1>2, <2>1
  <2>3. QED
    BY <1>1, <2>2 DEF E
<1>4. QED
  BY <1>1, <1>2, <1>3 DEF k, w, IsPoint

\* A cache point behind a content makes no difference to what stays without it.
LEMMA MarkBare ==
    ASSUME NEW n \in Nat, NEW role \in Roles, NEW c \in Seq(Blocks), ~ Carries(c, "cachePoint"),
           NEW ttl \in STRING
    PROVE  /\ Among(MarkAs(n, role, c), NonPoints) = MarkAs(n, role, c)
           /\ Among(MarkAs(n, role, Append(c, CachePoint(ttl))), NonPoints) = MarkAs(n, role, c)
           /\ \A i \in DOMAIN MarkAs(n, role, c) : ~ IsPoint(MarkAs(n, role, c)[i])
<1> DEFINE p == CachePoint(ttl)
           d == Append(c, p)
           v == MarkAs(n, role, c)
           w == MarkAs(n, role, d)
           e == <<n, role, p>>
<1>1. /\ v \in Seq(Entries) /\ DOMAIN v = 1 .. Len(c) /\ Len(c) \in Nat
      /\ \A i \in 1 .. Len(c) : v[i] = <<n, role, c[i]>>
      /\ \A i \in 1 .. Len(c) : IsPoint(v[i]) <=> c[i].kind = "cachePoint"
  BY MarkType
<1>2. \A i \in DOMAIN v : ~ IsPoint(v[i])
  BY <1>1 DEF Carries
<1>3. p \in Blocks /\ p.kind = "cachePoint"
  BY PointFields
<1>4. e \in Entries /\ IsPoint(e)
  BY <1>3 DEF Entries, IsPoint
<1>5. w = Append(v, e)
  <2>1. DOMAIN d = 1 .. Len(c) + 1 /\ (\A i \in 1 .. Len(c) : d[i] = c[i]) /\ d[Len(c) + 1] = p
        /\ Len(v) = Len(c)
    <3> DEFINE B == Blocks
    <3> HIDE DEF B, p
    <3>1. Len(v) = Len(c)
      BY MarkType
    <3>2. QED
      BY <1>3, <3>1, AppendProperties, LenProperties
  <2> DEFINE E == Entries
  <2>2. v \in Seq(E) /\ e \in E
    BY <1>1, <1>4
  <2>3. w \in Seq(E) /\ Len(w) = Len(c) + 1
    <3>1. d \in Seq(Blocks) /\ Len(d) = Len(c) + 1
      BY <1>3, AppendProperties
    <3> HIDE DEF d
    <3>2. QED
      BY <3>1, MarkType
  <2>4. \A i \in 1 .. Len(c) + 1 : w[i] = <<n, role, d[i]>>
    <3> HIDE DEF d, e, v
    <3>1. QED
      BY <2>1 DEF MarkAs
  <2> HIDE DEF E, w, d, p
  <2>5. \A i \in 1 .. Len(c) : w[i] = v[i]
    <3> HIDE DEF v, e
    <3>1. \A i \in 1 .. Len(c) : i \in 1 .. Len(c) + 1
      BY <1>1
    <3>2. QED
      BY <1>1, <2>1, <2>4, <3>1
  <2>6. w[Len(c) + 1] = e
    BY <1>1, <2>1, <2>4
  <2> HIDE DEF e, v
  <2> DEFINE y == Append(v, e)
  <2> HIDE DEF y
  <2>7. \A i \in 1 .. Len(c) + 1 : i \in 1 .. Len(c) \/ i = Len(c) + 1
    BY <1>1
  <2>8. w = y
    BY <2>1, <2>2, <2>3, <2>5, <2>6, <2>7, SameSeq, AppendProperties DEF y
  <2>9. QED
    BY <2>8 DEF y
<1> HIDE DEF w, v, e
<1>6. \A i \in DOMAIN v : v[i] \in NonPoints
  <2> DEFINE E == Entries
  <2>1. \A i \in DOMAIN v : v[i] \in E
    <3>1. v \in Seq(E)
      BY <1>1
    <3> HIDE DEF E
    <3>2. QED
      BY <3>1
  <2>2. QED
    BY <1>2, <2>1 DEF NonPoints
<1>7. Among(v, NonPoints) = v
  BY <1>1, <1>6, AmongAll
<1>8. e \notin NonPoints
  BY <1>4 DEF NonPoints
<1>9. QED
  BY <1>1, <1>2, <1>4, <1>5, <1>7, <1>8, AmongAppend DEF v, w, d, p

LEMMA MarkStarts ==
    ASSUME NEW n \in Nat, NEW role \in Roles, NEW c \in Seq(Blocks), NEW d \in Seq(Blocks),
           Starts(c, d)
    PROVE  Starts(MarkAs(n, role, c), MarkAs(n, role, d))
<1>1. /\ Len(MarkAs(n, role, c)) = Len(c) /\ Len(MarkAs(n, role, d)) = Len(d)
      /\ Len(c) \in Nat /\ Len(d) \in Nat
      /\ \A i \in 1 .. Len(c) : MarkAs(n, role, c)[i] = <<n, role, c[i]>>
      /\ \A i \in 1 .. Len(d) : MarkAs(n, role, d)[i] = <<n, role, d[i]>>
  BY MarkType
<1>2. Len(c) <= Len(d) /\ \A i \in 1 .. Len(c) : d[i] = c[i]
  BY DEF Starts
<1> DEFINE v == MarkAs(n, role, c)
           w == MarkAs(n, role, d)
<1>3. \A i \in 1 .. Len(c) : w[i] = v[i]
  <2>1. \A i \in 1 .. Len(c) : w[i] = <<n, role, d[i]>> /\ v[i] = <<n, role, c[i]>>
    BY <1>1, <1>2
  <2> HIDE DEF v, w
  <2>2. QED
    BY <1>2, <2>1
<1> HIDE DEF v, w
<1>4. QED
  BY <1>1, <1>2, <1>3 DEF v, w, Starts

(***************************************************************************)
(* Prefixes of what is flattened.                                          *)
(***************************************************************************)
Upto(ss, m) == [n \in 1 .. m |-> ss[n]]

\* What is kept of the whole is kept part by part.
LEMMA AmongFlat ==
    ASSUME NEW T, NEW ss \in Seq(Seq(T)), NEW S
    PROVE  Among(FlattenSeq(ss), S) = FlatMap(ss, [x \in Seq(T) |-> Among(x, S)])
<1> DEFINE V == Seq(T)
           g == [x \in V |-> Among(x, S)]
           Q == {r \in Seq(V) : Among(FlattenSeq(r), S) = FlatMap(r, g)}
<1>1. Takes(g, V, Seq(T))
  BY AmongType DEF Takes
<1>2. \A x \in V : g[x] = Among(x, S) /\ x \in Seq(T)
  OBVIOUS
<1> HIDE DEF g
<1>3. <<>> \in Q
  BY FlattenEmpty, AmongEmpty, FlatMapNothing, EmptySeq
<1>4. ASSUME NEW r \in Seq(V), NEW e \in V, r \in Q PROVE Append(r, e) \in Q
  <2>1. FlattenSeq(Append(r, e)) = FlattenSeq(r) \o e /\ FlattenSeq(r) \in Seq(T) /\ e \in Seq(T)
    BY FlattenAppend, FlattenType
  <2>2. Among(FlattenSeq(Append(r, e)), S) = Among(FlattenSeq(r), S) \o Among(e, S)
    BY <2>1, AmongConcat
  <2> HIDE DEF V
  <2>3. FlatMap(Append(r, e), g) = FlatMap(r, g) \o g[e]
    BY <1>1, FlatMapAppend
  <2>4. Append(r, e) \in Seq(V)
    BY AppendProperties
  <2>5. QED
    BY <1>2, <1>4, <2>2, <2>3, <2>4
<1>5. Seq(V) \subseteq Q
  <2> HIDE DEF Q, V
  <2>1. QED
    BY <1>3, <1>4, SeqInductionSet
<1>6. QED
  BY <1>5 DEF g

\* The first parts, and behind them elements of the others.
Behind(rest, ss, m) ==
    \A i \in DOMAIN rest : \E n \in m + 1 .. Len(ss) : \E k \in DOMAIN ss[n] : rest[i] = ss[n][k]

LEMMA FlatSplit ==
    ASSUME NEW T, NEW ss \in Seq(Seq(T)), NEW m \in 0 .. Len(ss)
    PROVE  \E rest \in Seq(T) : /\ FlattenSeq(ss) = FlattenSeq(Upto(ss, m)) \o rest
                                /\ Behind(rest, ss, m)
<1> DEFINE V == Seq(T)
           Fits(r, k) == \E rest \in Seq(T) : /\ FlattenSeq(r) = FlattenSeq(Upto(r, k)) \o rest
                                              /\ Behind(rest, r, k)
           Q == {r \in Seq(V) : \A k \in 0 .. Len(r) : Fits(r, k)}
<1>1. ASSUME NEW r \in Seq(V) PROVE Fits(r, Len(r))
  <2>1. Upto(r, Len(r)) = r
    BY DEF Upto
  <2>2. FlattenSeq(r) \in Seq(T) /\ FlattenSeq(r) \o <<>> = FlattenSeq(r) /\ <<>> \in Seq(T)
    BY FlattenType, ConcatEmptySeq, EmptySeq
  <2>3. Behind(<<>>, r, Len(r))
    BY DEF Behind
  <2>4. QED
    BY <2>1, <2>2, <2>3
<1>2. <<>> \in Q
  <2>1. <<>> \in Seq(V) /\ Len(<<>>) = 0
    BY EmptySeq
  <2>2. Fits(<<>>, 0)
    BY <1>1, <2>1
  <2> HIDE DEF V, Fits
  <2>3. QED
    BY <2>1, <2>2
<1>3. ASSUME NEW r \in Seq(V), NEW e \in V, r \in Q PROVE Append(r, e) \in Q
  <2> DEFINE w == Append(r, e)
             n == Len(r)
  <2>1. /\ w \in Seq(V) /\ n \in Nat /\ DOMAIN r = 1 .. n /\ Len(w) = n + 1
        /\ \A k \in 1 .. n : w[k] = r[k]
        /\ w[n + 1] = e
    BY AppendProperties, LenProperties
  <2>2. FlattenSeq(w) = FlattenSeq(r) \o e /\ FlattenSeq(r) \in Seq(T) /\ e \in Seq(T)
    BY FlattenAppend, FlattenType
  <2> HIDE DEF w, n
  <2>3. ASSUME NEW k \in 0 .. n PROVE Fits(w, k)
    <3>1. PICK rest \in Seq(T) : FlattenSeq(r) = FlattenSeq(Upto(r, k)) \o rest /\ Behind(rest, r, k)
      BY <1>3 DEF n
    <3>2. Upto(w, k) = Upto(r, k) /\ Upto(r, k) \in Seq(V)
      <4> HIDE DEF V
      <4>1. QED
        BY <2>1, <2>3 DEF Upto
    <3>3. FlattenSeq(w) = FlattenSeq(Upto(w, k)) \o (rest \o e)
      <4> DEFINE head == FlattenSeq(Upto(r, k))
      <4>1. FlattenSeq(w) = (head \o rest) \o e /\ head \in Seq(T)
        BY <2>2, <3>1, <3>2, FlattenType
      <4>2. rest \in Seq(T) /\ e \in Seq(T)
        BY <2>2
      <4> HIDE DEF head
      <4>3. (head \o rest) \o e = head \o (rest \o e)
        BY <4>1, <4>2, ConcatThree, SMTT(30)
      <4>4. QED
        BY <3>2, <4>1, <4>3 DEF head
    <3>4. rest \o e \in Seq(T) /\ InARow(rest \o e, rest, e)
      BY <2>2, ConcatElements
    <3>5. Behind(rest \o e, w, k)
      <4>1. SUFFICES ASSUME NEW i \in DOMAIN (rest \o e)
                     PROVE  \E h \in k + 1 .. Len(w) : \E j \in DOMAIN w[h] : (rest \o e)[i] = w[h][j]
        BY DEF Behind
      <4>2. CASE \E j \in DOMAIN rest : (rest \o e)[i] = rest[j]
        <5>1. PICK g \in DOMAIN rest : (rest \o e)[i] = rest[g]
          BY <4>2
        <5>2. PICK h \in k + 1 .. n : \E j \in DOMAIN r[h] : (rest \o e)[i] = r[h][j]
          <6>1. \E h \in k + 1 .. Len(r) : \E j \in DOMAIN r[h] : rest[g] = r[h][j]
            BY <3>1 DEF Behind
          <6>2. QED
            BY <5>1, <6>1 DEF n
        <5>3. h \in k + 1 .. Len(w) /\ w[h] = r[h]
          BY <2>1, <2>3
        <5>4. QED
          BY <5>2, <5>3
      <4>3. CASE \E j \in DOMAIN e : (rest \o e)[i] = e[j]
        <5>1. n + 1 \in k + 1 .. Len(w)
          BY <2>1, <2>3
        <5>2. QED
          BY <2>1, <4>3, <5>1
      <4>4. QED
        BY <3>4, <4>2, <4>3 DEF InARow
    <3>6. QED
      BY <3>3, <3>4, <3>5
  <2>4. \A k \in 0 .. Len(w) : Fits(w, k)
    <3> HIDE DEF Fits
    <3>1. QED
      BY <1>1, <2>1, <2>3
  <2>5. w \in Q
    <3> HIDE DEF Fits
    <3>1. QED
      BY <2>1, <2>4
  <2>6. QED
    BY <2>5 DEF w
<1>4. Seq(V) \subseteq Q
  <2> HIDE DEF Q, V
  <2>1. QED
    BY <1>2, <1>3, SeqInductionSet
<1>5. ss \in Q
  BY <1>4
<1>6. Fits(ss, m)
  <2> HIDE DEF Fits, V
  <2>1. QED
    BY <1>5
<1>7. QED
  BY <1>6

LEMMA StartsBehind ==
    ASSUME NEW T, NEW x \in Seq(T), NEW p \in Seq(T), NEW c \in Seq(T), Starts(p, c)
    PROVE  Starts(x \o p, x \o c)
<1>1. QED
  BY ConcatProperties DEF Starts

LEMMA UptoNext ==
    ASSUME NEW T, NEW s \in Seq(T), NEW m \in 1 .. Len(s)
    PROVE  /\ Upto(s, m - 1) \in Seq(T) /\ s[m] \in T
           /\ Upto(s, m) = Append(Upto(s, m - 1), s[m])
<1> DEFINE x == Upto(s, m - 1)
           y == Upto(s, m)
           z == Append(x, s[m])
<1>1. \A n \in 1 .. m : s[n] \in T
  OBVIOUS
<1>2. /\ DOMAIN x = 1 .. m - 1 /\ (\A n \in 1 .. m - 1 : x[n] = s[n])
      /\ DOMAIN y = 1 .. m /\ (\A n \in 1 .. m : y[n] = s[n])
  BY DEF Upto
<1>3. x \in [1 .. m - 1 -> T] /\ y \in [1 .. m -> T]
  BY <1>1 DEF Upto
<1>4. m \in Nat /\ m - 1 \in Nat /\ m \in 1 .. m
  OBVIOUS
<1> HIDE DEF x, y
<1>5. x \in Seq(T) /\ Len(x) = m - 1 /\ y \in Seq(T) /\ Len(y) = m
  BY <1>3, <1>4
<1>6. z \in Seq(T) /\ Len(z) = m /\ (\A n \in 1 .. m - 1 : z[n] = x[n]) /\ z[m] = s[m]
  BY <1>1, <1>4, <1>5, AppendProperties
<1> HIDE DEF z
<1>7. \A n \in 1 .. m : y[n] = z[n]
  BY <1>2, <1>4, <1>6
<1>8. y = z
  BY <1>5, <1>6, <1>7, SameSeq
<1>9. QED
  BY <1>1, <1>4, <1>5, <1>8 DEF x, y, z

\* Parts that are the same up to the last one, which is a beginning.
LEMMA FlatStarts ==
    ASSUME NEW T, NEW b \in Seq(Seq(T)), NEW d \in Seq(Seq(T)), NEW m \in Nat, m > 0,
           Len(b) = m, m <= Len(d), \A n \in 1 .. m - 1 : b[n] = d[n], Starts(b[m], d[m])
    PROVE  Starts(FlattenSeq(b), FlattenSeq(d))
<1> DEFINE V == Seq(T)
           x == Upto(b, m - 1)
<1>1. x \in Seq(V) /\ b[m] \in V /\ d[m] \in V /\ b = Append(x, b[m]) /\ Upto(d, m) = Append(x, d[m])
  <2>1. b \in Seq(V) /\ d \in Seq(V) /\ m \in 1 .. Len(b) /\ m \in 1 .. Len(d)
    OBVIOUS
  <2> HIDE DEF V
  <2>2. x \in Seq(V) /\ b[m] \in V /\ Upto(b, m) = Append(x, b[m])
    BY <2>1, UptoNext
  <2>3. Upto(d, m) = Append(Upto(d, m - 1), d[m]) /\ d[m] \in V
    BY <2>1, UptoNext
  <2>4. Upto(d, m - 1) = x
    BY DEF Upto
  <2>5. Upto(b, m) = b
    BY <2>1 DEF Upto
  <2> HIDE DEF x
  <2>6. QED
    BY <2>2, <2>3, <2>4, <2>5
<1>2. /\ FlattenSeq(x) \in Seq(T) /\ b[m] \in Seq(T) /\ d[m] \in Seq(T)
      /\ FlattenSeq(Append(x, b[m])) = FlattenSeq(x) \o b[m]
      /\ FlattenSeq(Append(x, d[m])) = FlattenSeq(x) \o d[m]
  BY <1>1, FlattenAppend, FlattenType
<1>3. PICK rest \in Seq(T) : FlattenSeq(d) = FlattenSeq(Upto(d, m)) \o rest
  <2>1. m \in 0 .. Len(d)
    OBVIOUS
  <2>2. \E rest \in Seq(T) : /\ FlattenSeq(d) = FlattenSeq(Upto(d, m)) \o rest
                             /\ Behind(rest, d, m)
    BY <2>1, FlatSplit, Zenon
  <2>3. QED
    BY <2>2
<1> HIDE DEF x
<1>4. Starts(FlattenSeq(x) \o b[m], FlattenSeq(x) \o d[m])
  BY <1>2, StartsBehind
<1>5. FlattenSeq(x) \o d[m] \in Seq(T) /\ FlattenSeq(x) \o b[m] \in Seq(T)
  BY <1>2
<1>6. QED
  BY <1>1, <1>2, <1>3, <1>4, <1>5, StartsConcat

(***************************************************************************)
(* A content of a request without its cache point.                         *)
(***************************************************************************)
BareAt(side, framed, n) ==
    IF GivesAt(framed, n) THEN Keeps(side, framed, n) ELSE framed[n].content

\* What a turn is in a request: its bare content, with a point behind it at the mark.
LEMMA FinalBare ==
    ASSUME NEW framed \in Seq(AllTurns), NEW side \in {"chat", "responses"},
           NEW msgs, NEW mark, NEW ttl \in STRING, Final(msgs, framed, side, mark, ttl),
           NEW n \in DOMAIN framed
    PROVE  LET c == BareAt(side, framed, n)
           IN  /\ c \in Seq(Blocks) /\ ~ Carries(c, "cachePoint")
               /\ msgs[n].role = framed[n].role /\ framed[n].role \in {"user", "assistant"}
               /\ msgs[n].content = IF n = mark THEN Append(c, CachePoint(ttl)) ELSE c
<1> DEFINE c == BareAt(side, framed, n)
           d == framed[n].content
<1>1. /\ AsksAt(framed, n) \/ GivesAt(framed, n) \/ framed[n].role = "assistant"
      /\ AsksAt(framed, n) => ~ GivesAt(framed, n) /\ framed[n].role # "assistant"
      /\ GivesAt(framed, n) => framed[n].role # "assistant"
      /\ framed[n].role \in {"user", "assistant"}
  BY TurnSorts
<1>2. d \in Seq(Blocks) /\ ~ Carries(d, "cachePoint")
  <2>1. d \in Seq(Blocks) /\ (d \in Seq(Spoken) \/ d \in Seq(Results) \/ d \in Seq(Answered))
    BY TurnSorts, TurnClass DEF AsksAt, GivesAt, Asks, Gives, Says
  <2>2. /\ \A b \in Spoken : b.kind # "cachePoint"
        /\ \A b \in Results : b.kind # "cachePoint"
        /\ \A b \in Answered : b.kind # "cachePoint"
    BY DEF Spoken, Results, Answered, BlocksOf
  <2> HIDE DEF d
  <2>3. QED
    BY <2>1, <2>2, IdsNone
<1>3. CASE GivesAt(framed, n)
  <2>1. c = Keeps(side, framed, n)
    BY <1>3 DEF BareAt
  <2>2. c \in Seq(Results)
    <3>1. d \in Seq(Results)
      BY <1>3 DEF GivesAt, Gives
    <3>2. c = d \/ c = KeepExpected(d, CallsAt(framed, n - 1))
      BY <2>1 DEF Keeps
    <3> HIDE DEF c, d
    <3>3. QED
      BY <3>1, <3>2, AtPlaces DEF KeepExpected
  <2> HIDE DEF c
  <2>3. \A b \in Results : b.kind # "cachePoint"
    BY DEF Results
  <2>4. QED
    BY <1>1, <1>3, <2>1, <2>2, <2>3, IdsNone, SomeBlocks DEF c, Final
<1>4. CASE ~ GivesAt(framed, n)
  <2>1. c = d
    BY <1>4 DEF BareAt
  <2>2. CASE AsksAt(framed, n)
    <3>1. msgs[n].content = (IF n = mark THEN Append(d, CachePoint(ttl)) ELSE d)
          /\ msgs[n].role = framed[n].role
      BY <2>2 DEF Final
    <3> HIDE DEF c, d
    <3>2. QED
      BY <1>1, <1>2, <2>1, <3>1 DEF c
  <2>3. CASE framed[n].role = "assistant"
    <3>1. msgs[n].content = d /\ n # mark /\ msgs[n].role = framed[n].role
      BY <1>1, <2>3 DEF Final
    <3> HIDE DEF c, d
    <3>2. QED
      BY <1>1, <1>2, <2>1, <3>1 DEF c
  <2>4. QED
    BY <1>1, <1>4, <2>2, <2>3
<1>5. QED
  BY <1>3, <1>4

\* A question that is longer now is a question still.
LEMMA AsksOn ==
    ASSUME NEW f \in Seq(AllTurns), NEW g \in Seq(AllTurns), NEW m \in DOMAIN f, m \in DOMAIN g,
           AsksAt(f, m), g[m].role = f[m].role, Starts(f[m].content, g[m].content)
    PROVE  ~ GivesAt(g, m)
<1>1. SUFFICES ASSUME GivesAt(g, m) PROVE FALSE
  OBVIOUS
<1> DEFINE c == f[m].content
           d == g[m].content
<1>2. c \in Seq(Spoken) /\ c # <<>> /\ d \in Seq(Results)
  BY <1>1 DEF AsksAt, GivesAt, Asks, Gives
<1>3. Starts(c, d)
  OBVIOUS
<1> HIDE DEF c, d
<1>4. Len(c) \in Nat /\ Len(c) > 0 /\ c[1] \in Spoken
  BY <1>2, EmptySeq, LenProperties, ElementOfSeq
<1>5. Len(d) \in Nat /\ Len(c) <= Len(d) /\ 1 \in 1 .. Len(c) /\ d[1] = c[1]
  BY <1>2, <1>3, <1>4 DEF Starts
<1>6. d[1] \in Results
  BY <1>2, <1>4, <1>5, ElementOfSeq
<1>7. QED
  BY <1>4, <1>5, <1>6 DEF Results, Spoken, BlocksOf

\* The turns before the last one keep their bare contents, and so does the last
\* one, if it asks, as a beginning.
LEMMA BareKept ==
    ASSUME NEW f \in Seq(AllTurns), NEW g \in Seq(AllTurns), Prolongs(f, g), NEW side,
           NEW n \in DOMAIN f
    PROVE  /\ n \in DOMAIN g /\ g[n].role = f[n].role
           /\ n < Len(f) => BareAt(side, g, n) = BareAt(side, f, n)
           /\ AsksAt(f, n) => Starts(BareAt(side, f, n), BareAt(side, g, n))
<1>1. /\ Len(f) \in Nat /\ Len(g) \in Nat /\ DOMAIN f = 1 .. Len(f) /\ DOMAIN g = 1 .. Len(g)
      /\ f # <<>>
  BY EmptySeq
<1>2. /\ Len(f) <= Len(g)
      /\ \A k \in 1 .. Len(f) - 1 : g[k] = f[k]
      /\ g[Len(f)].role = f[Len(f)].role
      /\ Starts(f[Len(f)].content, g[Len(f)].content)
  BY <1>1 DEF Prolongs
<1>3. n \in DOMAIN g /\ (n < Len(f) => g[n] = f[n]) /\ (n < Len(f) \/ n = Len(f))
  BY <1>1, <1>2
<1>4. g[n].role = f[n].role
  BY <1>2, <1>3
<1>5. ASSUME n < Len(f) PROVE BareAt(side, g, n) = BareAt(side, f, n)
  <2>1. g[n] = f[n] /\ (n > 1 => g[n - 1] = f[n - 1])
    BY <1>1, <1>2, <1>5
  <2>2. QED
    BY <2>1 DEF BareAt, Keeps, CallsAt, GivesAt
<1>6. ASSUME AsksAt(f, n) PROVE Starts(BareAt(side, f, n), BareAt(side, g, n))
  <2>1. Starts(f[n].content, g[n].content)
    <3>1. CASE n < Len(f)
      BY <1>3, <3>1, TurnSorts DEF Starts
    <3>2. CASE n = Len(f)
      BY <1>2, <3>2
    <3>3. QED
      BY <1>3, <3>1, <3>2
  <2>2. QED
    BY <1>3, <1>4, <1>6, <2>1, AsksOn, TurnSorts DEF BareAt
<1>7. QED
  BY <1>3, <1>4, <1>5, <1>6

(***************************************************************************)
(* A request, entry by entry.                                              *)
(***************************************************************************)
Lines(msgs) == [n \in DOMAIN msgs |-> MarkAs(n, msgs[n].role, msgs[n].content)]

BareLines(side, framed) ==
    [n \in DOMAIN framed |-> MarkAs(n, framed[n].role, BareAt(side, framed, n))]

LEMMA FlatLines ==
    ASSUME NEW req
    PROVE  Flat(req) = MarkAs(0, "system", req.system) \o FlattenSeq(Lines(req.messages))
  BY DEF Flat, MarkAs, Lines

LEMMA BareLinesType ==
    ASSUME NEW framed \in Seq(AllTurns), NEW side \in {"chat", "responses"},
           NEW msgs, NEW mark, NEW ttl \in STRING, Final(msgs, framed, side, mark, ttl)
    PROVE  /\ Lines(msgs) \in Seq(Seq(Entries)) /\ BareLines(side, framed) \in Seq(Seq(Entries))
           /\ DOMAIN Lines(msgs) = DOMAIN framed /\ DOMAIN BareLines(side, framed) = DOMAIN framed
           /\ Len(Lines(msgs)) = Len(framed) /\ Len(BareLines(side, framed)) = Len(framed)
           /\ \A n \in DOMAIN framed :
                 /\ Among(Lines(msgs)[n], NonPoints) = BareLines(side, framed)[n]
                 /\ n # mark => Lines(msgs)[n] = BareLines(side, framed)[n]
                 /\ n # mark => \A i \in DOMAIN Lines(msgs)[n] : ~ IsPoint(Lines(msgs)[n][i])
                 /\ n = mark => /\ Lines(msgs)[n] # <<>>
                                /\ IsPoint(Lines(msgs)[n][Len(Lines(msgs)[n])])
<1> DEFINE s == Lines(msgs)
           b == BareLines(side, framed)
           V == Seq(Entries)
<1>1. DOMAIN framed = 1 .. Len(framed) /\ Len(framed) \in Nat /\ DOMAIN msgs = DOMAIN framed
  BY DEF Final
<1>2. ASSUME NEW n \in DOMAIN framed
      PROVE  /\ s[n] \in V /\ b[n] \in V /\ Among(s[n], NonPoints) = b[n]
             /\ n # mark => s[n] = b[n] /\ \A i \in DOMAIN s[n] : ~ IsPoint(s[n][i])
             /\ n = mark => s[n] # <<>> /\ IsPoint(s[n][Len(s[n])])
  <2> DEFINE c == BareAt(side, framed, n)
             role == framed[n].role
             p == CachePoint(ttl)
             d == msgs[n].content
  <2>1. /\ c \in Seq(Blocks) /\ ~ Carries(c, "cachePoint")
        /\ msgs[n].role = role /\ role \in {"user", "assistant"}
        /\ d = IF n = mark THEN Append(c, p) ELSE c
    BY FinalBare
  <2>2. s[n] = MarkAs(n, role, d) /\ b[n] = MarkAs(n, role, c)
    BY <1>1, <2>1 DEF Lines, BareLines
  <2>3. n \in Nat /\ role \in Roles
    BY <1>1, <2>1 DEF Roles
  <2>4. p \in Blocks /\ p.kind = "cachePoint"
    BY PointFields
  <2> HIDE DEF c, d, role, s, b
  <2>5. /\ Among(MarkAs(n, role, c), NonPoints) = MarkAs(n, role, c)
        /\ Among(MarkAs(n, role, Append(c, p)), NonPoints) = MarkAs(n, role, c)
        /\ \A i \in DOMAIN MarkAs(n, role, c) : ~ IsPoint(MarkAs(n, role, c)[i])
        /\ MarkAs(n, role, c) \in V
    BY <2>1, <2>3, MarkBare, MarkType
  <2>6. CASE n # mark
    BY <2>1, <2>2, <2>5, <2>6
  <2>7. CASE n = mark
    <3>1. d = Append(c, p)
      BY <2>1, <2>7
    <3>2. d \in Seq(Blocks) /\ Len(d) \in Nat /\ Len(d) > 0 /\ d[Len(d)] = p
      <4> DEFINE B == Blocks
      <4> HIDE DEF B, p
      <4>1. QED
        BY <2>1, <2>4, <3>1, AppendProperties, LenProperties DEF B
    <3>3. /\ s[n] \in V /\ Len(s[n]) = Len(d)
          /\ IsPoint(s[n][Len(d)]) <=> d[Len(d)].kind = "cachePoint"
      BY <2>2, <2>3, <3>2, MarkType
    <3>4. QED
      BY <2>2, <2>4, <2>5, <2>7, <3>1, <3>2, <3>3
  <2>8. QED
    BY <2>6, <2>7
<1>3. s = [n \in 1 .. Len(framed) |-> s[n]] /\ b = [n \in 1 .. Len(framed) |-> b[n]]
  BY <1>1 DEF Lines, BareLines
<1> HIDE DEF s, b, V
<1>4. s \in [1 .. Len(framed) -> V] /\ b \in [1 .. Len(framed) -> V]
  BY <1>1, <1>2, <1>3
<1>5. s \in Seq(V) /\ b \in Seq(V) /\ Len(s) = Len(framed) /\ Len(b) = Len(framed)
  BY <1>1, <1>4
<1>6. QED
  BY <1>1, <1>2, <1>5 DEF s, b, V, Lines, BareLines

\* What is cached ends with the last cache point.
Clear(s) == \A i \in DOMAIN s : ~ IsPoint(s[i])

LEMMA CachedIs ==
    ASSUME NEW req, NEW head \in Seq(Entries), NEW rest \in Seq(Entries), Flat(req) = head \o rest,
           Clear(rest), head # <<>> => IsPoint(head[Len(head)])
    PROVE  Cached(req) = Among(head, NonPoints)
<1> DEFINE E == Entries
           flat == Flat(req)
           points == {i \in DOMAIN flat : IsPoint(flat[i])}
           m == Len(head)
<1>1. head \in Seq(E) /\ rest \in Seq(E) /\ flat = head \o rest
  OBVIOUS
<1>2. Cached(req) = IF points = {} THEN <<>>
                    ELSE WithoutPoints(SubSeq(flat, 1, CHOOSE i \in points : \A j \in points : j <= i))
  BY DEF Cached
<1> HIDE DEF E, flat
<1>3. /\ m \in Nat /\ Len(rest) \in Nat /\ DOMAIN rest = 1 .. Len(rest) /\ DOMAIN head = 1 .. m
      /\ flat \in Seq(E) /\ Len(flat) = m + Len(rest) /\ DOMAIN flat = 1 .. m + Len(rest)
      /\ \A i \in 1 .. m + Len(rest) : flat[i] = IF i <= m THEN head[i] ELSE rest[i - m]
  BY <1>1, ConcatProperties, LenProperties
<1>4. \A j \in points : j \in 1 .. m
  <2>1. SUFFICES ASSUME NEW j \in points, j > m PROVE FALSE
    BY <1>3
  <2>2. j \in DOMAIN flat /\ IsPoint(flat[j])
    OBVIOUS
  <2> HIDE DEF points, m
  <2>3. j - m \in DOMAIN rest /\ flat[j] = rest[j - m] /\ IsPoint(flat[j])
    BY <1>3, <2>1, <2>2
  <2>4. QED
    BY <2>3 DEF Clear
<1>5. CASE head = <<>>
  BY <1>2, <1>4, <1>5, AmongEmpty, EmptySeq
<1>6. CASE head # <<>>
  <2>1. m \in points /\ \A j \in points : j <= m
    BY <1>1, <1>3, <1>4, <1>6, EmptySeq
  <2> HIDE DEF points, m
  <2> DEFINE i == CHOOSE k \in points : \A j \in points : j <= k
  <2>2. i \in points /\ \A j \in points : j <= i
    BY <2>1
  <2> HIDE DEF i
  <2>3. i = m
    BY <1>3, <1>4, <2>1, <2>2
  <2>4. SubSeq(flat, 1, m) = head
    <3> DEFINE t == SubSeq(flat, 1, m)
    <3>1. t \in Seq(E) /\ Len(t) = m /\ \A k \in 1 .. m : t[k] = flat[k]
      BY <1>3, SubSeqProperties
    <3> HIDE DEF t
    <3>2. QED
      BY <1>1, <1>3, <3>1, SameSeq DEF t, m
  <2>5. QED
    BY <1>2, <2>1, <2>3, <2>4, Bared DEF i
<1>7. QED
  BY <1>5, <1>6

\* The first lines of a request, without its points.
LEMMA BareUpto ==
    ASSUME NEW framed \in Seq(AllTurns), NEW side \in {"chat", "responses"},
           NEW msgs, NEW mark, NEW ttl \in STRING, Final(msgs, framed, side, mark, ttl),
           NEW m \in 0 .. Len(framed)
    PROVE  LET x == Upto(Lines(msgs), m)
               y == Upto(BareLines(side, framed), m)
           IN  /\ x \in Seq(Seq(Entries)) /\ y \in Seq(Seq(Entries)) /\ Len(x) = m /\ Len(y) = m
               /\ \A n \in 1 .. m : x[n] = Lines(msgs)[n] /\ y[n] = BareLines(side, framed)[n]
               /\ Among(FlattenSeq(x), NonPoints) = FlattenSeq(y)
<1> DEFINE V == Seq(Entries)
           s == Lines(msgs)
           b == BareLines(side, framed)
           x == Upto(s, m)
           y == Upto(b, m)
           g == [z \in V |-> Among(z, NonPoints)]
<1>1. /\ s \in Seq(V) /\ b \in Seq(V) /\ Len(s) = Len(framed) /\ Len(b) = Len(framed)
      /\ DOMAIN s = DOMAIN framed /\ DOMAIN b = DOMAIN framed
      /\ \A n \in DOMAIN framed : Among(s[n], NonPoints) = b[n]
  BY BareLinesType
<1>2. m \in Nat /\ DOMAIN framed = 1 .. Len(framed) /\ Len(framed) \in Nat
  OBVIOUS
<1>3. \A n \in 1 .. m : n \in DOMAIN framed
  BY <1>2
<1> HIDE DEF s, b, V
<1>4. \A n \in 1 .. m : s[n] \in V /\ b[n] \in V
  BY <1>1, <1>3
<1>5. DOMAIN x = 1 .. m /\ DOMAIN y = 1 .. m /\ \A n \in 1 .. m : x[n] = s[n] /\ y[n] = b[n]
  BY DEF Upto
<1>6. x \in [1 .. m -> V] /\ y \in [1 .. m -> V]
  BY <1>4 DEF Upto
<1>7. x \in Seq(V) /\ y \in Seq(V) /\ Len(x) = m /\ Len(y) = m
  <2> HIDE DEF x, y
  <2>1. QED
    BY <1>2, <1>6
<1>8. Mapped(x, g) = y
  <2>1. \A n \in 1 .. m : g[x[n]] = b[n]
    BY <1>1, <1>3, <1>4, <1>5
  <2> HIDE DEF g
  <2>2. y = [n \in 1 .. m |-> b[n]]
    BY DEF Upto
  <2> HIDE DEF x, y
  <2>3. QED
    BY <1>5, <2>1, <2>2 DEF Mapped
<1>9. Among(FlattenSeq(x), NonPoints) = FlatMap(x, g)
  <2> HIDE DEF x
  <2>1. QED
    BY <1>7, AmongFlat DEF V
<1>10. QED
  BY <1>5, <1>7, <1>8, <1>9 DEF s, b, V, FlatMap

LEMMA LastBehind ==
    ASSUME NEW T, NEW s \in Seq(T), NEW t \in Seq(T), t # <<>>
    PROVE  s \o t # <<>> /\ (s \o t)[Len(s \o t)] = t[Len(t)] /\ s \o t \in Seq(T)
<1>1. /\ Len(s) \in Nat /\ Len(t) \in Nat /\ Len(t) > 0 /\ s \o t \in Seq(T)
      /\ Len(s \o t) = Len(s) + Len(t)
      /\ \A i \in 1 .. Len(s) + Len(t) : (s \o t)[i] = IF i <= Len(s) THEN s[i] ELSE t[i - Len(s)]
  BY ConcatProperties, LenProperties, EmptySeq
<1> DEFINE r == s \o t
<1> HIDE DEF r
<1>2. Len(r) = Len(s) + Len(t) /\ Len(r) \in 1 .. Len(s) + Len(t) /\ ~ Len(r) <= Len(s)
      /\ Len(r) - Len(s) = Len(t)
  BY <1>1 DEF r
<1>3. QED
  BY <1>1, <1>2, EmptySeq DEF r

\* The system blocks of a request, entry by entry.
LEMMA SystemLines ==
    ASSUME NEW sys \in Seq(Blocks), ~ Carries(sys, "cachePoint"), NEW ttl \in STRING,
           NEW system, system = sys \/ system = Append(sys, CachePoint(ttl))
    PROVE  LET x == MarkAs(0, "system", system)
               y == MarkAs(0, "system", sys)
           IN  /\ x \in Seq(Entries) /\ y \in Seq(Entries) /\ Among(x, NonPoints) = y
               /\ Clear(x) \/ (x # <<>> /\ IsPoint(x[Len(x)]))
<1> DEFINE p == CachePoint(ttl)
           d == Append(sys, p)
           x == MarkAs(0, "system", system)
           y == MarkAs(0, "system", sys)
<1>1. 0 \in Nat /\ "system" \in Roles
  BY DEF Roles
<1>2. y \in Seq(Entries) /\ Among(y, NonPoints) = y /\ Clear(y)
      /\ Among(MarkAs(0, "system", d), NonPoints) = y
  BY <1>1, MarkBare, MarkType DEF Clear
<1>3. CASE system = sys
  BY <1>2, <1>3
<1>4. CASE system = d
  <2>1. p \in Blocks /\ p.kind = "cachePoint"
    BY PointFields
  <2>2. d \in Seq(Blocks) /\ Len(d) \in Nat /\ Len(d) > 0 /\ d[Len(d)] = p
    <3> DEFINE B == Blocks
    <3> HIDE DEF B, p
    <3>1. QED
      BY <2>1, AppendProperties, LenProperties DEF B
  <2> HIDE DEF d, y
  <2>3. x = MarkAs(0, "system", d)
    BY <1>4
  <2> HIDE DEF x
  <2>4. /\ x \in Seq(Entries) /\ Len(x) = Len(d)
        /\ IsPoint(x[Len(d)]) <=> d[Len(d)].kind = "cachePoint"
    BY <1>1, <2>2, <2>3, MarkType
  <2>5. QED
    BY <1>2, <2>1, <2>2, <2>3, <2>4, EmptySeq DEF x, y, d
<1>5. QED
  BY <1>3, <1>4

LEMMA UptoAll ==
    ASSUME NEW T, NEW s \in Seq(T)
    PROVE  Upto(s, Len(s)) = s
  BY DEF Upto

LEMMA ThreeInARow ==
    ASSUME NEW T, NEW p \in Seq(T), NEW q \in Seq(T), NEW r \in Seq(T)
    PROVE  (p \o q) \o r = p \o (q \o r)
  BY ConcatThree

\* A request says its system blocks and its turns; what it caches is nothing, or the
\* system blocks and the turns up to the mark.
Shows(req, sys, side, framed, mark) ==
    LET y == MarkAs(0, "system", sys)
        b == BareLines(side, framed)
    IN  /\ WithoutPoints(Flat(req)) = y \o FlattenSeq(b)
        /\ Cached(req) = <<>> \/ Cached(req) = y \o FlattenSeq(Upto(b, mark))

LEMMA ClearBehind ==
    ASSUME NEW s \in Seq(Entries), NEW t \in Seq(Entries), Clear(s), Clear(t)
    PROVE  Clear(s \o t)
<1>1. QED
  BY ConcatElements DEF InARow, Clear

\* Behind the mark there is no point.
LEMMA ClearRest ==
    ASSUME NEW framed \in Seq(AllTurns), NEW side \in {"chat", "responses"},
           NEW msgs, NEW mark \in 0 .. Len(framed), NEW ttl \in STRING,
           Final(msgs, framed, side, mark, ttl)
    PROVE  \E rest \in Seq(Entries) :
              /\ FlattenSeq(Lines(msgs)) = FlattenSeq(Upto(Lines(msgs), mark)) \o rest
              /\ Clear(rest)
<1> DEFINE s == Lines(msgs)
<1>1. s \in Seq(Seq(Entries)) /\ Len(s) = Len(framed) /\ DOMAIN framed = 1 .. Len(framed)
      /\ Len(framed) \in Nat
  BY BareLinesType
<1>2. \A n \in DOMAIN framed : n # mark => \A i \in DOMAIN s[n] : ~ IsPoint(s[n][i])
  BY BareLinesType
<1> HIDE DEF s
<1>3. mark \in 0 .. Len(s)
  BY <1>1
<1>4. PICK rest \in Seq(Entries) : /\ FlattenSeq(s) = FlattenSeq(Upto(s, mark)) \o rest
                                   /\ Behind(rest, s, mark)
  BY <1>1, <1>3, FlatSplit, Zenon
<1>5. Clear(rest)
  <2>1. SUFFICES ASSUME NEW i \in DOMAIN rest PROVE ~ IsPoint(rest[i])
    BY DEF Clear
  <2>2. PICK n \in mark + 1 .. Len(s) : \E k \in DOMAIN s[n] : rest[i] = s[n][k]
    BY <1>4 DEF Behind
  <2>3. n \in DOMAIN framed /\ n # mark
    BY <1>1, <1>3, <2>2
  <2>4. QED
    BY <1>2, <2>2, <2>3
<1>6. QED
  BY <1>4, <1>5 DEF s

LEMMA RequestShows ==
    ASSUME NEW framed \in Seq(AllTurns), NEW side \in {"chat", "responses"},
           NEW req, NEW mark \in Nat, NEW ttl \in STRING,
           Final(req.messages, framed, side, mark, ttl),
           NEW sys \in Seq(Blocks), ~ Carries(sys, "cachePoint"),
           req.system = sys \/ req.system = Append(sys, CachePoint(ttl))
    PROVE  Shows(req, sys, side, framed, mark)
<1> DEFINE msgs == req.messages
           s == Lines(msgs)
           b == BareLines(side, framed)
           x == MarkAs(0, "system", req.system)
           y == MarkAs(0, "system", sys)
           E == Entries
<1>1. /\ x \in Seq(E) /\ y \in Seq(E) /\ Among(x, NonPoints) = y
      /\ Clear(x) \/ (x # <<>> /\ IsPoint(x[Len(x)]))
  BY SystemLines
<1>2. Flat(req) = x \o FlattenSeq(s)
  BY FlatLines
<1>3. /\ s \in Seq(Seq(E)) /\ b \in Seq(Seq(E)) /\ Len(s) = Len(framed) /\ Len(b) = Len(framed)
      /\ DOMAIN framed = 1 .. Len(framed) /\ Len(framed) \in Nat
      /\ \A n \in DOMAIN framed : n = mark => s[n] # <<>> /\ IsPoint(s[n][Len(s[n])])
  BY BareLinesType
<1>4. mark \in 0 .. Len(framed)
  BY <1>3 DEF Final
<1>5. \A m \in 0 .. Len(framed) : Among(FlattenSeq(Upto(s, m)), NonPoints) = FlattenSeq(Upto(b, m))
  BY BareUpto
<1>6. \A m \in 0 .. Len(framed) : FlattenSeq(Upto(s, m)) \in Seq(E)
  <2>1. ASSUME NEW m \in 0 .. Len(framed) PROVE Upto(s, m) \in Seq(Seq(E))
    BY BareUpto
  <2>2. QED
    BY <2>1, FlattenType
<1>7. PICK rest \in Seq(E) : FlattenSeq(s) = FlattenSeq(Upto(s, mark)) \o rest /\ Clear(rest)
  BY <1>4, ClearRest, ZenonT(60)
<1> HIDE DEF s, b, x, y, E
<1>8. \A p, q \in Seq(E) : Among(p \o q, NonPoints) = Among(p, NonPoints) \o Among(q, NonPoints)
  <2>1. ASSUME NEW p \in Seq(E), NEW q \in Seq(E)
        PROVE  Among(p \o q, NonPoints) = Among(p, NonPoints) \o Among(q, NonPoints)
    BY AmongConcat
  <2>2. QED
    BY <2>1
<1>9. \A p, q \in Seq(E) :
         /\ p \o q \in Seq(E)
         /\ q # <<>> => p \o q # <<>> /\ (p \o q)[Len(p \o q)] = q[Len(q)]
  <2>1. ASSUME NEW p \in Seq(E), NEW q \in Seq(E)
        PROVE  /\ p \o q \in Seq(E)
               /\ q # <<>> => p \o q # <<>> /\ (p \o q)[Len(p \o q)] = q[Len(q)]
    BY LastBehind
  <2>2. QED
    BY <2>1
<1> DEFINE h == FlattenSeq(Upto(s, mark))
           w == FlattenSeq(s)
<1>10. /\ h \in Seq(E) /\ Among(h, NonPoints) = FlattenSeq(Upto(b, mark))
      /\ w \in Seq(E) /\ Among(w, NonPoints) = FlattenSeq(b)
  <2>1. Len(framed) \in 0 .. Len(framed)
    BY <1>3
  <2>2. QED
    BY <1>3, <1>4, <1>5, <1>6, <2>1, UptoAll
<1>11. w = h \o rest /\ Flat(req) = x \o w
  BY <1>2, <1>7
<1>12. mark = 0 => h = <<>>
  BY FlattenEmpty DEF Upto
<1>13. mark # 0 => h # <<>> /\ IsPoint(h[Len(h)])
  <2>1. SUFFICES ASSUME mark # 0 PROVE h # <<>> /\ IsPoint(h[Len(h)])
    OBVIOUS
  <2>2. mark \in 1 .. Len(s) /\ mark \in DOMAIN framed
    BY <1>3, <1>4, <2>1
  <2>3. s[mark] # <<>> /\ IsPoint(s[mark][Len(s[mark])])
    BY <1>3, <2>2
  <2>4. /\ Upto(s, mark - 1) \in Seq(Seq(E)) /\ s[mark] \in Seq(E)
        /\ Upto(s, mark) = Append(Upto(s, mark - 1), s[mark])
    BY <1>3, <2>2, UptoNext
  <2>5. QED
    <3> DEFINE p == FlattenSeq(Upto(s, mark - 1))
               q == s[mark]
    <3>1. p \in Seq(E) /\ q \in Seq(E) /\ q # <<>> /\ h = p \o q /\ IsPoint(q[Len(q)])
      BY <2>3, <2>4, FlattenAppend, FlattenType
    <3> HIDE DEF p, q, h
    <3>2. QED
      BY <1>9, <3>1
<1> HIDE DEF h, w
<1>14. WithoutPoints(Flat(req)) = y \o FlattenSeq(b)
  <2>1. Flat(req) \in Seq(E)
    BY <1>1, <1>10, <1>11
  <2>2. Among(x \o w, NonPoints) = Among(x, NonPoints) \o Among(w, NonPoints)
    BY <1>1, <1>10, <1>8
  <2>3. QED
    BY <1>1, <1>10, <1>11, <2>1, <2>2, Bared DEF E
<1>15. CASE mark # 0 \/ ~ Clear(x)
  <2> DEFINE head == x \o h
  <2>1. head \in Seq(E) /\ Among(head, NonPoints) = y \o FlattenSeq(Upto(b, mark))
    <3>1. Among(head, NonPoints) = Among(x, NonPoints) \o Among(h, NonPoints)
      BY <1>1, <1>10, <1>8
    <3>2. QED
      BY <1>1, <1>10, <1>8, <3>1
  <2>2. Flat(req) = head \o rest
    <3>1. x \in Seq(E) /\ h \in Seq(E) /\ rest \in Seq(E)
      BY <1>1, <1>7, <1>10
    <3>2. (x \o h) \o rest = x \o (h \o rest)
      BY <3>1, ThreeInARow, SMTT(30)
    <3>3. QED
      BY <1>11, <3>2
  <2>3. IsPoint(head[Len(head)])
    <3>1. CASE mark # 0
      BY <1>1, <1>9, <1>10, <1>13, <3>1
    <3>2. CASE mark = 0
      BY <1>1, <1>12, <1>15, <3>2, ConcatEmptySeq
    <3>3. QED
      BY <3>1, <3>2
  <2> HIDE DEF head
  <2>4. QED
    BY <1>7, <1>14, <2>1, <2>2, <2>3, CachedIs DEF Shows, y, b, E
<1>16. CASE mark = 0 /\ Clear(x)
  <2>1. Clear(x \o w)
    BY <1>1, <1>7, <1>11, <1>12, <1>16, ClearBehind, ConcatEmptySeq DEF E
  <2> DEFINE flat == x \o w
             none == <<>>
  <2>2. flat \in Seq(E) /\ none \in Seq(E) /\ Flat(req) = none \o flat
    BY <1>1, <1>10, <1>11, ConcatEmptySeq, EmptySeq
  <2> HIDE DEF flat
  <2>3. QED
    BY <1>14, <2>1, <2>2, AmongEmpty, CachedIs DEF Shows, y, b, E, flat
<1>17. QED
  BY <1>15, <1>16

\* Turns that grew show a beginning that is what was cached of them.
LEMMA CachedBegins ==
    ASSUME NEW f \in Seq(AllTurns), NEW g \in Seq(AllTurns), Prolongs(f, g),
           NEW side \in {"chat", "responses"}, NEW sys \in Seq(Blocks), ~ Carries(sys, "cachePoint"),
           NEW one, NEW mark \in Nat, NEW ttl \in STRING, Final(one.messages, f, side, mark, ttl),
           Shows(one, sys, side, f, mark),
           NEW two, NEW mark2 \in Nat, NEW ttl2 \in STRING,
           Final(two.messages, g, side, mark2, ttl2), Shows(two, sys, side, g, mark2)
    PROVE  IsPrefix(Cached(one), WithoutPoints(Flat(two)))
<1> DEFINE E == Entries
           y == MarkAs(0, "system", sys)
           v == BareLines(side, f)
           w == BareLines(side, g)
           u == Upto(v, mark)
           p == Cached(one)
           whole == y \o FlattenSeq(w)
<1>1. WithoutPoints(Flat(two)) = whole
  BY DEF Shows
<1>2. p = <<>> \/ p = y \o FlattenSeq(u)
  BY DEF Shows
<1>3. y \in Seq(E)
  BY MarkType DEF Roles
<1>4. /\ v \in Seq(Seq(E)) /\ w \in Seq(Seq(E)) /\ Len(v) = Len(f) /\ Len(w) = Len(g)
      /\ DOMAIN v = DOMAIN f /\ DOMAIN w = DOMAIN g
  BY BareLinesType
<1>5. /\ DOMAIN f = 1 .. Len(f) /\ DOMAIN g = 1 .. Len(g) /\ Len(f) \in Nat /\ Len(g) \in Nat
  OBVIOUS
<1>6. mark # 0 => mark \in DOMAIN f /\ AsksAt(f, mark)
  BY DEF Final
<1>7. mark \in 0 .. Len(f)
  BY <1>5, <1>6
<1>8. /\ u \in Seq(Seq(E)) /\ Len(u) = mark /\ \A n \in 1 .. mark : u[n] = v[n]
  BY <1>7, BareUpto
<1>9. Starts(FlattenSeq(u), FlattenSeq(w))
  <2>1. CASE mark = 0
    <3>1. FlattenSeq(u) = <<>>
      BY <2>1, FlattenEmpty DEF Upto
    <3> HIDE DEF w
    <3>2. QED
      BY <1>4, <3>1, FlattenType DEF Starts
  <2>2. CASE mark # 0
    <3>1. mark \in DOMAIN f /\ AsksAt(f, mark) /\ mark > 0 /\ mark <= Len(g)
      <4>1. mark \in DOMAIN f /\ AsksAt(f, mark)
        BY <1>6, <2>2
      <4>2. QED
        BY <1>5, <4>1, BareKept
    <3>2. ASSUME NEW n \in 1 .. mark - 1 PROVE u[n] = w[n]
      <4>1. n \in DOMAIN f /\ n < Len(f) /\ n \in 1 .. mark
        BY <1>5, <3>1
      <4>2. n \in DOMAIN g /\ g[n].role = f[n].role /\ BareAt(side, g, n) = BareAt(side, f, n)
        BY <4>1, BareKept
      <4>3. v[n] = MarkAs(n, f[n].role, BareAt(side, f, n))
            /\ w[n] = MarkAs(n, g[n].role, BareAt(side, g, n))
        BY <4>1, <4>2 DEF BareLines
      <4> HIDE DEF u, v, w
      <4>4. QED
        BY <1>8, <4>1, <4>2, <4>3
    <3>3. Starts(u[mark], w[mark])
      <4> DEFINE c == BareAt(side, f, mark)
                 d == BareAt(side, g, mark)
                 role == f[mark].role
      <4>1. mark \in DOMAIN g /\ g[mark].role = role /\ Starts(c, d)
        BY <3>1, BareKept
      <4>2. v[mark] = MarkAs(mark, role, c) /\ w[mark] = MarkAs(mark, role, d)
        BY <3>1, <4>1 DEF BareLines
      <4>3. c \in Seq(Blocks) /\ role \in {"user", "assistant"}
        BY <3>1, FinalBare
      <4>4. d \in Seq(Blocks)
        BY <4>1, FinalBare
      <4>5. mark \in 1 .. mark
        BY <3>1
      <4> HIDE DEF u, v, w, c, d, role
      <4>6. role \in Roles
        BY <4>3 DEF Roles
      <4>7. QED
        BY <1>8, <4>1, <4>2, <4>3, <4>4, <4>5, <4>6, MarkStarts
    <3> HIDE DEF u, v, w, E
    <3>4. QED
      BY <1>4, <1>8, <3>1, <3>2, <3>3, FlatStarts
  <2>3. QED
    BY <2>1, <2>2
<1> DEFINE a == FlattenSeq(u)
           b == FlattenSeq(w)
<1>10. a \in Seq(E) /\ b \in Seq(E)
  BY <1>4, <1>8, FlattenType
<1> HIDE DEF y, u, v, w, E, p
<1>11. y \o a \in Seq(E) /\ whole \in Seq(E) /\ Starts(y \o a, y \o b)
  <2>1. Starts(a, b)
    BY <1>9
  <2> HIDE DEF a, b
  <2>2. QED
    BY <1>3, <1>10, <2>1, StartsBehind DEF b
<1> HIDE DEF whole
<1>12. p \in Seq(E) /\ Starts(p, whole)
  <2>1. CASE p = <<>>
    BY <1>11, <2>1, EmptySeq DEF Starts
  <2>2. CASE p = y \o a
    BY <1>11, <2>2 DEF whole
  <2>3. QED
    BY <1>2, <2>1, <2>2
<1>13. QED
  BY <1>1, <1>11, <1>12, PrefixStarts DEF p

\* Without the gateway's continuation a request is its turns.
LEMMA NotContinued ==
    ASSUME NEW old \in Seq(AllTurns), NEW side \in {"chat", "responses"}, NEW row, NEW req,
           NEW mark, NEW ttl \in STRING,
           Final(req.messages, Full(side, old, row), side, mark, ttl), ~ Continues(req)
    PROVE  Full(side, old, row) = old
<1> DEFINE f == Append(old, Continuation)
           m == Len(old) + 1
           msgs == req.messages
<1>1. SUFFICES ASSUME Full(side, old, row) # old PROVE FALSE
  OBVIOUS
<1>2. /\ f \in Seq(AllTurns) /\ m \in DOMAIN f /\ f[m] = Continuation
  BY ContinuationTurn, AppendProperties
<1>3. Final(msgs, f, side, mark, ttl)
  BY <1>1 DEF Full, AppendContinuation
<1> HIDE DEF f, m
<1> DEFINE bare == BareAt(side, f, m)
<1>4. /\ bare \in Seq(Blocks)
      /\ msgs[m].content = bare \/ msgs[m].content = Append(bare, CachePoint(ttl))
      /\ m \in DOMAIN msgs
  <2> HIDE DEF msgs
  <2>1. bare = BareAt(side, f, m)
    OBVIOUS
  <2> HIDE DEF bare
  <2>2. /\ bare \in Seq(Blocks)
        /\ msgs[m].content = IF m = mark THEN Append(bare, CachePoint(ttl)) ELSE bare
    BY <1>2, <1>3, <2>1, FinalBare
  <2>3. QED
    BY <1>2, <1>3, <2>2 DEF Final
<1>5. ~ GivesAt(f, m)
  BY <1>2, ContinuationTurn, IdsNames, IdsCarried DEF GivesAt, Gives
<1>6. bare = <<Text(0)>>
  BY <1>2, <1>5 DEF BareAt, Continuation, Turn
<1> HIDE DEF bare, msgs
<1>7. msgs[m].content[1] = Text(0)
  <2>1. bare[1] = Text(0) /\ Len(bare) = 1
    BY <1>6
  <2>2. Append(bare, CachePoint(ttl))[1] = bare[1]
    <3> DEFINE B == Blocks
               p == CachePoint(ttl)
    <3> HIDE DEF B, p
    <3>1. \A i \in 1 .. Len(bare) : Append(bare, p)[i] = bare[i]
      BY <1>4, AppendProperties, PointFields
    <3>2. QED
      BY <2>1, <3>1 DEF p
  <2>3. QED
    BY <1>4, <2>1, <2>2
<1>8. QED
  BY <1>4, <1>7 DEF Continues, msgs

(***************************************************************************)
(* What the last accepted request was made of, which the transcript has    *)
(* grown from.                                                             *)
(***************************************************************************)
Recalls(req, side, row, sent, old, mark, ttl) ==
    /\ sent # <<>>
    /\ Prolongs(old, FramedOf(side, sent))
    /\ Final(req.messages, Full(side, old, row), side, mark, ttl)
    /\ \/ req.system = SystemOf(side, sent)
       \/ req.system = Append(SystemOf(side, sent), CachePoint(ttl))

RecallsSome(req, side, row, sent) ==
    \E old \in Seq(AllTurns), mark \in Nat, ttl \in STRING :
        Recalls(req, side, row, sent, old, mark, ttl)

Remembered == request = NoRequest \/ RecallsSome(request, surface, model, transcript)

\* More messages that direct nothing change nothing.
LEMMA RecallsMore ==
    ASSUME NEW side, NEW sent \in Seq(Sent(side)), NEW more \in Seq(Sent(side)),
           \A i \in DOMAIN more : ~ Directs(side, more[i]),
           NEW req, NEW row, RecallsSome(req, side, row, sent)
    PROVE  RecallsSome(req, side, row, sent \o more)
<1> DEFINE T == Sent(side)
           new == sent \o more
<1>1. PICK old \in Seq(AllTurns), mark \in Nat, ttl \in STRING :
         Recalls(req, side, row, sent, old, mark, ttl)
  BY DEF RecallsSome
<1>2. Prolongs(old, FramedOf(side, new))
  BY <1>1, MoreProlongs DEF Recalls
<1>3. SystemOf(side, new) = SystemOf(side, sent)
  BY SystemMore
<1>4. new # <<>>
  <2> HIDE DEF T
  <2>1. QED
    BY <1>1, EmptySeq, LenProperties DEF Recalls
<1> HIDE DEF new
<1>5. QED
  BY <1>1, <1>2, <1>3, <1>4 DEF RecallsSome, new, Recalls

\* An accepted request is made of the transcript,
LEMMA SubmitMakes ==
    ASSUME Typed
    PROVE  LET req == Assemble(options)
               framed == FramedOf(surface, transcript)
               sys == SystemOf(surface, transcript)
           IN  /\ framed \in Seq(AllTurns)
               /\ \E mark \in Nat, ttl \in STRING :
                     /\ Final(req.messages, Full(surface, framed, model), surface, mark, ttl)
                     /\ req.system = sys \/ req.system = Append(sys, CachePoint(ttl))
<1> DEFINE req == Assemble(options)
           framed == FramedOf(surface, transcript)
           sys == SystemOf(surface, transcript)
<1>1. surface \in Sides /\ transcript \in Seq(Sent(surface)) /\ options \in Options
  BY TypedParts
<1>2. framed = Framed /\ framed \in Seq(AllTurns)
  BY <1>1, FramedNow, FramedType
<1>3. PICK system, tools, scopes, ttl :
         /\ system = IF surface = "chat" THEN ParseSystemPrompts(transcript)
                     ELSE PushSystemBlocks(transcript)
         /\ ttl \in STRING
         /\ Built(req, Full(surface, Framed, model), surface, system, tools, model, scopes, ttl)
  BY <1>1, AssembleBuilt
<1> HIDE DEF req, framed, sys
<1>4. PICK mark \in Nat : Final(req.messages, Full(surface, framed, model), surface, mark, ttl)
  BY <1>2, <1>3 DEF Built
<1>5. QED
  BY <1>2, <1>3, <1>4 DEF req, framed, sys, Built, DecorateSystemBlocks, SystemOf

\* and recalls it.
LEMMA SubmitRecalls ==
    ASSUME Typed, transcript # <<>>
    PROVE  RecallsSome(Assemble(options), surface, model, transcript)
<1> DEFINE req == Assemble(options)
           framed == FramedOf(surface, transcript)
           sys == SystemOf(surface, transcript)
<1>1. framed \in Seq(AllTurns)
  BY SubmitMakes
<1>2. PICK mark \in Nat, ttl \in STRING :
         /\ Final(req.messages, Full(surface, framed, model), surface, mark, ttl)
         /\ req.system = sys \/ req.system = Append(sys, CachePoint(ttl))
  BY SubmitMakes
<1> HIDE DEF req
<1>3. QED
  BY <1>1, <1>2, ProlongsSame DEF RecallsSome, req, Recalls

\* Only the first messages direct.
LEMMA AskDirectsNot ==
    ASSUME Typed, Ask, transcript # <<>>
    PROVE  \E more \in Seq(Sent(surface)) : /\ transcript' = transcript \o more
                                            /\ \A i \in DOMAIN more : ~ Directs(surface, more[i])
<1>1. PICK parts \in Parts(asks + 1) :
         transcript' = transcript \o Opening(transcript = <<>>) \o <<Question(parts)>>
  BY DEF Ask
<1>2. /\ surface \in Sides /\ transcript \in Seq(Sent(surface)) /\ asks \in 0 .. MaxAsks
      /\ MaxAsks \in Nat
  BY TypedParts, BoundsAssumption
<1> DEFINE q == Question(parts)
           T == Sent(surface)
<1>3. q \in T
  BY <1>2, QuestionType
<1>4. ~ Directs(surface, q)
  BY QuestionsAre, QuestionFields DEF Directs, IsSystem
<1>5. Opening(transcript = <<>>) = <<>>
  BY DEF Opening
<1>6. transcript' = (transcript \o Opening(transcript = <<>>)) \o <<q>>
  BY <1>1
<1> HIDE DEF q, T
<1>7. transcript \o <<>> = transcript /\ <<q>> \in Seq(T)
  BY <1>2, <1>3, OneSeq
<1>8. QED
  BY <1>4, <1>5, <1>6, <1>7, OneElement DEF T

LEMMA ReplyDirectsNot ==
    ASSUME Typed, Reply
    PROVE  \E more \in Seq(Sent(surface)) : /\ transcript' = transcript \o more
                                            /\ \A i \in DOMAIN more : ~ Directs(surface, more[i])
<1>1. PICK shape, content, keep : Replied(shape, content, keep)
  BY ReplyIs
<1>2. content \in Seq(Answered) /\ keep \in BOOLEAN
  BY <1>1 DEF Replied, Fills
<1> DEFINE r == Rendered(content, keep)
<1>3. \A i \in DOMAIN r : ~ Directs(surface, r[i])
  <2>1. CASE surface = "chat"
    <3>1. PICK message : r = <<message>> /\ ChatAnswered(message, content, keys)
      BY <1>2, <2>1, RenderedType
    <3> HIDE DEF r
    <3>2. QED
      BY <2>1, <3>1, OneElement DEF Directs, ChatAnswered
  <2>2. CASE surface # "chat"
    <3> DEFINE t == ThoughtItems(content)
               s == SaidItems(content)
               calls == CallItems(content, options.tools)
               I == InputItems
    <3>1. r = (t \o s) \o calls
      BY <1>2, <2>2, RenderedType
    <3>2. calls \in Seq(Calls) /\ t \in Seq(I) /\ s \in Seq(I)
      BY <1>2, CallsType, ThoughtType, SaidType, TypedParts, OptionsType
    <3>3. \A i \in DOMAIN t : ~ IsSystem(t[i])
      <4>1. CASE t = <<>>
        <5> HIDE DEF t
        <5>1. QED
          BY <4>1
      <4>2. CASE t # <<>>
        <5>1. PICK item \in I : t = <<item>> /\ item.type = "reasoning"
          BY <1>2, <4>2, ThoughtType
        <5> HIDE DEF t
        <5>2. QED
          BY <5>1, OneElement DEF IsSystem
      <4>3. QED
        BY <4>1, <4>2
    <3>4. \A i \in DOMAIN s : ~ IsSystem(s[i])
      <4>1. CASE s = <<>>
        <5> HIDE DEF s
        <5>1. QED
          BY <4>1
      <4>2. CASE s # <<>>
        <5>1. PICK item \in I : s = <<item>> /\ item.role = "assistant"
          BY <1>2, <4>2, SaidType
        <5> HIDE DEF s
        <5>2. QED
          BY <5>1, OneElement DEF IsSystem
      <4>3. QED
        BY <4>1, <4>2
    <3>5. \A i \in DOMAIN calls : ~ IsSystem(calls[i])
      <4> DEFINE C == Calls
      <4>1. \A e \in C : ~ IsSystem(e)
        BY DEF Calls, IsSystem
      <4>2. calls \in Seq(C)
        BY <3>2
      <4> HIDE DEF calls, C
      <4>3. QED
        BY <4>1, <4>2
    <3>6. calls \in Seq(I)
      BY <3>2, SeqWithin DEF Calls
    <3> HIDE DEF t, s, calls, r, I
    <3> DEFINE ts == t \o s
    <3>7. ts \in Seq(I) /\ InARow(ts, t, s)
      BY <3>2, ConcatElements
    <3> HIDE DEF ts
    <3>8. InARow(r, ts, calls)
      BY <3>1, <3>6, <3>7, ConcatElements DEF ts
    <3>9. QED
      BY <2>2, <3>3, <3>4, <3>5, <3>7, <3>8 DEF Directs, InARow
  <2>3. QED
    BY <2>1, <2>2
<1>4. QED
  BY <1>1, <1>2, <1>3, RenderedType DEF Replied

\* Every step keeps the memory of the last accepted request.
LEMMA MemoryKept ==
    ASSUME Typed, RecallsSome(request, surface, model, transcript), request' = request,
           surface' = surface, model' = model,
           \E more \in Seq(Sent(surface)) : /\ transcript' = transcript \o more
                                            /\ \A i \in DOMAIN more : ~ Directs(surface, more[i])
    PROVE  Remembered'
<1>1. transcript \in Seq(Sent(surface))
  BY TypedParts
<1>2. PICK more \in Seq(Sent(surface)) : /\ transcript' = transcript \o more
                                         /\ \A i \in DOMAIN more : ~ Directs(surface, more[i])
  OBVIOUS
<1>3. QED
  BY <1>1, <1>2, RecallsMore DEF Remembered

LEMMA OneDirectsNot ==
    ASSUME Typed, NEW msg \in Sent(surface), transcript' = Append(transcript, msg),
           ~ Directs(surface, msg)
    PROVE  \E more \in Seq(Sent(surface)) : /\ transcript' = transcript \o more
                                            /\ \A i \in DOMAIN more : ~ Directs(surface, more[i])
<1> DEFINE T == Sent(surface)
<1>1. transcript \in Seq(T) /\ msg \in T
  BY TypedParts
<1> HIDE DEF T
<1>2. <<msg>> \in Seq(T) /\ transcript' = transcript \o <<msg>>
  BY <1>1, OneSeq
<1>3. QED
  BY <1>2, OneElement DEF T

LEMMA RememberedStep == Typed /\ Remembered /\ [Next]_vars => Remembered'
<1> SUFFICES ASSUME Typed, Remembered, [Next]_vars PROVE Remembered'
  OBVIOUS
<1>1. CASE Submit /\ request' = Assemble(options)
  <2>1. RecallsSome(request', surface', model', transcript')
    BY <1>1, SubmitRecalls DEF Submit
  <2>2. QED
    BY <2>1 DEF Remembered
<1>2. CASE request' = request /\ request = NoRequest
  BY <1>2 DEF Remembered, NoRequest, NoConfig, ToolConfig
<1>3. CASE request' = request /\ RecallsSome(request, surface, model, transcript)
  <2>1. CASE surface' = surface /\ model' = model /\ transcript' = transcript
    BY <1>3, <2>1 DEF Remembered
  <2>2. CASE Ask
    BY <1>3, <2>2, AskDirectsNot, MemoryKept DEF Ask, RecallsSome, Recalls
  <2>3. CASE AnswerCall
    <3>1. PICK i \in DOMAIN unanswered : transcript' = Append(transcript, Answer(unanswered[i]))
      BY <2>3 DEF AnswerCall
    <3>2. Answer(unanswered[i]) \in Sent(surface)
      <4> DEFINE C == Callable(surface)
      <4>1. surface \in Sides /\ unanswered \in Seq(C)
        BY TypedParts
      <4> HIDE DEF C
      <4>2. unanswered[i] \in C
        BY <4>1
      <4>3. QED
        BY <4>1, <4>2, AnswerType DEF C
    <3>3. QED
      BY <1>3, <2>3, <3>1, <3>2, OneDirectsNot, MemoryKept DEF Directs, IsSystem, Answer,
         AnswerCall
  <2>4. CASE Resend
    <3>1. PICK i \in DOMAIN transcript :
             /\ \A j \in i .. Len(transcript) : IsAnswer(transcript[j])
             /\ transcript' = Append(transcript, transcript[i])
      BY <2>4 DEF Resend
    <3>2. transcript[i] \in Sent(surface) /\ i \in i .. Len(transcript)
      <4> DEFINE T == Sent(surface)
      <4> HIDE DEF T
      <4>1. QED
        BY TypedParts DEF T
    <3>3. QED
      BY <1>3, <2>4, <3>1, <3>2, OneDirectsNot, MemoryKept DEF Directs, IsAnswer, Resend
  <2>5. CASE Reply
    BY <1>3, <2>5, ReplyDirectsNot, MemoryKept DEF Reply
  <2>6. CASE Reconsider \/ Restart \/ Fail \/ Submit \/ UNCHANGED vars
    BY <2>1, <2>6 DEF Reconsider, Restart, Fail, Submit, vars
  <2>7. QED
    BY <2>2, <2>3, <2>4, <2>5, <2>6 DEF Next
<1>4. QED
  BY <1>1, <1>2, <1>3, RequestChanges DEF Remembered

\* Before the first request there is nothing that is cached.
LEMMA NothingCached == Cached(NoRequest) = <<>>
<1>1. MarkAs(0, "system", <<>>) = <<>> /\ Lines(<<>>) = <<>>
  BY DEF MarkAs, Lines
<1>2. Flat(NoRequest) = <<>>
  BY <1>1, FlatLines, FlattenEmpty, ConcatEmptySeq, EmptySeq DEF NoRequest
<1> DEFINE none == <<>>
<1>3. none \in Seq(Entries) /\ Flat(NoRequest) = none \o none /\ Clear(none)
  BY <1>2, ConcatEmptySeq, EmptySeq DEF Clear
<1>4. QED
  BY <1>3, AmongEmpty, CachedIs

\* An accepted request begins with what the one before it cached.
LEMMA SubmitExtends ==
    ASSUME Typed, Remembered, ~ Continues(request)
    PROVE  IsPrefix(Cached(request), WithoutPoints(Flat(Assemble(options))))
<1> DEFINE two == Assemble(options)
           framed == FramedOf(surface, transcript)
           sys == SystemOf(surface, transcript)
           g == Full(surface, framed, model)
<1>1. surface \in Sides /\ transcript \in Seq(Sent(surface))
  BY TypedParts
<1>2. framed \in Seq(AllTurns)
  BY SubmitMakes
<1>3. PICK mark2 \in Nat, ttl2 \in STRING :
         /\ Final(two.messages, g, surface, mark2, ttl2)
         /\ two.system = sys \/ two.system = Append(sys, CachePoint(ttl2))
  BY SubmitMakes
<1>4. sys \in Seq(Blocks) /\ ~ Carries(sys, "cachePoint")
  <2>1. sys \in Seq(Spoken)
    BY <1>1, ChatSystem, ResponsesSystem DEF SystemOf, Sent, Sides
  <2>2. \A b \in Spoken : b.kind # "cachePoint"
    BY DEF Spoken, BlocksOf
  <2> HIDE DEF sys
  <2>3. QED
    BY <2>1, <2>2, IdsNone, SomeBlocks
<1>5. g \in Seq(AllTurns)
  BY <1>2, FullKeeps
<1> HIDE DEF two, framed, sys
<1>6. Shows(two, sys, surface, g, mark2)
  <2> HIDE DEF g
  <2>1. QED
    BY <1>1, <1>3, <1>4, <1>5, RequestShows DEF Sides
<1>7. CASE request = NoRequest
  <2> DEFINE whole == WithoutPoints(Flat(two))
  <2>1. whole \in Seq(Entries)
    <3>1. whole = MarkAs(0, "system", sys) \o FlattenSeq(BareLines(surface, g))
      BY <1>6 DEF Shows
    <3>2. MarkAs(0, "system", sys) \in Seq(Entries)
      BY <1>4, MarkType DEF Roles
    <3>3. BareLines(surface, g) \in Seq(Seq(Entries))
      <4> HIDE DEF g
      <4>1. QED
        BY <1>1, <1>3, <1>5, BareLinesType DEF Sides
    <3> HIDE DEF whole, g
    <3>4. QED
      BY <3>1, <3>2, <3>3, FlattenType
  <2> HIDE DEF whole
  <2> DEFINE none == <<>>
  <2>2. none \in Seq(Entries) /\ Starts(none, whole)
    BY <2>1, EmptySeq, LenProperties DEF Starts
  <2>3. QED
    BY <1>7, <2>1, <2>2, NothingCached, PrefixStarts DEF whole, two
<1>8. CASE RecallsSome(request, surface, model, transcript)
  <2>1. PICK old \in Seq(AllTurns), mark \in Nat, ttl \in STRING :
           Recalls(request, surface, model, transcript, old, mark, ttl)
    BY <1>8 DEF RecallsSome
  <2>2. /\ Prolongs(old, framed)
        /\ Final(request.messages, Full(surface, old, model), surface, mark, ttl)
        /\ request.system = sys \/ request.system = Append(sys, CachePoint(ttl))
    BY <2>1 DEF Recalls, framed, sys
  <2>3. Final(request.messages, old, surface, mark, ttl)
    BY <1>1, <2>2, NotContinued DEF Sides
  <2>4. Prolongs(old, g)
    BY <1>2, <2>2, FullProlongs
  <2> HIDE DEF g
  <2>5. Shows(request, sys, surface, old, mark)
    BY <1>1, <1>4, <2>2, <2>3, RequestShows DEF Sides
  <2>6. IsPrefix(Cached(request), WithoutPoints(Flat(two)))
    BY <1>1, <1>3, <1>4, <1>5, <1>6, <2>3, <2>4, <2>5, CachedBegins DEF Sides
  <2>7. QED
    BY <2>6 DEF two
<1>9. QED
  BY <1>7, <1>8 DEF Remembered

MemoryInv == Typed /\ Remembered

LEMMA PrefixStep ==
    MemoryInv /\ [Next]_vars =>
        [ (request' # request /\ SameTools(request, request') /\ ~Continues(request))
             => IsPrefix(Cached(request), WithoutPoints(Flat(request'))) ]_vars
<1> SUFFICES ASSUME MemoryInv, [Next]_vars, request' # request, ~ Continues(request)
             PROVE  IsPrefix(Cached(request), WithoutPoints(Flat(request')))
  OBVIOUS
<1>1. Typed /\ Remembered
  BY DEF MemoryInv
<1>2. request' = Assemble(options)
  BY <1>1, RequestChanges
<1>3. QED
  BY <1>1, <1>2, SubmitExtends

(* What a request caches is a prefix of the next accepted one, whatever    *)
(* was asked, answered, resent, switched or rotated in between, so that    *)
(* the cache point pays off, unless the tools changed or the point sits on *)
(* the gateway's own continuation (cache.rs 102-260, provider.rs 815-945,  *)
(* responses_translate.rs 824-882).                                        *)
THEOREM PrefixKept == Spec => PrefixStable
<1>1. Init => MemoryInv
  <2>1. SUFFICES ASSUME Init PROVE MemoryInv
    OBVIOUS
  <2>2. QED
    BY <2>1, TypedInit DEF MemoryInv, Init, Remembered
<1>2. MemoryInv /\ [Next]_vars => MemoryInv'
  BY TypedStep, RememberedStep DEF MemoryInv
<1>3. QED
  BY <1>1, <1>2, PrefixStep, PTL DEF Spec, PrefixStable
=============================================================================
