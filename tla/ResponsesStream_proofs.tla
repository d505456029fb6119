----------------------- MODULE ResponsesStream_proofs -----------------------
(***************************************************************************)
(* Proofs about ResponsesStream, for every set of blocks, every registry   *)
(* of tools and any number of fragments.                                   *)
(***************************************************************************)
EXTENDS ResponsesStream, SequenceLemmas, SequenceTheorems, TLAPS

(* Vectors of events *)

\* A vector that makes no call executable.
Harmless(s) == s \in Seq(Event) /\ \A n \in DOMAIN s : ~ CallDoneEvent(s[n])

\* Concatenating harmless vectors is harmless.
LEMMA HarmlessConcat ==
    ASSUME NEW s, NEW t, Harmless(s), Harmless(t)
    PROVE  Harmless(s \o t)
<1>1. s \in Seq(Event) /\ t \in Seq(Event)
  BY DEF Harmless
<1>2. /\ s \o t \in Seq(Event)
      /\ Len(s \o t) = Len(s) + Len(t)
      /\ \A n \in 1 .. Len(s) + Len(t) :
            (s \o t)[n] = IF n <= Len(s) THEN s[n] ELSE t[n - Len(s)]
  BY <1>1, ConcatProperties
<1>3. ASSUME NEW n \in DOMAIN (s \o t)
      PROVE  ~ CallDoneEvent((s \o t)[n])
  <2>1. n \in 1 .. Len(s) + Len(t)
    BY <1>2
  <2>2. CASE n <= Len(s)
    <3>1. n \in DOMAIN s /\ (s \o t)[n] = s[n]
      BY <1>1, <1>2, <2>1, <2>2
    <3>2. QED
      BY <3>1 DEF Harmless
  <2>3. CASE ~ (n <= Len(s))
    <3>1. n - Len(s) \in DOMAIN t /\ (s \o t)[n] = t[n - Len(s)]
      BY <1>1, <1>2, <2>1, <2>3
    <3>2. QED
      BY <3>1 DEF Harmless
  <2>4. QED
    BY <2>2, <2>3
<1>4. QED
  BY <1>2, <1>3 DEF Harmless

\* An event built by Ev is an Event when its parts have their types.
LEMMA EvType ==
    ASSUME NEW t \in EventTypes, NEW k \in EventKinds, NEW i \in Nat,
           NEW txt \in Texts, NEW env \in SUBSET Blocks
    PROVE  Ev(t, k, i, txt, env) \in Event
BY DEF Ev, Event

\* Texts, one fragment at a time.
LEMMA TextFacts ==
    /\ <<>> \in Texts
    /\ \A f \in Fragments : <<f>> \in Texts /\ Range(<<f>>) = {f}
    /\ \A u, v \in Texts : u \o v \in Texts
    /\ \A u \in Texts : Range(u) \in SUBSET Fragments /\ u \o <<>> = u
    /\ Range(<<>>) = {}
BY DEF Texts, Range

LEMMA PlainType ==
    ASSUME NEW t \in EventTypes, NEW k \in EventKinds, NEW i \in Nat
    PROVE  Plain(t, k, i) \in Event
BY TextFacts DEF Plain, Ev, Event

\* The helpers of the machine close and open content items only.
LEMMA HelpersHarmless ==
    ASSUME TypeOK
    PROVE  /\ Harmless(<<>>)
           /\ Harmless(Started)
           /\ Harmless(CloseMessage)
           /\ Harmless(CloseReasoning)
           /\ Harmless(EnsureItem(message, "message"))
           /\ Harmless(EnsureItem(reasoning, "reasoning"))
<1>1. /\ message.open \in BOOLEAN /\ message.index \in Nat /\ message.text \in Texts
      /\ reasoning.open \in BOOLEAN /\ reasoning.index \in Nat /\ reasoning.text \in Texts
      /\ nextIndex \in Nat /\ Sealed \in SUBSET Blocks
  BY DEF TypeOK, Item, Sealed
<1>2. {"message", "reasoning", "summary", "none"} \subseteq EventKinds
  BY DEF EventKinds
<1>3. {"Created", "InProgress", "Delta", "Added", "PartAdded", "TextDone",
       "PartDone", "ArgsDone", "ItemDone"} \subseteq EventTypes
  BY DEF EventTypes, PhaseAfter
<1>4. {} \in SUBSET Blocks
  OBVIOUS
<1>5. \A i \in Nat, txt \in Texts, env \in SUBSET Blocks, k \in {"message", "reasoning"} :
         ~ CallDoneEvent(Ev("ItemDone", k, i, txt, env))
  BY DEF CallDoneEvent, Ev, WireKind, Wire!CallKinds
<1>6. \A t, k, i, txt, env : t # "ItemDone" => ~ CallDoneEvent(Ev(t, k, i, txt, env))
  BY DEF CallDoneEvent, Ev
<1>7. Harmless(<<>>)
  BY DEF Harmless
<1>8. Harmless(Started)
  BY <1>2, <1>3, <1>6, <1>7, PlainType DEF Started, Harmless, Plain
<1>9. Harmless(CloseMessage)
  <2>1. CASE message.open
    <3> DEFINE e1 == Ev("TextDone", "message", message.index, message.text, {})
               e2 == Plain("PartDone", "message", message.index)
               e3 == Ev("ItemDone", "message", message.index, message.text, {})
    <3>1. e1 \in Event /\ e2 \in Event /\ e3 \in Event
      BY <1>1, <1>2, <1>3, <1>4, EvType, PlainType
    <3>2. ~ CallDoneEvent(e1) /\ ~ CallDoneEvent(e2) /\ ~ CallDoneEvent(e3)
      BY <1>1, <1>4, <1>5, <1>6 DEF Plain
    <3>3. CloseMessage = <<e1, e2, e3>>
      BY <2>1 DEF CloseMessage
    <3> HIDE DEF e1, e2, e3
    <3>4. QED
      BY <3>1, <3>2, <3>3 DEF Harmless
  <2>2. CASE ~ message.open
    BY <2>2, <1>7 DEF CloseMessage
  <2>3. QED
    BY <2>1, <2>2
<1>10. Harmless(ReasoningTexts)
  <2> DEFINE e1 == Ev("TextDone", "reasoning", reasoning.index, reasoning.text, {})
             e2 == Ev("TextDone", "summary", reasoning.index, reasoning.text, {})
  <2>1. e1 \in Event /\ e2 \in Event
    BY <1>1, <1>2, <1>3, <1>4, EvType
  <2>2. ~ CallDoneEvent(e1) /\ ~ CallDoneEvent(e2)
    BY <1>6
  <2>3. ReasoningTexts = <<>> \/ ReasoningTexts = <<e1, e2>>
    BY DEF ReasoningTexts
  <2> HIDE DEF e1, e2
  <2>4. Harmless(<<e1, e2>>)
    BY <2>1, <2>2 DEF Harmless
  <2>5. QED
    BY <2>3, <2>4, <1>7
<1>11. Harmless(CloseReasoning)
  <2>1. CASE reasoning.open
    <3> DEFINE e1 == Plain("PartDone", "reasoning", reasoning.index)
               e2 == Ev("ItemDone", "reasoning", reasoning.index, reasoning.text, Sealed)
    <3>1. e1 \in Event /\ e2 \in Event
      BY <1>1, <1>2, <1>3, EvType, PlainType
    <3>2. ~ CallDoneEvent(e1) /\ ~ CallDoneEvent(e2)
      BY <1>1, <1>5, <1>6 DEF Plain
    <3>3. CloseReasoning = ReasoningTexts \o <<e1, e2>>
      BY <2>1 DEF CloseReasoning
    <3> HIDE DEF e1, e2
    <3>4. Harmless(<<e1, e2>>)
      BY <3>1, <3>2 DEF Harmless
    <3>5. QED
      BY <3>3, <3>4, <1>10, HarmlessConcat
  <2>2. CASE ~ reasoning.open
    BY <2>2, <1>7 DEF CloseReasoning
  <2>3. QED
    BY <2>1, <2>2
<1>12. ASSUME NEW it, NEW k \in {"message", "reasoning"}
       PROVE  Harmless(EnsureItem(it, k))
  <2> DEFINE e1 == Plain("Added", k, nextIndex)
             e2 == Plain("PartAdded", k, nextIndex)
  <2>1. e1 \in Event /\ e2 \in Event
    BY <1>1, <1>2, <1>3, PlainType
  <2>2. ~ CallDoneEvent(e1) /\ ~ CallDoneEvent(e2)
    BY <1>6 DEF Plain
  <2>3. EnsureItem(it, k) = <<>> \/ EnsureItem(it, k) = <<e1, e2>>
    BY DEF EnsureItem
  <2> HIDE DEF e1, e2
  <2>4. Harmless(<<e1, e2>>)
    BY <2>1, <2>2 DEF Harmless
  <2>5. QED
    BY <2>3, <2>4, <1>7
<1>13. QED
  BY <1>7, <1>8, <1>9, <1>11, <1>12

\* The completion events of the batch: two well-formed events for each call.
LEMMA FinalizeToolsType ==
    ASSUME TypeOK
    PROVE  FinalizeTools \in Seq(Event)
<1>1. ASSUME NEW n \in 1 .. 2 * Len(tools)
      PROVE  ToolEvents(tools[(n + 1) \div 2])[2 - (n % 2)] \in Event
  <2> DEFINE p == (n + 1) \div 2
             t == tools[p]
             e1 == Plain(IF t.kind \in LateKinds THEN "Added" ELSE "ArgsDone", t.kind, t.index)
             e2 == Plain("ItemDone", t.kind, t.index)
  <2>1. Len(tools) \in Nat /\ tools \in [1 .. Len(tools) -> Tool]
    BY DEF TypeOK
  <2>2. p \in 1 .. Len(tools) /\ (2 - (n % 2) = 1 \/ 2 - (n % 2) = 2)
    BY <2>1
  <2>3. t.kind \in EventKinds /\ t.index \in Nat
    BY <2>1, <2>2, ToolKindsAssumption DEF EventKinds, Tool
  <2>4. {"Added", "ArgsDone", "ItemDone"} \subseteq EventTypes
    BY DEF EventTypes, PhaseAfter
  <2>5. e1 \in Event /\ e2 \in Event
    BY <2>3, <2>4, PlainType
  <2>6. ToolEvents(t) = <<e1, e2>>
    BY DEF ToolEvents
  <2> HIDE DEF p, t, e1, e2
  <2>7. <<e1, e2>>[2 - (n % 2)] \in Event
    BY <2>2, <2>5
  <2>8. QED
    BY <2>6, <2>7 DEF p, t
<1>2. 2 * Len(tools) \in Nat
  BY DEF TypeOK
<1>3. FinalizeTools \in [1 .. 2 * Len(tools) -> Event]
  BY <1>1 DEF FinalizeTools
<1>4. QED
  BY <1>2, <1>3
-----------------------------------------------------------------------------
(* The inductive invariant *)

LEMMA StreamInvInit == Init => StreamInv
<1> SUFFICES ASSUME Init PROVE StreamInv
  OBVIOUS
<1> USE DEF Init, UpstreamInit, MachineInit, ClientInit
<1>1. TypeOK
  <2>1. <<>> \in Texts
    BY TextFacts
  <2>2. blk \in [Blocks -> Block]
    BY <2>1, MaxFragmentsAssumption DEF Block, BlockKinds, ContentKinds, ArgStates
  <2>3. thought \in [Blocks -> Thought]
    BY <2>1 DEF Thought
  <2>4. message \in Item /\ reasoning \in Item
    BY <2>1 DEF Item
  <2>5. final \in Response
    BY <2>1 DEF Response, NoFinal, Nothing
  <2>6. tools \in Seq(Tool) /\ pending \in Seq(Event)
    OBVIOUS
  <2>7. QED
    BY <2>2, <2>3, <2>4, <2>5, <2>6 DEF TypeOK
<1>2. ToolsAgree
  BY ToolKindsAssumption DEF ToolsAgree, AllToolKinds
<1>3. OnlyWholeBatches
  BY DEF OnlyWholeBatches, Wire!WireInit
<1>4. QED
  BY <1>1, <1>2, <1>3 DEF StreamInv

\* Whatever the machine emits in one step starts with the envelope.
LEMMA EmitHarmless ==
    ASSUME TypeOK, NEW evs, Harmless(evs), Emit(evs)
    PROVE  Harmless(pending') /\ started' \in BOOLEAN
BY HelpersHarmless, HarmlessConcat DEF Emit

\* While the stream is not finalized no call is executable, so a step that
\* delivers nothing and computes a harmless vector keeps it so.
LEMMA QuietStep ==
    ASSUME OnlyWholeBatches, ~ finalized, item' = item, Harmless(pending')
    PROVE  OnlyWholeBatches'
<1>1. \A i \in DOMAIN item : ~ CallDone(i)
  BY DEF OnlyWholeBatches, WholeBatch
<1>2. \A i \in DOMAIN item' : ~ CallDone(i)'
  BY <1>1 DEF CallDone, IsCall
<1>3. \A n \in DOMAIN pending' : ~ CallDoneEvent(pending'[n])
  BY DEF Harmless
<1>4. QED
  BY <1>2, <1>3 DEF OnlyWholeBatches

\* A vector of one event that completes nothing.
LEMMA OneHarmless ==
    ASSUME NEW t \in EventTypes \ {"ItemDone"}, NEW k \in EventKinds, NEW i \in Nat,
           NEW txt \in Texts
    PROVE  Harmless(<<Ev(t, k, i, txt, {})>>)
<1> DEFINE e == Ev(t, k, i, txt, {})
<1>1. e \in Event
  BY EvType
<1>2. ~ CallDoneEvent(e)
  BY DEF CallDoneEvent, Ev
<1> HIDE DEF e
<1>3. Harmless(<<e>>)
  BY <1>1, <1>2 DEF Harmless
<1>4. QED
  BY <1>3 DEF e

\* Accumulators are typed one by one.
LEMMA ToolType ==
    ASSUME TypeOK, NEW p \in DOMAIN tools
    PROVE  /\ tools[p] \in Tool /\ tools[p].block \in Blocks
           /\ tools[p].kind \in ToolKinds /\ tools[p].index \in Nat
<1>1. tools[p] \in Tool
  BY DEF TypeOK
<1>2. QED
  BY <1>1 DEF Tool

\* The index an item opens with, and the text a fragment adds to it.
LEMMA IndexType ==
    ASSUME TypeOK, NEW it \in Item
    PROVE  IndexFor(it) \in Nat /\ NextAfter(it) \in Nat
BY DEF TypeOK, Item, IndexFor, NextAfter

LEMMA FragmentType ==
    ASSUME TypeOK, NEW b \in Blocks, blk[b].sent < MaxFragments
    PROVE  /\ blk[b].sent + 1 \in 0 .. MaxFragments
           /\ <<b, blk[b].sent + 1>> \in Fragments
           /\ << <<b, blk[b].sent + 1>> >> \in Texts /\ <<>> \in Texts
           /\ \A u, v \in Texts : u \o v \in Texts
<1>1. blk[b].sent \in 0 .. MaxFragments
  BY DEF TypeOK, Block
<1>2. blk[b].sent + 1 \in 1 .. MaxFragments
  BY <1>1, MaxFragmentsAssumption
<1>3. <<b, blk[b].sent + 1>> \in Fragments
  BY <1>2 DEF Fragments
<1>4. QED
  BY <1>2, <1>3, TextFacts

LEMMA SentType ==
    ASSUME TypeOK, NEW b \in Blocks, blk[b].sent < MaxFragments,
           NEW txt \in Texts, Sent(b, txt)
    PROVE  blk' \in [Blocks -> Block]
<1>1. blk \in [Blocks -> Block] /\ blk[b] \in Block
  BY DEF TypeOK
<1>2. blk[b].sent + 1 \in 0 .. MaxFragments /\ blk[b].text \cup Range(txt) \in SUBSET Fragments
  BY <1>1, FragmentType, TextFacts DEF Block
<1>3. [blk[b] EXCEPT !.sent = @ + 1, !.text = @ \cup Range(txt),
                     !.late = @ \/ (txt # <<>> /\ Overtaken(b))] \in Block
  BY <1>1, <1>2 DEF Block
<1>4. QED
  BY <1>1, <1>3 DEF Sent

\* A fragment of a content block touches no tool.
LEMMA SentAgrees ==
    ASSUME ToolsAgree, NEW b \in Blocks, NEW txt, Sent(b, txt), tools' = tools,
           TypeOK
    PROVE  ToolsAgree'
<1>1. \A c \in Blocks : /\ blk'[c].kind = blk[c].kind /\ blk'[c].stage = blk[c].stage
                        /\ blk'[c].args = blk[c].args
  BY DEF Sent, TypeOK, Block
<1>2. \A p \in DOMAIN tools : tools[p].block \in Blocks
  BY ToolType
<1>3. QED
  BY <1>1, <1>2 DEF ToolsAgree
-----------------------------------------------------------------------------
(* One lemma per upstream event *)

LEMMA MessageStartStep == StreamInv /\ MessageStart => StreamInv'
<1> SUFFICES ASSUME StreamInv, MessageStart PROVE StreamInv'
  OBVIOUS
<1> USE DEF StreamInv
<1>1. Harmless(pending') /\ started' \in BOOLEAN
  BY EmitHarmless, HelpersHarmless DEF MessageStart
<1>2. TypeOK'
  BY <1>1 DEF TypeOK, MessageStart, Harmless
<1>3. ToolsAgree'
  BY DEF ToolsAgree, MessageStart
<1>4. OnlyWholeBatches'
  BY <1>1, QuietStep DEF MessageStart, Receiving, client
<1>5. QED
  BY <1>2, <1>3, <1>4

LEMMA OpenedType ==
    ASSUME TypeOK, NEW b \in Blocks, NEW k \in BlockKinds, Opened(b, k)
    PROVE  /\ blk' \in [Blocks -> Block] /\ phase' = phase
           /\ thought' = thought /\ stopReason' = stopReason /\ final' = final
           /\ finalized' = finalized /\ ~ finalized /\ driver' = driver /\ item' = item
           /\ blk[b].stage = "idle"
           /\ blk'[b].stage = "open" /\ blk'[b].kind = k /\ blk'[b].args = blk[b].args
           /\ \A c \in Blocks \ {b} : blk'[c] = blk[c]
<1>1. blk \in [Blocks -> Block] /\ blk[b] \in Block
  BY DEF TypeOK
<1>2. [blk[b] EXCEPT !.stage = "open", !.kind = k] \in Block
  BY <1>1 DEF Block
<1>3. blk' = [blk EXCEPT ![b] = [blk[b] EXCEPT !.stage = "open", !.kind = k]]
  BY <1>1 DEF Opened
<1>4. blk' \in [Blocks -> Block]
  BY <1>1, <1>2, <1>3
<1>5. blk'[b].stage = "open" /\ blk'[b].kind = k /\ blk'[b].args = blk[b].args
  BY <1>1, <1>3 DEF Block
<1>6. QED
  BY <1>1, <1>3, <1>4, <1>5 DEF Opened, Body, Receiving, client

LEMMA ContentBlockStartStep ==
    ASSUME StreamInv, NEW b \in Blocks, ContentBlockStart(b)
    PROVE  StreamInv'
<1> USE DEF StreamInv
<1>1. PICK k \in ContentKinds : Opened(b, k)
  BY DEF ContentBlockStart
<1>2. k \in BlockKinds /\ k \notin ToolKinds
  BY ToolKindsAssumption DEF BlockKinds, ContentKinds, AllToolKinds
<1>3. Harmless(pending') /\ started' \in BOOLEAN
  BY EmitHarmless, HelpersHarmless DEF ContentBlockStart
<1>4. TypeOK'
  BY <1>1, <1>2, <1>3, OpenedType DEF TypeOK, ContentBlockStart, Harmless
<1>5. ToolsAgree'
  <2>1. \A p \in DOMAIN tools : tools[p].block \in Blocks \ {b}
    BY <1>1, <1>2, OpenedType, ToolType DEF ToolsAgree
  <2>2. tools' = tools
    BY DEF ContentBlockStart
  <2>3. QED
    BY <1>1, <1>2, <2>1, <2>2, OpenedType DEF ToolsAgree
<1>6. OnlyWholeBatches'
  BY <1>1, <1>2, <1>3, OpenedType, QuietStep
<1>7. QED
  BY <1>4, <1>5, <1>6

LEMMA TextDeltaStep ==
    ASSUME StreamInv, NEW b \in Blocks, TextDelta(b)
    PROVE  StreamInv'
<1> USE DEF StreamInv
<1>1. PICK txt \in TextOf(b) :
        /\ Fragment(b, "text") /\ Sent(b, txt)
        /\ Emit(CloseReasoning \o EnsureItem(message, "message") \o
                <<Ev("Delta", "message", IndexFor(message), txt, {})>>)
        /\ message' = [open |-> TRUE, index |-> IndexFor(message),
                       text |-> message.text \o txt]
  BY DEF TextDelta
<1>2. blk[b].sent < MaxFragments /\ ~ finalized
  BY <1>1 DEF Fragment, Body, Receiving
<1>3. txt \in Texts /\ message \in Item /\ message.text \in Texts
  BY <1>2, FragmentType DEF TextOf, TypeOK, Item
<1>4. Harmless(<<Ev("Delta", "message", IndexFor(message), txt, {})>>)
  BY <1>3, IndexType, OneHarmless DEF EventTypes, EventKinds
<1>5. Harmless(pending') /\ started' \in BOOLEAN
  BY <1>1, <1>4, HelpersHarmless, HarmlessConcat, EmitHarmless
<1>6. message' \in Item
  BY <1>1, <1>2, <1>3, IndexType, FragmentType DEF Item
<1>7. reasoning' \in Item /\ nextIndex' \in Nat
  BY <1>3, IndexType DEF TextDelta, TypeOK, Item
<1>8. TypeOK'
  BY <1>1, <1>2, <1>3, <1>5, <1>6, <1>7, SentType
  DEF TypeOK, TextDelta, Fragment, Harmless
<1>9. ToolsAgree'
  BY <1>1, SentAgrees DEF TextDelta
<1>10. OnlyWholeBatches'
  BY <1>2, <1>5, QuietStep DEF TextDelta, client
<1>11. QED
  BY <1>8, <1>9, <1>10

\* Opening the reasoning item: the step both its text and its seals take.
LEMMA OpenReasoningType ==
    ASSUME TypeOK, NEW txt \in Texts, OpenReasoning(txt),
           \A u, v \in Texts : u \o v \in Texts
    PROVE  /\ reasoning' \in Item /\ message' \in Item /\ nextIndex' \in Nat
           /\ tools' = tools /\ stopReason' = stopReason /\ item' = item
           /\ finalized' = finalized /\ final' = final /\ driver' = driver
<1>1. reasoning \in Item /\ message \in Item /\ reasoning.text \in Texts
  BY DEF TypeOK, Item
<1>2. IndexFor(reasoning) \in Nat /\ NextAfter(reasoning) \in Nat
  BY <1>1, IndexType
<1>3. reasoning' \in Item
  BY <1>1, <1>2 DEF OpenReasoning, Item
<1>4. QED
  BY <1>1, <1>2, <1>3 DEF OpenReasoning, client

LEMMA EmptyReasoningTextStep ==
    ASSUME StreamInv, NEW b \in Blocks, EmptyReasoningText(b)
    PROVE  StreamInv'
<1> USE DEF StreamInv
<1>1. blk[b].sent < MaxFragments /\ ~ finalized /\ <<>> \in Texts /\ Sent(b, <<>>)
  BY TextFacts DEF EmptyReasoningText, Fragment, Body, Receiving
<1>2. Harmless(pending') /\ started' \in BOOLEAN
  BY EmitHarmless, HelpersHarmless DEF EmptyReasoningText
<1>3. TypeOK'
  BY <1>1, <1>2, SentType DEF TypeOK, EmptyReasoningText, Fragment, Harmless
<1>4. ToolsAgree'
  BY <1>1, SentAgrees DEF EmptyReasoningText
<1>5. OnlyWholeBatches'
  BY <1>1, <1>2, QuietStep DEF EmptyReasoningText, client
<1>6. QED
  BY <1>3, <1>4, <1>5

LEMMA ReasoningTextStep ==
    ASSUME StreamInv, NEW b \in Blocks, ReasoningText(b)
    PROVE  StreamInv'
<1> USE DEF StreamInv
<1> DEFINE txt == << <<b, blk[b].sent + 1>> >>
           e1 == Ev("Delta", "reasoning", IndexFor(reasoning), txt, {})
           e2 == Ev("Delta", "summary", IndexFor(reasoning), txt, {})
<1>1. /\ Fragment(b, "reasoning") /\ Sent(b, txt) /\ OpenReasoning(txt)
      /\ Emit(EnsureItem(reasoning, "reasoning") \o <<e1, e2>>)
      /\ thought' = [thought EXCEPT ![b].text = @ \o txt]
  BY DEF ReasoningText
<1>2. blk[b].sent < MaxFragments /\ ~ finalized /\ phase' = phase
  BY <1>1 DEF Fragment, Body, Receiving
<1>3. txt \in Texts /\ \A u, v \in Texts : u \o v \in Texts
  BY <1>2, FragmentType
<1>4. e1 \in Event /\ e2 \in Event
  <2>1. reasoning \in Item
    BY DEF TypeOK
  <2>2. QED
    BY <1>3, <2>1, IndexType, EvType DEF EventTypes, EventKinds
<1>5. ~ CallDoneEvent(e1) /\ ~ CallDoneEvent(e2)
  BY DEF CallDoneEvent, Ev
<1> HIDE DEF txt, e1, e2
<1>6. Harmless(pending') /\ started' \in BOOLEAN
  <2>1. Harmless(<<e1, e2>>)
    BY <1>4, <1>5 DEF Harmless
  <2>2. QED
    BY <1>1, <2>1, HelpersHarmless, HarmlessConcat, EmitHarmless
<1>7. thought' \in [Blocks -> Thought]
  <2>1. thought[b] \in Thought /\ thought \in [Blocks -> Thought]
    BY DEF TypeOK
  <2>2. [thought[b] EXCEPT !.text = @ \o txt] \in Thought
    BY <1>3, <2>1 DEF Thought
  <2>3. QED
    BY <1>1, <2>1, <2>2
<1>8. TypeOK'
  BY <1>1, <1>2, <1>3, <1>6, <1>7, SentType, OpenReasoningType DEF TypeOK, Harmless
<1>9. ToolsAgree'
  BY <1>1, SentAgrees DEF OpenReasoning
<1>10. OnlyWholeBatches'
  BY <1>1, <1>2, <1>6, QuietStep DEF OpenReasoning, client
<1>11. QED
  BY <1>8, <1>9, <1>10

LEMMA SealStep ==
    ASSUME StreamInv, NEW b \in Blocks, NEW kind, NEW seen \in {"signature", "redacted"},
           Seal(b, kind, seen)
    PROVE  StreamInv'
<1> USE DEF StreamInv
<1>1. blk[b].sent < MaxFragments /\ ~ finalized /\ phase' = phase
  BY DEF Seal, Fragment, Body, Receiving
<1>2. <<>> \in Texts /\ (\A u, v \in Texts : u \o v \in Texts)
      /\ Sent(b, <<>>) /\ OpenReasoning(<<>>)
  BY <1>1, FragmentType DEF Seal
<1>3. Harmless(pending') /\ started' \in BOOLEAN
  BY EmitHarmless, HelpersHarmless DEF Seal
<1>4. thought' \in [Blocks -> Thought]
  <2>1. thought[b] \in Thought /\ thought \in [Blocks -> Thought]
    BY DEF TypeOK
  <2>2. [thought[b] EXCEPT !.seen = seen] \in Thought
    BY <2>1 DEF Thought
  <2>3. QED
    BY <2>1, <2>2 DEF Seal
<1>5. TypeOK'
  BY <1>1, <1>2, <1>3, <1>4, SentType, OpenReasoningType DEF TypeOK, Harmless
<1>6. ToolsAgree'
  BY <1>2, SentAgrees DEF OpenReasoning
<1>7. OnlyWholeBatches'
  BY <1>1, <1>2, <1>3, QuietStep DEF OpenReasoning, client
<1>8. QED
  BY <1>5, <1>6, <1>7

LEMMA MessageStopStep == StreamInv /\ MessageStop => StreamInv'
<1> SUFFICES ASSUME StreamInv, MessageStop PROVE StreamInv'
  OBVIOUS
<1> USE DEF StreamInv
<1>1. ~ finalized
  BY DEF MessageStop, Body, Receiving
<1>2. Harmless(pending') /\ started' \in BOOLEAN
  BY EmitHarmless, HelpersHarmless, HarmlessConcat DEF MessageStop
<1>3. message' \in Item /\ reasoning' \in Item
  BY DEF MessageStop, TypeOK, Item
<1>4. TypeOK'
  BY <1>2, <1>3 DEF TypeOK, MessageStop, Harmless
<1>5. ToolsAgree'
  BY DEF ToolsAgree, MessageStop
<1>6. OnlyWholeBatches'
  BY <1>1, <1>2, QuietStep DEF MessageStop, client
<1>7. QED
  BY <1>4, <1>5, <1>6

LEMMA ToolBlockStartStep ==
    ASSUME StreamInv, NEW b \in Blocks, ToolBlockStart(b)
    PROVE  StreamInv'
<1> USE DEF StreamInv
<1>1. PICK k \in ToolKinds :
        /\ Opened(b, k)
        /\ Emit(CloseMessage \o CloseReasoning \o
                IF k \in LateKinds THEN <<>> ELSE <<Plain("Added", k, nextIndex)>>)
        /\ tools' = Append(tools, [block |-> b, kind |-> k, args |-> "empty",
                                   index |-> nextIndex, closed |-> FALSE,
                                   done |-> FALSE])
        /\ message' = [message EXCEPT !.open = FALSE]
        /\ reasoning' = [reasoning EXCEPT !.open = FALSE]
        /\ nextIndex' = nextIndex + 1
  BY DEF ToolBlockStart
<1> DEFINE new == [block |-> b, kind |-> k, args |-> "empty", index |-> nextIndex,
                   closed |-> FALSE, done |-> FALSE]
           added == IF k \in LateKinds THEN <<>> ELSE <<Plain("Added", k, nextIndex)>>
<1>2. k \in BlockKinds /\ k \in EventKinds /\ nextIndex \in Nat /\ tools \in Seq(Tool)
  BY ToolKindsAssumption DEF BlockKinds, EventKinds, TypeOK
<1>3. Harmless(added)
  BY <1>2, HelpersHarmless, OneHarmless, TextFacts DEF Plain, EventTypes, PhaseAfter
<1>4. Harmless(pending') /\ started' \in BOOLEAN
  <2> HIDE DEF added
  <2>1. Emit(CloseMessage \o CloseReasoning \o added)
    BY <1>1 DEF added
  <2>2. QED
    BY <1>3, <2>1, HelpersHarmless, HarmlessConcat, EmitHarmless
<1>5. new \in Tool
  BY <1>2 DEF Tool, ArgStates
<1> HIDE DEF new
<1>6. /\ tools' \in Seq(Tool) /\ Len(tools') = Len(tools) + 1
      /\ DOMAIN tools' = 1 .. Len(tools) + 1 /\ DOMAIN tools = 1 .. Len(tools)
      /\ \A p \in DOMAIN tools : tools'[p] = tools[p]
      /\ tools'[Len(tools) + 1] = new
      /\ Len(tools) \in Nat
  BY <1>1, <1>2, <1>5, AppendProperties DEF new
<1>7. TypeOK'
  <2>1. message' \in Item /\ reasoning' \in Item /\ nextIndex' \in Nat
    <3>1. /\ message' = [message EXCEPT !.open = FALSE]
          /\ reasoning' = [reasoning EXCEPT !.open = FALSE]
          /\ nextIndex' = nextIndex + 1
      BY <1>1
    <3>2. message \in Item /\ reasoning \in Item
      BY DEF TypeOK
    <3>3. message' \in Item
      BY <3>1, <3>2 DEF Item
    <3>4. reasoning' \in Item
      BY <3>1, <3>2 DEF Item
    <3>5. nextIndex' \in Nat
      BY <1>2, <3>1
    <3>6. QED
      BY <3>3, <3>4, <3>5
  <2>2. QED
    BY <1>1, <1>2, <1>4, <1>6, <2>1, OpenedType DEF TypeOK, Harmless
<1>8. ToolsAgree'
  <2>1. \A p \in DOMAIN tools : tools[p].block \in Blocks \ {b}
    BY <1>1, <1>2, OpenedType, ToolType DEF ToolsAgree
  <2>2. \A p \in DOMAIN tools : blk'[tools[p].block] = blk[tools[p].block]
    BY <1>1, <1>2, <2>1, OpenedType
  <2>3. new.block = b /\ new.kind = k /\ new.args = "empty" /\ new.closed = FALSE
    BY DEF new
  <2>4. blk'[b].stage = "open" /\ blk'[b].kind = k /\ blk'[b].args = blk[b].args
    BY <1>1, <1>2, OpenedType
  <2>5. blk[b].args = "empty"
    BY <1>1, <1>2, OpenedType DEF ToolsAgree
  <2>6. \A c \in Blocks \ {b} : blk'[c] = blk[c]
    BY <1>1, <1>2, OpenedType
  <2> DEFINE N == Len(tools) + 1
  <2>7. DOMAIN tools' = DOMAIN tools \cup {N} /\ N \notin DOMAIN tools
    BY <1>6
  <2>8. tools'[N] = new
    BY <1>6
  <2> HIDE DEF N
  <2>9. QED
    BY <1>6, <2>1, <2>2, <2>3, <2>4, <2>5, <2>6, <2>7, <2>8 DEF ToolsAgree
<1>9. OnlyWholeBatches'
  BY <1>1, <1>2, <1>4, OpenedType, QuietStep
<1>10. QED
  BY <1>7, <1>8, <1>9

LEMMA ToolInputStep ==
    ASSUME StreamInv, NEW b \in Blocks, ToolInput(b)
    PROVE  StreamInv'
<1> USE DEF StreamInv
<1>1. PICK a \in ArgStates, k \in ToolKinds, p \in DOMAIN tools :
        /\ tools[p].block = b
        /\ Fragment(b, k)
        /\ blk' = [blk EXCEPT ![b].sent = @ + 1, ![b].args = a]
        /\ tools' = [tools EXCEPT ![p].args = a]
        /\ Emit(IF k = "function" THEN <<Plain("Delta", k, tools[p].index)>> ELSE <<>>)
  BY DEF ToolInput
<1>2. /\ blk[b].sent < MaxFragments /\ ~ finalized /\ blk[b].stage = "open"
      /\ phase' = phase /\ item' = item
  BY <1>1 DEF Fragment, Body, Receiving, ToolInput, client
<1>3. tools[p] \in Tool /\ k \in EventKinds /\ tools[p].index \in Nat
  BY ToolType, ToolKindsAssumption DEF EventKinds
<1>4. Harmless(IF k = "function" THEN <<Plain("Delta", k, tools[p].index)>> ELSE <<>>)
  BY <1>3, HelpersHarmless, OneHarmless, TextFacts DEF Plain, EventTypes
<1>5. Harmless(pending') /\ started' \in BOOLEAN
  BY <1>1, <1>4, EmitHarmless
<1>6. /\ blk' \in [Blocks -> Block]
      /\ blk'[b].stage = blk[b].stage /\ blk'[b].kind = blk[b].kind /\ blk'[b].args = a
      /\ \A c \in Blocks \ {b} : blk'[c] = blk[c]
  <2>1. blk \in [Blocks -> Block] /\ blk[b] \in Block
    BY DEF TypeOK
  <2>2. blk[b].sent + 1 \in 0 .. MaxFragments
    BY <1>2, FragmentType
  <2>3. [blk[b] EXCEPT !.sent = @ + 1, !.args = a] \in Block
    BY <2>1, <2>2 DEF Block
  <2>4. blk' = [blk EXCEPT ![b] = [blk[b] EXCEPT !.sent = @ + 1, !.args = a]]
    BY <1>1, <2>1
  <2>5. QED
    BY <2>1, <2>3, <2>4 DEF Block
<1>7. /\ tools' \in Seq(Tool) /\ DOMAIN tools' = DOMAIN tools
      /\ tools'[p].block = b /\ tools'[p].kind = tools[p].kind
      /\ tools'[p].args = a /\ tools'[p].closed = tools[p].closed
      /\ \A q \in DOMAIN tools \ {p} : tools'[q] = tools[q]
  <2>1. tools \in Seq(Tool)
    BY DEF TypeOK
  <2>2. [tools[p] EXCEPT !.args = a] \in Tool
    BY <1>3 DEF Tool
  <2>3. tools' = [tools EXCEPT ![p] = [tools[p] EXCEPT !.args = a]]
    BY <1>1, <2>1
  <2>4. tools' \in Seq(Tool) /\ DOMAIN tools' = DOMAIN tools
    BY <2>1, <2>2, <2>3, ExceptSeq
  <2>5. QED
    BY <1>1, <1>3, <2>1, <2>3, <2>4 DEF Tool
<1>8. TypeOK'
  BY <1>2, <1>5, <1>6, <1>7 DEF TypeOK, ToolInput, Harmless
<1>9. ToolsAgree'
  <2>1. \A q \in DOMAIN tools : tools[q].block \in Blocks
    BY ToolType
  <2>2. \A q \in DOMAIN tools : tools'[q].block = tools[q].block
    BY <1>1, <1>7
  <2>3. \A q \in DOMAIN tools \ {p} : tools[q].block # b
    BY <1>1 DEF ToolsAgree
  <2>4. \A c \in Blocks : blk'[c].stage = blk[c].stage /\ blk'[c].kind = blk[c].kind
    BY <1>6
  <2>5. QED
    BY <1>1, <1>2, <1>6, <1>7, <2>1, <2>2, <2>3, <2>4 DEF ToolsAgree
<1>10. OnlyWholeBatches'
  BY <1>2, <1>5, QuietStep
<1>11. QED
  BY <1>8, <1>9, <1>10

LEMMA ContentBlockStopStep ==
    ASSUME StreamInv, NEW b \in Blocks, ContentBlockStop(b)
    PROVE  StreamInv'
<1> USE DEF StreamInv
<1>1. ~ finalized /\ item' = item /\ blk[b].stage = "open"
  BY DEF ContentBlockStop, Body, Receiving, client
<1>2. Harmless(pending') /\ started' \in BOOLEAN
  BY EmitHarmless, HelpersHarmless DEF ContentBlockStop
<1>3. /\ blk' \in [Blocks -> Block]
      /\ blk'[b].stage = "stopped"
      /\ blk'[b].kind = blk[b].kind /\ blk'[b].args = blk[b].args
      /\ \A c \in Blocks \ {b} : blk'[c] = blk[c]
  <2>1. blk \in [Blocks -> Block] /\ blk[b] \in Block
    BY DEF TypeOK
  <2>2. [blk[b] EXCEPT !.stage = "stopped"] \in Block
    BY <2>1 DEF Block
  <2>3. QED
    BY <2>1, <2>2 DEF ContentBlockStop, Block
<1>4. /\ tools' \in Seq(Tool) /\ DOMAIN tools' = DOMAIN tools
      /\ \A p \in DOMAIN tools :
            /\ tools'[p].block = tools[p].block /\ tools'[p].kind = tools[p].kind
            /\ tools'[p].args = tools[p].args
            /\ tools'[p].closed => tools[p].closed \/ tools[p].block = b
  <2>1. tools \in Seq(Tool) /\ Len(tools) \in Nat /\ DOMAIN tools = 1 .. Len(tools)
    BY DEF TypeOK
  <2>2. \A p \in DOMAIN tools : tools[p] \in Tool
    BY ToolType
  <2>3. \A t \in Tool : /\ [t EXCEPT !.closed = TRUE] \in Tool
                        /\ [t EXCEPT !.closed = TRUE].block = t.block
                        /\ [t EXCEPT !.closed = TRUE].kind = t.kind
                        /\ [t EXCEPT !.closed = TRUE].args = t.args
    BY DEF Tool
  <2>4. tools' = [p \in 1 .. Len(tools) |->
                     IF tools[p].block = b THEN [tools[p] EXCEPT !.closed = TRUE]
                     ELSE tools[p]]
    BY <2>1 DEF ContentBlockStop, CloseToolBlock
  <2>5. tools' \in [1 .. Len(tools) -> Tool]
    BY <2>1, <2>2, <2>3, <2>4
  <2>6. tools' \in Seq(Tool) /\ DOMAIN tools' = DOMAIN tools
    BY <2>1, <2>5
  <2>7. QED
    BY <2>1, <2>2, <2>3, <2>4, <2>6
<1>5. TypeOK'
  BY <1>2, <1>3, <1>4 DEF TypeOK, ContentBlockStop, Harmless
<1>6. ToolsAgree'
  <2>1. \A p \in DOMAIN tools : tools[p].block \in Blocks
    BY ToolType
  <2>2. QED
    BY <1>1, <1>3, <1>4, <2>1 DEF ToolsAgree
<1>7. OnlyWholeBatches'
  BY <1>1, <1>2, QuietStep
<1>8. QED
  BY <1>5, <1>6, <1>7
-----------------------------------------------------------------------------
(* The ends of the stream *)

\* The events before the batch or the terminal event are harmless, and so is
\* a terminal event.
LEMMA ClosingHarmless ==
    ASSUME TypeOK, NEW before, Harmless(before), NEW t \in Wire!Terminals
    PROVE  /\ Harmless(before \o CloseMessage \o CloseReasoning)
           /\ Harmless(<<Plain(t, "none", 0)>>)
           /\ Harmless(Append(before \o CloseMessage \o CloseReasoning, Plain(t, "none", 0)))
<1>1. Harmless(before \o CloseMessage \o CloseReasoning)
  BY HelpersHarmless, HarmlessConcat
<1>2. t \in EventTypes /\ t # "ItemDone" /\ "none" \in EventKinds
  BY DEF Wire!Terminals, EventTypes, PhaseAfter, EventKinds
<1>3. Harmless(<<Plain(t, "none", 0)>>)
  BY <1>2, OneHarmless, TextFacts DEF Plain
<1> DEFINE s == before \o CloseMessage \o CloseReasoning
           e == Plain(t, "none", 0)
<1>4. s \in Seq(Event) /\ e \in Event
  BY <1>1, <1>2, PlainType DEF Harmless
<1> HIDE DEF s, e
<1>5. Append(s, e) = s \o <<e>>
  BY <1>4, AppendIsConcat
<1>6. QED
  BY <1>1, <1>3, <1>5, HarmlessConcat DEF s, e

-----------------------------------------------------------------------------
(* The texts of the blocks, one after the other *)

LEMMA TextsThree ==
    ASSUME NEW u \in Texts, NEW v \in Texts, NEW w \in Texts
    PROVE  (u \o v) \o w = u \o (v \o w)
BY SMTT(40), ConcatThree DEF Texts

\* A fragment that comes last is kept last.
LEMMA FragmentAmong ==
    ASSUME NEW u \in Texts, NEW g \in Fragments, NEW S
    PROVE  Among(Append(u, g), S) = IF g \in S THEN Append(Among(u, S), g) ELSE Among(u, S)
<1>1. u \in Seq(Fragments)
  BY DEF Texts
<1>2. QED
  BY <1>1, AmongAppend

\* The first n of them.
Parts(f, n) == [k \in 1 .. n |-> f[k - 1]]

\* One part more goes to the end.
LEMMA PartsAppend ==
    ASSUME NEW f \in [Blocks -> Texts], NEW n \in Nat, n <= LastBlock + 1
    PROVE  /\ Parts(f, n) \in Seq(Texts) /\ FlattenSeq(Parts(f, n)) \in Texts
           /\ n <= LastBlock =>
                 FlattenSeq(Parts(f, n + 1)) = FlattenSeq(Parts(f, n)) \o f[n]
<1>1. \A k \in 1 .. n : k - 1 \in Blocks /\ f[k - 1] \in Texts
  BY LastBlockAssumption DEF Blocks
<1>2. Parts(f, n) \in Seq(Texts) /\ Len(Parts(f, n)) = n
  BY <1>1 DEF Parts
<1>3. ASSUME n <= LastBlock PROVE Parts(f, n + 1) = Append(Parts(f, n), f[n])
  BY <1>2 DEF Parts
<1>4. n <= LastBlock => f[n] \in Texts
  BY LastBlockAssumption DEF Blocks
<1>5. QED
  BY <1>2, <1>3, <1>4, FlattenType, FlattenAppend DEF Texts

\* All of them make a text,
LEMMA JoinedType ==
    ASSUME NEW f \in [Blocks -> Texts]
    PROVE  Joined(f) \in Texts /\ Joined(f) = FlattenSeq(Parts(f, LastBlock + 1))
<1>1. Joined(f) = FlattenSeq(Parts(f, LastBlock + 1))
  BY DEF Joined, Parts
<1>2. LastBlock + 1 \in Nat /\ LastBlock + 1 <= LastBlock + 1
  BY LastBlockAssumption
<1>3. QED
  BY <1>1, <1>2, PartsAppend

\* none when none has any,
LEMMA JoinedNothing ==
    ASSUME NEW f \in [Blocks -> Texts], \A b \in Blocks : f[b] = <<>>
    PROVE  Joined(f) = <<>>
<1> DEFINE S == {n \in Nat : n <= LastBlock + 1 => FlattenSeq(Parts(f, n)) = <<>>}
<1>1. 0 \in S
  BY FlattenEmpty DEF Parts
<1>2. ASSUME NEW n \in Nat, n \in S PROVE n + 1 \in S
  <2>1. SUFFICES ASSUME n + 1 <= LastBlock + 1 PROVE FlattenSeq(Parts(f, n + 1)) = <<>>
    OBVIOUS
  <2>2. n <= LastBlock /\ n <= LastBlock + 1 /\ n \in Blocks
    BY <2>1, LastBlockAssumption DEF Blocks
  <2>3. FlattenSeq(Parts(f, n)) = <<>> /\ f[n] = <<>>
    BY <1>2, <2>2
  <2>4. QED
    BY <2>2, <2>3, PartsAppend
<1>3. Nat \subseteq S
  <2> HIDE DEF S
  <2>1. QED
    BY <1>1, <1>2, NatInductionSet
<1>4. QED
  BY <1>3, JoinedType, LastBlockAssumption

\* and what the last one that has any gets goes to their end.
LEMMA JoinedGrows ==
    ASSUME NEW f \in [Blocks -> Texts], NEW g \in [Blocks -> Texts],
           NEW b \in Blocks, NEW txt \in Texts, g[b] = f[b] \o txt,
           \A c \in Blocks : c # b => g[c] = f[c],
           \A c \in Blocks : c > b => f[c] = <<>>
    PROVE  Joined(g) = Joined(f) \o txt
<1> DEFINE F == [n \in Nat |-> FlattenSeq(Parts(f, n))]
           G == [n \in Nat |-> FlattenSeq(Parts(g, n))]
           S == {n \in Nat : n <= LastBlock + 1 => G[n] = IF n <= b THEN F[n] ELSE F[n] \o txt}
<1>1. b \in Nat /\ b <= LastBlock
  BY LastBlockAssumption DEF Blocks
<1>2. 0 \in S
  BY <1>1 DEF Parts
<1>3. ASSUME NEW n \in Nat, n <= LastBlock
      PROVE  /\ n \in Blocks /\ F[n] \in Texts /\ f[n] \in Texts /\ g[n] \in Texts
             /\ F[n + 1] = F[n] \o f[n] /\ G[n + 1] = G[n] \o g[n]
  <2>1. n \in Blocks /\ n + 1 \in Nat /\ n <= LastBlock + 1
    BY <1>3, LastBlockAssumption DEF Blocks
  <2>2. /\ FlattenSeq(Parts(f, n)) \in Texts
        /\ FlattenSeq(Parts(f, n + 1)) = FlattenSeq(Parts(f, n)) \o f[n]
        /\ FlattenSeq(Parts(g, n + 1)) = FlattenSeq(Parts(g, n)) \o g[n]
    BY <1>3, <2>1, PartsAppend
  <2>3. QED
    BY <2>1, <2>2
<1> HIDE DEF F, G
<1>4. ASSUME NEW n \in Nat, n \in S PROVE n + 1 \in S
  <2>1. SUFFICES ASSUME n <= LastBlock
                 PROVE  G[n + 1] = IF n + 1 <= b THEN F[n + 1] ELSE F[n + 1] \o txt
    BY LastBlockAssumption
  <2>2. G[n] = IF n <= b THEN F[n] ELSE F[n] \o txt
    BY <1>4, <2>1, LastBlockAssumption
  <2>3. /\ n \in Blocks /\ F[n] \in Texts /\ f[n] \in Texts /\ g[n] \in Texts
        /\ F[n + 1] = F[n] \o f[n] /\ G[n + 1] = G[n] \o g[n]
    BY <1>3, <2>1
  <2>4. CASE n < b
    <3>1. n <= b /\ n + 1 <= b /\ n # b
      BY <1>1, <2>4
    <3>2. g[n] = f[n]
      BY <2>3, <3>1
    <3>3. QED
      BY <2>2, <2>3, <3>1, <3>2
  <2>5. CASE n = b
    <3>1. n <= b /\ ~ (n + 1 <= b) /\ g[n] = f[n] \o txt
      BY <1>1, <2>5
    <3>2. (F[n] \o f[n]) \o txt = F[n] \o (f[n] \o txt)
      BY <2>3, TextsThree
    <3>3. QED
      BY <2>2, <2>3, <3>1, <3>2
  <2>6. CASE n > b
    <3>1. ~ (n <= b) /\ ~ (n + 1 <= b) /\ n # b
      BY <1>1, <2>6
    <3>2. f[n] = <<>> /\ g[n] = <<>> /\ F[n] \o txt \in Texts
      BY <2>3, <2>6, <3>1, TextFacts
    <3>3. F[n + 1] = F[n] /\ G[n + 1] = G[n]
      BY <2>2, <2>3, <3>1, <3>2, TextFacts
    <3>4. QED
      BY <2>2, <3>1, <3>3
  <2>7. QED
    BY <1>1, <2>4, <2>5, <2>6
<1>5. Nat \subseteq S
  <2> HIDE DEF S
  <2>1. QED
    BY <1>2, <1>4, NatInductionSet
<1>6. G[LastBlock + 1] = F[LastBlock + 1] \o txt
  <2>1. /\ LastBlock + 1 \in Nat /\ LastBlock + 1 <= LastBlock + 1
        /\ ~ (LastBlock + 1 <= b)
    BY <1>1, LastBlockAssumption
  <2>2. LastBlock + 1 \in S
    BY <1>5, <2>1
  <2>3. QED
    BY <2>1, <2>2
<1>7. F[LastBlock + 1] = FlattenSeq(Parts(f, LastBlock + 1))
      /\ G[LastBlock + 1] = FlattenSeq(Parts(g, LastBlock + 1))
  BY LastBlockAssumption DEF F, G
<1>8. QED
  BY <1>6, <1>7, JoinedType
-----------------------------------------------------------------------------
LEMMA FinalResponseType ==
    ASSUME TypeOK
    PROVE  FinalResponse \in Response
<1>1. \A b \in Blocks : thought[b].text \in Texts
  BY DEF TypeOK, Thought
<1>2. Joined([b \in Blocks |-> thought[b].text]) \in Texts
  BY <1>1, JoinedType
<1>3. Sealed \in SUBSET Blocks
  BY DEF Sealed
<1>4. message.text \in Texts
  BY DEF TypeOK, Item
<1>5. \A p \in DOMAIN tools :
         [index |-> tools[p].index, status |-> FinalToolStatus(tools[p].kind)]
            \in [index : Nat, status : {"none", "completed"}]
  BY ToolType DEF FinalToolStatus
<1>6. {[index |-> tools[p].index, status |-> FinalToolStatus(tools[p].kind)] :
          p \in {q \in DOMAIN tools : ParsesAsJson(tools[q].args)}}
        \in SUBSET [index : Nat, status : {"none", "completed"}]
  BY <1>5
<1>7. QED
  BY <1>2, <1>3, <1>4, <1>6 DEF FinalResponse, Response

LEMMA FinishStep ==
    ASSUME StreamInv, ~ finalized, NEW before, Harmless(before), Finish(before),
           started' \in BOOLEAN
    PROVE  StreamInv'
<1> USE DEF StreamInv
<1>1. /\ message' \in Item /\ reasoning' \in Item /\ finalized' = TRUE
      /\ blk' = blk /\ phase' = phase /\ item' = item /\ nextIndex' = nextIndex
      /\ thought' = thought /\ stopReason' = stopReason /\ driver' = driver
  BY DEF Finish, TypeOK, Item, upstream, client
<1> DEFINE closing == before \o CloseMessage \o CloseReasoning
<1>2. ASSUME NEW t \in Wire!Terminals, pending' = Append(closing, Plain(t, "none", 0)),
             final' \in Response, tools' = tools
      PROVE  StreamInv'
  <2>1. Harmless(pending')
    BY <1>2, ClosingHarmless
  <2>2. TypeOK'
    BY <1>1, <1>2, <2>1 DEF TypeOK, Harmless
  <2>3. ToolsAgree'
    BY <1>1, <1>2 DEF ToolsAgree
  <2>4. OnlyWholeBatches'
    BY <1>1, <2>1, QuietStep
  <2>5. QED
    BY <2>2, <2>3, <2>4
<1>3. CASE IsIncompleteStop
  BY <1>2, <1>3, FinalResponseType DEF Finish, Wire!Terminals
<1>4. CASE ~ IsIncompleteStop /\ ~ ToolsReady
  BY <1>2, <1>4 DEF Finish, Wire!Terminals, TypeOK
<1>5. CASE ~ IsIncompleteStop /\ ToolsReady
  <2> DEFINE last == <<Plain("completed", "none", 0)>>
  <2>1. /\ pending' = closing \o FinalizeTools \o last
        /\ final' = FinalResponse
        /\ tools' = [p \in DOMAIN tools |-> [tools[p] EXCEPT !.done = TRUE]]
    BY <1>5 DEF Finish
  <2>2. pending' \in Seq(Event)
    <3>1. closing \in Seq(Event) /\ last \in Seq(Event)
      BY ClosingHarmless DEF Harmless, Wire!Terminals
    <3>2. FinalizeTools \in Seq(Event)
      BY FinalizeToolsType
    <3> HIDE DEF closing, last
    <3>3. closing \o FinalizeTools \in Seq(Event)
      BY <3>1, <3>2, ConcatProperties
    <3>4. QED
      BY <2>1, <3>1, <3>3, ConcatProperties
  <2>3. /\ tools' \in Seq(Tool) /\ DOMAIN tools' = DOMAIN tools
        /\ \A p \in DOMAIN tools :
              /\ tools'[p].block = tools[p].block /\ tools'[p].kind = tools[p].kind
              /\ tools'[p].args = tools[p].args /\ tools'[p].closed = tools[p].closed
    <3>1. tools \in Seq(Tool) /\ Len(tools) \in Nat /\ DOMAIN tools = 1 .. Len(tools)
      BY DEF TypeOK
    <3>2. \A p \in DOMAIN tools : tools[p] \in Tool
      BY ToolType
    <3>3. \A t \in Tool : /\ [t EXCEPT !.done = TRUE] \in Tool
                          /\ [t EXCEPT !.done = TRUE].block = t.block
                          /\ [t EXCEPT !.done = TRUE].kind = t.kind
                          /\ [t EXCEPT !.done = TRUE].args = t.args
                          /\ [t EXCEPT !.done = TRUE].closed = t.closed
      BY DEF Tool
    <3>4. tools' = [p \in 1 .. Len(tools) |-> [tools[p] EXCEPT !.done = TRUE]]
      BY <2>1, <3>1
    <3>5. tools' \in [1 .. Len(tools) -> Tool]
      BY <3>1, <3>2, <3>3, <3>4
    <3>6. tools' \in Seq(Tool) /\ DOMAIN tools' = DOMAIN tools
      BY <3>1, <3>5
    <3>7. QED
      BY <3>1, <3>2, <3>3, <3>4, <3>6
  <2>4. TypeOK'
    BY <1>1, <2>1, <2>2, <2>3, FinalResponseType DEF TypeOK
  <2>5. ToolsAgree'
    BY <1>1, <2>3 DEF ToolsAgree
  <2>6. WholeBatch'
    BY <1>1, <1>5, <2>3 DEF WholeBatch, IsIncompleteStop, ToolsReady
  <2>7. OnlyWholeBatches'
    BY <2>6 DEF OnlyWholeBatches
  <2>8. QED
    BY <2>4, <2>5, <2>7
<1>6. QED
  BY <1>3, <1>4, <1>5

LEMMA FailStep == StreamInv /\ Fail => StreamInv'
<1> SUFFICES ASSUME StreamInv, Fail PROVE StreamInv'
  OBVIOUS
<1> USE DEF StreamInv
<1>1. ~ finalized /\ finalized' = TRUE /\ item' = item
  BY DEF Fail, Receiving, client
<1>2. Harmless(pending')
  BY HelpersHarmless, ClosingHarmless DEF Fail, Wire!Terminals
<1>3. TypeOK'
  BY <1>1, <1>2 DEF TypeOK, Fail, upstream, Harmless
<1>4. ToolsAgree'
  BY DEF ToolsAgree, Fail, upstream
<1>5. OnlyWholeBatches'
  BY <1>1, <1>2, QuietStep
<1>6. QED
  BY <1>3, <1>4, <1>5

LEMMA YieldStep == StreamInv /\ Yield => StreamInv'
<1> SUFFICES ASSUME StreamInv, Yield PROVE StreamInv'
  OBVIOUS
<1> USE DEF StreamInv
<1> DEFINE e == Head(pending)
<1>1. pending \in Seq(Event) /\ pending # <<>>
  BY DEF TypeOK, Yield
<1>2. /\ e \in Event /\ e = pending[1] /\ 1 \in DOMAIN pending
      /\ pending' \in Seq(Event)
      /\ \A n \in DOMAIN pending' : n + 1 \in DOMAIN pending /\ pending'[n] = pending[n + 1]
  BY <1>1 DEF Yield
<1>3. TypeOK'
  BY <1>2 DEF TypeOK, Yield, upstream, machine
<1>4. ToolsAgree'
  BY DEF ToolsAgree, Yield, upstream, machine
<1>5. WholeBatch' = WholeBatch
  BY DEF WholeBatch, IsIncompleteStop, ToolsReady, Yield, machine
<1>6. (\E n \in DOMAIN pending' : CallDoneEvent(pending'[n])) => WholeBatch
  BY <1>2 DEF OnlyWholeBatches
<1>7. ASSUME NEW i \in DOMAIN item', CallDone(i)'
      PROVE  WholeBatch
  <2>1. CASE i \in DOMAIN item /\ item'[i] = item[i]
    BY <1>7, <2>1 DEF CallDone, IsCall, OnlyWholeBatches
  <2>2. CASE ~ (i \in DOMAIN item /\ item'[i] = item[i])
    <3>1. /\ item' = Put(item, e.index, [kind |-> WireKind(e.kind),
                                         phase |-> PhaseAfter[e.type]])
          /\ e.type \in DOMAIN PhaseAfter
      BY <1>7, <2>2 DEF Yield, Deliver
    <3>2. item'[i] = [kind |-> WireKind(e.kind), phase |-> PhaseAfter[e.type]]
      BY <1>7, <2>2, <3>1 DEF Put
    <3>3. PhaseAfter[e.type] = "done" /\ WireKind(e.kind) \in Wire!CallKinds
      BY <1>7, <3>2 DEF CallDone, IsCall
    <3>4. e.type = "ItemDone"
      BY <3>1, <3>3 DEF PhaseAfter
    <3>5. QED
      BY <1>2, <3>3, <3>4 DEF CallDoneEvent, OnlyWholeBatches
  <2>3. QED
    BY <2>1, <2>2
<1>8. OnlyWholeBatches'
  BY <1>5, <1>6, <1>7 DEF OnlyWholeBatches
<1>9. QED
  BY <1>3, <1>4, <1>8

LEMMA ClientDropStep == StreamInv /\ ClientDrop => StreamInv'
<1> SUFFICES ASSUME StreamInv, ClientDrop PROVE StreamInv'
  OBVIOUS
<1> USE DEF StreamInv, ClientDrop, upstream, machine, client
<1>1. TypeOK'
  BY DEF TypeOK
<1>2. ToolsAgree'
  BY DEF ToolsAgree
<1>3. OnlyWholeBatches'
  BY DEF OnlyWholeBatches, WholeBatch, IsIncompleteStop, ToolsReady, CallDone, IsCall
<1>4. QED
  BY <1>1, <1>2, <1>3
-----------------------------------------------------------------------------
(* The theorems *)

\* StreamInv is inductive: one step per action of the gateway, its upstream
\* and its client.
LEMMA StreamInvNext == StreamInv /\ [Next]_vars => StreamInv'
<1> SUFFICES ASSUME StreamInv, [Next]_vars PROVE StreamInv'
  OBVIOUS
<1>1. CASE MessageStart
  BY <1>1, MessageStartStep
<1>2. ASSUME NEW b \in Blocks, ContentBlockStart(b) \/ ToolBlockStart(b)
      PROVE  StreamInv'
  BY <1>2, ContentBlockStartStep, ToolBlockStartStep
<1>3. ASSUME NEW b \in Blocks, TextDelta(b) \/ EmptyReasoningText(b) \/ ReasoningText(b)
      PROVE  StreamInv'
  BY <1>3, TextDeltaStep, EmptyReasoningTextStep, ReasoningTextStep
<1>4. ASSUME NEW b \in Blocks,
             ReasoningSignature(b) \/ ReasoningRedacted(b) \/ ToolInput(b)
      PROVE  StreamInv'
  BY <1>4, SealStep, ToolInputStep DEF ReasoningSignature, ReasoningRedacted
<1>5. ASSUME NEW b \in Blocks, ContentBlockStop(b) PROVE StreamInv'
  BY <1>5, ContentBlockStopStep
<1>6. CASE MessageStop
  BY <1>6, MessageStopStep
<1>7. CASE Metadata
  <2>1. ~ finalized /\ Finish(Started) /\ started' \in BOOLEAN
    BY <1>7 DEF Metadata, Receiving
  <2>2. Harmless(Started)
    BY HelpersHarmless DEF StreamInv
  <2>3. QED
    BY <2>1, <2>2, FinishStep
<1>8. CASE UpstreamEof
  <2>1. ~ finalized /\ Finish(<<>>) /\ started' \in BOOLEAN
    BY <1>8 DEF UpstreamEof, Receiving, StreamInv, TypeOK
  <2>2. Harmless(<<>>)
    BY HelpersHarmless DEF StreamInv
  <2>3. QED
    BY <2>1, <2>2, FinishStep
<1>9. CASE UpstreamError \/ IdleTimeout
  BY <1>9, FailStep DEF UpstreamError, IdleTimeout
<1>10. CASE Yield
  BY <1>10, YieldStep
<1>11. CASE ClientDrop
  BY <1>11, ClientDropStep
<1>12. CASE UNCHANGED vars
  BY <1>12 DEF StreamInv, TypeOK, ToolsAgree, OnlyWholeBatches, WholeBatch,
               IsIncompleteStop, ToolsReady, CallDone, IsCall,
               vars, upstream, machine, client
<1>13. QED
  BY <1>1, <1>2, <1>3, <1>4, <1>5, <1>6, <1>7, <1>8, <1>9, <1>10, <1>11, <1>12
  DEF Next, UpstreamEvent

\* The gateway's streaming state keeps its types, whatever the upstream sends
\* and whenever it stops (ResponsesStreamState and its driver).
THEOREM TypeCorrect == Spec => []TypeOK
<1>1. Spec => []StreamInv
  BY StreamInvInit, StreamInvNext, PTL DEF Spec
<1>2. StreamInv => TypeOK
  BY DEF StreamInv
<1>3. QED
  BY <1>1, <1>2, PTL

\* What the inductive invariant says of the tool blocks of the upstream.
LEMMA WholeBatchIsWhole ==
    ASSUME StreamInv
    PROVE  ExecutableOnlyWhenWhole
<1> SUFFICES ASSUME NEW i \in DOMAIN item, CallDone(i)
             PROVE  /\ ~ IsIncompleteStop
                    /\ \A b \in Blocks :
                          blk[b].kind \in ToolKinds /\ blk[b].stage # "idle" =>
                              blk[b].stage = "stopped" /\ ParsesAsJson(blk[b].args)
  BY DEF ExecutableOnlyWhenWhole
<1>1. WholeBatch
  BY DEF StreamInv, OnlyWholeBatches
<1>2. ASSUME NEW b \in Blocks, blk[b].kind \in ToolKinds, blk[b].stage # "idle"
      PROVE  blk[b].stage = "stopped" /\ ParsesAsJson(blk[b].args)
  <2>1. PICK p \in DOMAIN tools : tools[p].block = b
    BY <1>2 DEF StreamInv, ToolsAgree
  <2>2. tools[p].closed /\ ParsesAsJson(tools[p].args)
    BY <1>1 DEF WholeBatch, ToolsReady
  <2>3. QED
    BY <2>1, <2>2 DEF StreamInv, ToolsAgree
<1>3. QED
  BY <1>1, <1>2 DEF WholeBatch

\* A client never holds an executable call of a batch that is not whole:
\* truncated, filtered, malformed or cut off calls stay inert.
THEOREM CallsAreWhole == Spec => []ExecutableOnlyWhenWhole
<1>1. Spec => []StreamInv
  BY StreamInvInit, StreamInvNext, PTL DEF Spec
<1>2. StreamInv => ExecutableOnlyWhenWhole
  BY WholeBatchIsWhole
<1>3. QED
  BY <1>1, <1>2, PTL
-----------------------------------------------------------------------------
(***************************************************************************)
(* What a client of the typed Converse lane receives, proved for every set *)
(* of blocks, every registry of tools and any number of fragments: the     *)
(* stream implements ResponsesWire, its fragments arrive whole and once,   *)
(* and the Response of the terminal event says what the items said.        *)
(*                                                                         *)
(* A view is what the client holds; After(e, v) is the view after event e  *)
(* and Legal(e, v) the guard ResponsesWire puts on e.  A moment is the     *)
(* machine as far as a client can see it, and Promised(m, v) relates the   *)
(* two: the items, the fragments and the finished texts that a client up   *)
(* to date with m holds.  The inductive invariant DeliveryInv says that    *)
(* the pending events lead, each of them legal, from the client's view to  *)
(* a view up to date with the machine.                                     *)
(*                                                                         *)
(* Each helper of the machine is then one lemma, Carries(m, events, n):    *)
(* its events take every client up to date with m to one up to date with   *)
(* n; and each action composes the lemmas of the helpers it calls.         *)
(***************************************************************************)
-----------------------------------------------------------------------------
(* What the client holds, what one event makes of it, and when the event   *)
(* is allowed                                                              *)

Whole   == [text : Texts, env : SUBSET Blocks]
Shown   == UNION {[D -> [kind : Wire!ItemKinds, phase : Wire!Phases]] : D \in SUBSET Nat}
Streams == UNION {[D -> Texts] : D \in SUBSET Nat}
Views   == [envelope : {"none", "created", "in_progress"}, item : Shown,
            terminal : {"none"} \cup Wire!Terminals, streamed : Streams,
            lastDone : [message : Whole, reasoning : Whole]]

View == [envelope |-> envelope, item |-> item, terminal |-> terminal,
         streamed |-> streamed, lastDone |-> lastDone]

\* Deliver, on a view.
After(e, v) ==
    [envelope |-> IF e.type = "Created" THEN "created"
                  ELSE IF e.type = "InProgress" THEN "in_progress" ELSE v.envelope,
     item     |-> IF e.type \in DOMAIN PhaseAfter
                  THEN Put(v.item, e.index, [kind |-> WireKind(e.kind),
                                             phase |-> PhaseAfter[e.type]])
                  ELSE v.item,
     terminal |-> IF e.type \in Wire!Terminals THEN e.type ELSE v.terminal,
     streamed |-> IF e.type = "Delta" /\ e.kind # "summary"
                  THEN Put(v.streamed, e.index, Get(v.streamed, e.index) \o e.text)
                  ELSE v.streamed,
     lastDone |-> IF e.type = "ItemDone" /\ e.kind \in {"message", "reasoning"}
                  THEN [v.lastDone EXCEPT ![e.kind] = [text |-> e.text, env |-> e.env]]
                  ELSE v.lastDone]

\* The item of e is of its kind, one of kinds, and in one of the phases ps.
Finds(e, v, kinds, ps) ==
    /\ v.envelope = "in_progress"
    /\ WireKind(e.kind) \in kinds
    /\ e.index \in DOMAIN v.item
    /\ v.item[e.index].kind = WireKind(e.kind)
    /\ v.item[e.index].phase \in ps

\* The guards of ResponsesWire.
LegalOpening(e, v) ==
    \/ e.type = "Created" /\ v.envelope = "none"
    \/ e.type = "InProgress" /\ v.envelope = "created"
    \/ e.type = "Added" /\ v.envelope = "in_progress" /\ e.index \notin DOMAIN v.item

LegalMove(e, v) ==
    \/ e.type = "PartAdded" /\ Finds(e, v, {"content"}, {"added"})
    \/ e.type = "TextDone" /\ Finds(e, v, {"content"}, {"part", "text_done"})
    \/ e.type = "PartDone" /\ Finds(e, v, {"content"}, {"part", "text_done"})
    \/ e.type = "ArgsDone" /\ Finds(e, v, {"call"}, {"added"})
    \/ e.type = "ItemDone" /\ Finds(e, v, {"content"}, {"part_done"})
    \/ e.type = "ItemDone" /\ Finds(e, v, {"call"}, {"args_done"})
    \/ e.type = "ItemDone" /\ Finds(e, v, {"late_call"}, {"added"})

LegalDelta(e, v) ==
    \/ e.type = "Delta" /\ Finds(e, v, {"content"}, {"part"})
    \/ e.type = "Delta" /\ Finds(e, v, {"call"}, {"added"})

LegalEnd(e, v) ==
    /\ v.envelope # "created"
    /\ \/ e.type = "completed" /\ \A i \in DOMAIN v.item : v.item[i].phase = "done"
       \/ /\ e.type = "incomplete"
          /\ \A i \in DOMAIN v.item :
                \/ v.item[i].phase = "done"
                \/ v.item[i].kind = "call" /\ v.item[i].phase = "added"
       \/ /\ e.type = "failed"
          /\ \A i \in DOMAIN v.item :
                v.item[i].kind \in Wire!CallKinds =>
                    v.item[i].phase \notin {"args_done", "done"}

Legal(e, v) ==
    /\ v.terminal = "none"
    /\ LegalOpening(e, v) \/ LegalMove(e, v) \/ LegalDelta(e, v) \/ LegalEnd(e, v)

Leads(e, v, w) == Legal(e, v) /\ w = After(e, v)

\* The events may be delivered one after the other, and end in the view to.
Path(from, events, to) ==
    /\ events \in Seq(Event)
    /\ \E path \in [1 .. Len(events) + 1 -> Views] :
          /\ path[1] = from /\ path[Len(events) + 1] = to
          /\ \A k \in 1 .. Len(events) : Leads(events[k], path[k], path[k + 1])
-----------------------------------------------------------------------------
(* What the machine owes the client once everything pending is delivered   *)

\* The machine as far as a client can see it.
Moments == [started : BOOLEAN, next : Nat, message : Item, reasoning : Item,
            tools : Seq(Tool), sent : SUBSET Fragments, sealed : SUBSET Blocks,
            verdict : {"none"} \cup Wire!Terminals]

Now == [started |-> started, next |-> nextIndex, message |-> message,
        reasoning |-> reasoning, tools |-> tools,
        sent |-> UNION {blk[b].text : b \in Blocks}, sealed |-> Sealed,
        verdict |-> IF ~ finalized THEN "none"
                    ELSE IF final.status = "none" THEN "failed" ELSE final.status]

OpenAt(it, i) == it.open /\ it.index = i
ToolAt(m, i) == \E p \in DOMAIN m.tools : m.tools[p].index = i

\* An output_index belongs to one item, and none was given out before the
\* envelope.
IndicesFit(m) ==
    /\ m.message.open => m.message.index < m.next
    /\ m.reasoning.open => m.reasoning.index < m.next
    /\ m.message.open /\ m.reasoning.open => m.message.index # m.reasoning.index
    /\ \A p \in DOMAIN m.tools :
          /\ m.tools[p].index < m.next
          /\ ~ OpenAt(m.message, m.tools[p].index)
          /\ ~ OpenAt(m.reasoning, m.tools[p].index)
    /\ \A p, q \in DOMAIN m.tools : m.tools[p].index = m.tools[q].index => p = q
    /\ ~ m.started => m.next = 0

Fits(m) == m \in Moments /\ IndicesFit(m)

OpenItem == [kind |-> "content", phase |-> "part"]
DoneItem == [kind |-> "content", phase |-> "done"]
CallItem(t) == [kind |-> WireKind(t.kind), phase |-> IF t.done THEN "done" ELSE "added"]

\* The items the client was told of, as the machine has them.
ItemsPromised(m, its) ==
    /\ \A i \in DOMAIN its : i < m.next
    /\ m.message.open =>
          m.message.index \in DOMAIN its /\ its[m.message.index] = OpenItem
    /\ m.reasoning.open =>
          m.reasoning.index \in DOMAIN its /\ its[m.reasoning.index] = OpenItem
    /\ \A p \in DOMAIN m.tools :
          IF m.tools[p].kind \in LateKinds /\ ~ m.tools[p].done
          THEN m.tools[p].index \notin DOMAIN its
          ELSE /\ m.tools[p].index \in DOMAIN its
               /\ its[m.tools[p].index] = CallItem(m.tools[p])
    /\ \A i \in DOMAIN its :
          \/ ToolAt(m, i) \/ OpenAt(m.message, i) \/ OpenAt(m.reasoning, i)
          \/ its[i] = DoneItem

\* The fragments the client was sent, each in the deltas of one item, once.
StreamedPromised(sent, deltas) ==
    /\ UNION {Range(deltas[i]) : i \in DOMAIN deltas} = sent
    /\ \A i, j \in DOMAIN deltas : i # j => Range(deltas[i]) \cap Range(deltas[j]) = {}
    /\ \A i \in DOMAIN deltas : InOrder(deltas[i])

\* At most one fragment, and one that comes after those of its block.
Fresh(txt, sent) ==
    \/ txt = <<>>
    \/ \E f \in Fragments : txt = <<f>> /\ \A g \in sent : g[1] = f[1] => g[2] < f[2]

\* The content items it was told are done, unless they are open again.
WholePromised(m, last) ==
    /\ ~ m.message.open => last.message.text = m.message.text
    /\ ~ m.reasoning.open =>
          last.reasoning = [text |-> m.reasoning.text, env |-> m.sealed]

Promised(m, v) ==
    /\ v.envelope = IF m.started THEN "in_progress" ELSE "none"
    /\ v.terminal = m.verdict
    /\ ItemsPromised(m, v.item)
    /\ StreamedPromised(m.sent, v.streamed)
    /\ WholePromised(m, v.lastDone)

\* The events take every client that has what m owes to what n owes.
Carries(m, events, n) ==
    /\ Fits(n)
    /\ \A v \in Views : Promised(m, v) =>
          \E w \in Views : Path(v, events, w) /\ Promised(n, w)

PendingFits ==
    IF driver = "dropped" THEN terminal = "none"
    ELSE \E w \in Views : Path(View, pending, w) /\ Promised(Now, w)

DriverFits ==
    /\ driver = "running" /\ finalized => pending # <<>>
    /\ driver = "ended" => pending = <<>>

\* No fragment a block has still to send was sent before.
FragmentsFit ==
    \A b \in Blocks : \A f \in blk[b].text : f[1] = b /\ f[2] <= blk[b].sent

\* The reasoning gathered in order of arrival, and by block.
ThoughtsFit ==
    /\ \A b \in Blocks :
          /\ thought[b].text = Among(reasoning.text, FragmentsOf(b))
          /\ thought[b].text # <<>> => blk[b].kind = "reasoning" /\ blk[b].text # {}
          /\ blk[b].stage = "idle" => blk[b].kind = "text"
    /\ ~ ReasoningOverlaps => reasoning.text = Joined([b \in Blocks |-> thought[b].text])

\* The accumulators of the final Response and those of the items.
FinalFits ==
    /\ ~ finalized => final = NoFinal /\ \A p \in DOMAIN tools : ~ tools[p].done
    /\ final.status # "none" =>
          /\ ~ message.open /\ ~ reasoning.open
          /\ final.message = message.text
          /\ final.reasoning = [text |-> Joined([b \in Blocks |-> thought[b].text]),
                                env  |-> Sealed]
    /\ final.status = "completed" =>
          /\ \A p \in DOMAIN tools : tools[p].done
          /\ {t.index : t \in final.tools} = {tools[p].index : p \in DOMAIN tools}

DeliveryInv ==
    /\ StreamInv /\ Fits(Now) /\ PendingFits /\ DriverFits
    /\ FragmentsFit /\ ThoughtsFit /\ FinalFits
-----------------------------------------------------------------------------
(* Paths *)

\* No event leads nowhere else.
LEMMA PathEmpty ==
    ASSUME NEW v \in Views
    PROVE  Path(v, <<>>, v)
<1> DEFINE path == [k \in 1 .. 1 |-> v]
<1>1. path \in [1 .. Len(<<>>) + 1 -> Views] /\ path[1] = v /\ path[Len(<<>>) + 1] = v
  OBVIOUS
<1>2. \A k \in 1 .. Len(<<>>) : Leads(<<>>[k], path[k], path[k + 1])
  OBVIOUS
<1>3. <<>> \in Seq(Event)
  OBVIOUS
<1> HIDE DEF path
<1>4. QED
  BY <1>1, <1>2, <1>3 DEF Path

\* One legal event is a path.
LEMMA PathOne ==
    ASSUME NEW v \in Views, NEW w \in Views, NEW e \in Event, Leads(e, v, w)
    PROVE  Path(v, <<e>>, w)
<1> DEFINE path == [k \in 1 .. 2 |-> IF k = 1 THEN v ELSE w]
<1>1. /\ path \in [1 .. Len(<<e>>) + 1 -> Views]
      /\ path[1] = v /\ path[Len(<<e>>) + 1] = w
  OBVIOUS
<1>2. \A k \in 1 .. Len(<<e>>) : k = 1 /\ path[k] = v /\ <<e>>[k] = e /\ path[k + 1] = w
  OBVIOUS
<1>3. <<e>> \in Seq(Event)
  OBVIOUS
<1> HIDE DEF path
<1>4. QED
  BY <1>1, <1>2, <1>3 DEF Path

\* Paths compose.
LEMMA PathConcat ==
    ASSUME NEW u, NEW v, NEW w, NEW s, NEW t,
           Path(u, s, v), Path(v, t, w)
    PROVE  Path(u, s \o t, w)
<1>1. s \in Seq(Event) /\ t \in Seq(Event)
  BY DEF Path
<1>2. PICK p \in [1 .. Len(s) + 1 -> Views] :
         /\ p[1] = u /\ p[Len(s) + 1] = v
         /\ \A k \in 1 .. Len(s) : Leads(s[k], p[k], p[k + 1])
  BY DEF Path
<1>3. PICK q \in [1 .. Len(t) + 1 -> Views] :
         /\ q[1] = v /\ q[Len(t) + 1] = w
         /\ \A k \in 1 .. Len(t) : Leads(t[k], q[k], q[k + 1])
  BY DEF Path
<1> DEFINE n == Len(s)
           m == Len(t)
           r == [k \in 1 .. n + m + 1 |-> IF k <= n + 1 THEN p[k] ELSE q[k - n]]
<1>4. n \in Nat /\ m \in Nat /\ s \o t \in Seq(Event) /\ Len(s \o t) = n + m
  BY <1>1, ConcatProperties
<1> HIDE DEF n, m
<1>5. \A k \in 1 .. n + m : (s \o t)[k] = IF k <= n THEN s[k] ELSE t[k - n]
  BY <1>1, <1>4, ConcatProperties DEF n, m
<1>6. \A k \in 1 .. n + 1 : r[k] = p[k]
  BY <1>4
<1>7. \A k \in n + 1 .. n + m + 1 : r[k] = q[k - n]
  BY <1>2, <1>3, <1>4 DEF n
<1>8. r \in [1 .. n + m + 1 -> Views]
  BY <1>2, <1>3, <1>4 DEF n, m
<1>9. r[1] = u /\ r[n + m + 1] = w
  BY <1>2, <1>3, <1>4, <1>6, <1>7 DEF m
<1> HIDE DEF r
<1>10. ASSUME NEW k \in 1 .. n + m PROVE Leads((s \o t)[k], r[k], r[k + 1])
  <2>1. CASE k <= n
    <3>1. k \in 1 .. n /\ k \in 1 .. n + 1 /\ k + 1 \in 1 .. n + 1
      BY <1>4, <2>1
    <3>2. r[k] = p[k] /\ r[k + 1] = p[k + 1] /\ (s \o t)[k] = s[k]
      BY <1>5, <1>6, <2>1, <3>1
    <3>3. QED
      BY <1>2, <3>1, <3>2 DEF n
  <2>2. CASE ~ (k <= n)
    <3>1. k - n \in 1 .. m /\ k \in n + 1 .. n + m + 1 /\ k + 1 \in n + 1 .. n + m + 1
          /\ (k + 1) - n = (k - n) + 1
      BY <1>4, <2>2
    <3>2. r[k] = q[k - n] /\ r[k + 1] = q[(k - n) + 1] /\ (s \o t)[k] = t[k - n]
      BY <1>4, <1>5, <1>7, <2>2, <3>1
    <3>3. QED
      BY <1>3, <3>1, <3>2 DEF m
  <2>3. QED
    BY <2>1, <2>2
<1>11. QED
  BY <1>4, <1>8, <1>9, <1>10 DEF Path

\* A path begins with a legal event, and goes on from there.
LEMMA PathHead ==
    ASSUME NEW u, NEW w, NEW s, Path(u, s, w), s # <<>>
    PROVE  \E v \in Views : Leads(Head(s), u, v) /\ Path(v, Tail(s), w)
<1>1. s \in Seq(Event)
  BY DEF Path
<1>2. PICK p \in [1 .. Len(s) + 1 -> Views] :
         /\ p[1] = u /\ p[Len(s) + 1] = w
         /\ \A k \in 1 .. Len(s) : Leads(s[k], p[k], p[k + 1])
  BY DEF Path
<1> DEFINE n == Len(s)
           q == [k \in 1 .. n |-> p[k + 1]]
<1>3. n \in Nat \ {0} /\ Head(s) = s[1]
  BY <1>1
<1>4. Tail(s) \in Seq(Event) /\ Len(Tail(s)) = n - 1
  BY <1>1
<1>5. \A k \in 1 .. n - 1 : Tail(s)[k] = s[k + 1]
  BY <1>1
<1> HIDE DEF n
<1>6. q \in [1 .. n -> Views] /\ q[n] = w /\ q[1] = p[2]
  BY <1>2, <1>3 DEF n
<1>7. \A k \in 1 .. n : q[k] = p[k + 1]
  OBVIOUS
<1> HIDE DEF q
<1>8. ASSUME NEW k \in 1 .. n - 1 PROVE Leads(Tail(s)[k], q[k], q[k + 1])
  <2>1. k \in 1 .. n /\ k + 1 \in 1 .. n
    BY <1>3
  <2>2. QED
    BY <1>2, <1>5, <1>7, <2>1 DEF n
<1>9. n - 1 + 1 = n
  BY <1>3
<1>10. Path(q[1], Tail(s), w)
  BY <1>4, <1>6, <1>8, <1>9 DEF Path
<1>11. 1 \in 1 .. n /\ 2 \in 1 .. n + 1
  BY <1>3
<1>12. q[1] \in Views /\ Leads(Head(s), u, q[1])
  BY <1>2, <1>3, <1>6, <1>11 DEF n
<1>13. QED
  BY <1>10, <1>12

\* A path of no events ends where it begins.
LEMMA PathEnds ==
    ASSUME NEW u, NEW w, Path(u, <<>>, w)
    PROVE  u = w
BY DEF Path

\* A helper that emits nothing owes nothing.
LEMMA CarriesNothing ==
    ASSUME NEW m, Fits(m)
    PROVE  Carries(m, <<>>, m)
BY PathEmpty DEF Carries

\* Helpers called one after the other compose.
LEMMA CarriesConcat ==
    ASSUME NEW m, NEW n, NEW o, NEW s, NEW t, Carries(m, s, n), Carries(n, t, o)
    PROVE  Carries(m, s \o t, o)
<1>1. ASSUME NEW u \in Views, Promised(m, u)
      PROVE  \E w \in Views : Path(u, s \o t, w) /\ Promised(o, w)
  <2>1. PICK v \in Views : Path(u, s, v) /\ Promised(n, v)
    BY <1>1 DEF Carries
  <2>2. PICK w \in Views : Path(v, t, w) /\ Promised(o, w)
    BY <2>1 DEF Carries
  <2>3. QED
    BY <2>1, <2>2, PathConcat
<1>2. QED
  BY <1>1 DEF Carries

-----------------------------------------------------------------------------
(* One event *)

\* The table of phases, entry by entry.
LEMMA PhaseAfterFacts ==
    /\ DOMAIN PhaseAfter = {"Added", "PartAdded", "TextDone", "PartDone", "ArgsDone",
                            "ItemDone"}
    /\ PhaseAfter["Added"] = "added" /\ PhaseAfter["PartAdded"] = "part"
    /\ PhaseAfter["TextDone"] = "text_done" /\ PhaseAfter["PartDone"] = "part_done"
    /\ PhaseAfter["ArgsDone"] = "args_done" /\ PhaseAfter["ItemDone"] = "done"
    /\ \A t \in DOMAIN PhaseAfter : PhaseAfter[t] \in Wire!Phases
BY DEF PhaseAfter, Wire!Phases

\* The table of kinds, entry by entry.
LEMMA WireKindFacts ==
    /\ \A k : WireKind(k) \in Wire!ItemKinds
    /\ WireKind("message") = "content" /\ WireKind("reasoning") = "content"
    /\ WireKind("summary") = "content"
    /\ \A k \in AllToolKinds : WireKind(k) = IF k \in LateKinds THEN "late_call" ELSE "call"
    /\ WireKind("function") = "call"
BY DEF WireKind, Wire!ItemKinds, AllToolKinds, LateKinds

\* What Put makes of the items a client holds.
LEMMA ShownPut ==
    ASSUME NEW f \in Shown, NEW i \in Nat, NEW k \in Wire!ItemKinds, NEW p \in Wire!Phases
    PROVE  LET g == Put(f, i, [kind |-> k, phase |-> p])
           IN  /\ g \in Shown
               /\ DOMAIN g = DOMAIN f \cup {i}
               /\ g[i] = [kind |-> k, phase |-> p]
               /\ \A j \in DOMAIN f : j # i => g[j] = f[j]
<1> DEFINE S == [kind : Wire!ItemKinds, phase : Wire!Phases]
           x == [kind |-> k, phase |-> p]
<1>1. PICK D \in SUBSET Nat : f \in [D -> S]
  BY DEF Shown
<1>2. x \in S /\ D \cup {i} \in SUBSET Nat
  OBVIOUS
<1> HIDE DEF S, x
<1>3. /\ Put(f, i, x) \in [D \cup {i} -> S]
      /\ DOMAIN Put(f, i, x) = DOMAIN f \cup {i}
      /\ Put(f, i, x)[i] = x
      /\ \A j \in DOMAIN f : j # i => Put(f, i, x)[j] = f[j]
  BY <1>1, <1>2 DEF Put
<1>4. Put(f, i, x) \in Shown
  BY <1>2, <1>3 DEF Shown, S
<1>5. QED
  BY <1>3, <1>4 DEF x

\* What Put makes of the deltas a client holds.
LEMMA StreamsPut ==
    ASSUME NEW f \in Streams, NEW i \in Nat, NEW txt \in Texts
    PROVE  LET g == Put(f, i, Get(f, i) \o txt)
           IN  /\ g \in Streams
               /\ DOMAIN g = DOMAIN f \cup {i}
               /\ g[i] = Get(f, i) \o txt
               /\ \A j \in DOMAIN f : j # i => g[j] = f[j]
<1>1. PICK D \in SUBSET Nat : f \in [D -> Texts]
  BY DEF Streams
<1> DEFINE x == Get(f, i) \o txt
<1>2. x \in Texts /\ D \cup {i} \in SUBSET Nat
  BY <1>1, TextFacts DEF Get
<1> HIDE DEF x
<1>3. /\ Put(f, i, x) \in [D \cup {i} -> Texts]
      /\ DOMAIN Put(f, i, x) = DOMAIN f \cup {i}
      /\ Put(f, i, x)[i] = x
      /\ \A j \in DOMAIN f : j # i => Put(f, i, x)[j] = f[j]
  BY <1>1, <1>2 DEF Put
<1>4. Put(f, i, x) \in Streams
  BY <1>2, <1>3 DEF Streams
<1>5. QED
  BY <1>3, <1>4 DEF x

\* The view in which item e is in the phase that e announces.
Moved(v, e) ==
    [v EXCEPT !.item = Put(v.item, e.index, [kind |-> WireKind(e.kind),
                                             phase |-> PhaseAfter[e.type]])]

\* A legal event that announces or moves an item, and closes no content.
LEMMA MoveStep ==
    ASSUME NEW v \in Views, NEW e \in Event, v.terminal = "none",
           e.type \in DOMAIN PhaseAfter,
           LegalOpening(e, v) \/ LegalMove(e, v),
           e.type = "ItemDone" => e.kind \notin {"message", "reasoning"}
    PROVE  /\ Moved(v, e) \in Views /\ Leads(e, v, Moved(v, e))
           /\ Path(v, <<e>>, Moved(v, e))
<1>1. e.index \in Nat /\ WireKind(e.kind) \in Wire!ItemKinds /\ PhaseAfter[e.type] \in Wire!Phases
  BY PhaseAfterFacts, WireKindFacts DEF Event
<1>2. v.item \in Shown
  BY DEF Views
<1>3. Put(v.item, e.index, [kind |-> WireKind(e.kind), phase |-> PhaseAfter[e.type]]) \in Shown
  BY <1>1, <1>2, ShownPut
<1>4. Moved(v, e) \in Views
  BY <1>3 DEF Moved, Views
<1>5. After(e, v) = Moved(v, e)
  BY PhaseAfterFacts DEF After, Moved, Views, Wire!Terminals
<1>6. QED
  BY <1>4, <1>5, PathOne DEF Leads, Legal

\* The view after an item of content is done.
Closed(v, e) ==
    [v EXCEPT !.item = Put(v.item, e.index, [kind |-> "content", phase |-> "done"]),
              !.lastDone = [@ EXCEPT ![e.kind] = [text |-> e.text, env |-> e.env]]]

\* The legal event that closes a content item.
LEMMA CloseStep ==
    ASSUME NEW v \in Views, NEW e \in Event, v.terminal = "none",
           e.type = "ItemDone", e.kind \in {"message", "reasoning"},
           Finds(e, v, {"content"}, {"part_done"})
    PROVE  Closed(v, e) \in Views /\ Path(v, <<e>>, Closed(v, e))
<1>1. e.index \in Nat /\ [text |-> e.text, env |-> e.env] \in Whole
      /\ "done" \in Wire!Phases /\ "content" \in Wire!ItemKinds
  BY DEF Event, Whole, Wire!Phases, Wire!ItemKinds
<1>2. v.item \in Shown /\ v.lastDone \in [message : Whole, reasoning : Whole]
  BY DEF Views
<1>3. Put(v.item, e.index, [kind |-> "content", phase |-> "done"]) \in Shown
  BY <1>1, <1>2, ShownPut
<1>4. [v.lastDone EXCEPT ![e.kind] = [text |-> e.text, env |-> e.env]]
         \in [message : Whole, reasoning : Whole]
  BY <1>1, <1>2
<1>5. Closed(v, e) \in Views
  BY <1>3, <1>4 DEF Closed, Views
<1>6. WireKind(e.kind) = "content" /\ PhaseAfter[e.type] = "done" /\ e.type \in DOMAIN PhaseAfter
  BY PhaseAfterFacts, WireKindFacts
<1> DEFINE its  == Put(v.item, e.index, [kind |-> "content", phase |-> "done"])
           last == [v.lastDone EXCEPT ![e.kind] = [text |-> e.text, env |-> e.env]]
<1>7. /\ Closed(v, e) = [v EXCEPT !.item = its, !.lastDone = last]
  BY DEF Closed
<1>8. /\ After(e, v).envelope = v.envelope /\ After(e, v).item = its
      /\ After(e, v).terminal = v.terminal /\ After(e, v).streamed = v.streamed
      /\ After(e, v).lastDone = last
  BY <1>6 DEF After, Wire!Terminals
<1>9. After(e, v) = [envelope |-> After(e, v).envelope, item |-> After(e, v).item,
                     terminal |-> After(e, v).terminal, streamed |-> After(e, v).streamed,
                     lastDone |-> After(e, v).lastDone]
  BY DEF After
<1> HIDE DEF its, last
<1>10. After(e, v) = Closed(v, e)
  BY <1>7, <1>8, <1>9 DEF Views
<1>11. QED
  BY <1>5, <1>10, PathOne DEF Leads, Legal, LegalMove

\* The view after a delta.
Grown(v, e) == [v EXCEPT !.streamed = Put(v.streamed, e.index, Get(v.streamed, e.index) \o e.text)]

\* A legal delta.
LEMMA DeltaStep ==
    ASSUME NEW v \in Views, NEW e \in Event, v.terminal = "none", LegalDelta(e, v)
    PROVE  /\ e.kind # "summary" => Grown(v, e) \in Views /\ Path(v, <<e>>, Grown(v, e))
           /\ e.kind = "summary" => Path(v, <<e>>, v)
<1>1. e.index \in Nat /\ e.text \in Texts /\ v.streamed \in Streams /\ e.type = "Delta"
  BY DEF Event, LegalDelta, Views
<1>2. Grown(v, e) \in Views
  BY <1>1, StreamsPut DEF Grown, Views
<1>3. After(e, v) = IF e.kind = "summary" THEN v ELSE Grown(v, e)
  BY <1>1, PhaseAfterFacts DEF After, Grown, Views, Wire!Terminals
<1>4. QED
  BY <1>2, <1>3, PathOne DEF Leads, Legal

\* A legal terminal event.
LEMMA EndStep ==
    ASSUME NEW v \in Views, NEW e \in Event, v.terminal = "none", LegalEnd(e, v)
    PROVE  LET w == [v EXCEPT !.terminal = e.type]
           IN  w \in Views /\ Path(v, <<e>>, w)
<1> DEFINE w == [v EXCEPT !.terminal = e.type]
<1>1. e.type \in Wire!Terminals
  BY DEF LegalEnd, Wire!Terminals
<1>2. w \in Views
  BY <1>1 DEF Views
<1>3. After(e, v) = w
  BY <1>1, PhaseAfterFacts DEF After, Views, Wire!Terminals
<1>4. QED
  BY <1>2, <1>3, PathOne DEF Leads, Legal
-----------------------------------------------------------------------------
(* What each helper's events carry *)

Starting(m) == IF m.started THEN <<>>
               ELSE <<Plain("Created", "none", 0), Plain("InProgress", "none", 0)>>

\* The types and kinds the helpers emit are those of Event.
LEMMA EventNames ==
    /\ {"Created", "InProgress", "Delta", "Added", "PartAdded", "TextDone", "PartDone",
        "ArgsDone", "ItemDone", "completed", "incomplete", "failed"} \subseteq EventTypes
    /\ {"none", "message", "reasoning", "summary"} \cup AllToolKinds \subseteq EventKinds
    /\ ToolKinds \subseteq EventKinds
BY PhaseAfterFacts, ToolKindsAssumption DEF EventTypes, EventKinds, Wire!Terminals

\* ensure_started: the envelope, once.
LEMMA StartedCarries ==
    ASSUME NEW m, Fits(m), m.verdict = "none"
    PROVE  Carries(m, Starting(m), [m EXCEPT !.started = TRUE])
<1> DEFINE n == [m EXCEPT !.started = TRUE]
           e == Plain("Created", "none", 0)
           f == Plain("InProgress", "none", 0)
<1>1. m \in Moments /\ IndicesFit(m)
  BY DEF Fits
<1>2. CASE m.started
  <2>1. n = m /\ Starting(m) = <<>>
    BY <1>1, <1>2 DEF Moments, Starting
  <2>2. QED
    BY <2>1, CarriesNothing
<1>3. CASE ~ m.started
  <2>1. n \in Moments /\ IndicesFit(n)
    BY <1>1 DEF Moments, IndicesFit
  <2>2. e \in Event /\ f \in Event
    BY PlainType, EventNames
  <2>3. e.type = "Created" /\ f.type = "InProgress"
    BY DEF Plain, Ev
  <2>4. Starting(m) = <<e>> \o <<f>>
    BY <1>3 DEF Starting
  <2> HIDE DEF e, f
  <2>5. ASSUME NEW v \in Views, Promised(m, v)
        PROVE  \E w \in Views : Path(v, <<e>> \o <<f>>, w) /\ Promised(n, w)
    <3> DEFINE u == [v EXCEPT !.envelope = "created"]
               w == [v EXCEPT !.envelope = "in_progress"]
    <3>1. v.terminal = "none" /\ v.envelope = "none"
      BY <1>3, <2>5 DEF Promised
    <3>2. u \in Views /\ w \in Views /\ u.terminal = "none" /\ u.envelope = "created"
          /\ w = [u EXCEPT !.envelope = "in_progress"]
      BY <3>1 DEF Views
    <3>3. After(e, v) = u
      BY <2>3, PhaseAfterFacts DEF After, Views, Wire!Terminals
    <3>4. After(f, u) = w
      BY <2>3, <3>2, PhaseAfterFacts DEF After, Views, Wire!Terminals
    <3>5. Path(v, <<e>>, u)
      BY <2>2, <2>3, <3>1, <3>2, <3>3, PathOne DEF Leads, Legal, LegalOpening
    <3>6. Path(u, <<f>>, w)
      BY <2>2, <2>3, <3>1, <3>2, <3>4, PathOne DEF Leads, Legal, LegalOpening
    <3>7. /\ n.started /\ n.verdict = m.verdict /\ n.next = m.next
          /\ n.message = m.message /\ n.reasoning = m.reasoning /\ n.tools = m.tools
          /\ n.sent = m.sent /\ n.sealed = m.sealed
      BY <1>1 DEF Moments
    <3>8. /\ w.envelope = "in_progress" /\ w.terminal = v.terminal /\ w.item = v.item
          /\ w.streamed = v.streamed /\ w.lastDone = v.lastDone
      BY DEF Views
    <3>9. Promised(n, w)
      BY SMTT(40), <2>5, <3>7, <3>8 DEF Promised, ItemsPromised, ToolAt, StreamedPromised, WholePromised
    <3>10. QED
      BY <3>2, <3>5, <3>6, <3>9, PathConcat
  <2>6. QED
    BY <2>1, <2>4, <2>5 DEF Carries, Fits
<1>4. QED
  BY <1>2, <1>3

\* Between v and w only item i changed: it became x.
ItemBecomes(v, w, i, x) ==
    /\ w.envelope = v.envelope /\ w.terminal = v.terminal /\ w.streamed = v.streamed
    /\ DOMAIN w.item = DOMAIN v.item \cup {i}
    /\ w.item[i] = x
    /\ \A j \in DOMAIN v.item : j # i => w.item[j] = v.item[j]

\* Two vectors of one event.
LEMMA PairConcat ==
    ASSUME NEW e \in Event, NEW f \in Event
    PROVE  <<e>> \o <<f>> = <<e, f>>
<1>1. <<e>> \in Seq(Event) /\ <<f>> \in Seq(Event) /\ <<e, f>> \in Seq(Event)
  OBVIOUS
<1>2. /\ <<e>> \o <<f>> \in Seq(Event) /\ Len(<<e>> \o <<f>>) = Len(<<e>>) + Len(<<f>>)
      /\ \A i \in 1 .. Len(<<e>>) + Len(<<f>>) :
            (<<e>> \o <<f>>)[i] = IF i <= Len(<<e>>) THEN <<e>>[i]
                                  ELSE <<f>>[i - Len(<<e>>)]
  BY <1>1, ConcatProperties
<1>3. Len(<<e, f>>) = Len(<<e>> \o <<f>>) /\ Len(<<e, f>>) = 2
  BY <1>2
<1> DEFINE c == <<e>> \o <<f>>
<1>4. Len(<<e>>) = 1 /\ Len(<<f>>) = 1 /\ <<e>>[1] = e /\ <<f>>[1] = f
  OBVIOUS
<1> HIDE DEF c
<1>5. c \in Seq(Event) /\ Len(c) = 2 /\ c[1] = e /\ c[2] = f
  BY <1>2, <1>4 DEF c
<1>6. \A i \in 1 .. 2 : <<e, f>>[i] = c[i]
  BY <1>5
<1>7. c = <<e, f>>
  BY <1>1, <1>3, <1>5, <1>6, SeqEqual
<1>8. QED
  BY <1>7 DEF c

\* Two changes of one item are one change.
LEMMA ItemBecomesAgain ==
    ASSUME NEW u, NEW v, NEW w, NEW i, NEW x, NEW y,
           ItemBecomes(u, v, i, x), ItemBecomes(v, w, i, y)
    PROVE  ItemBecomes(u, w, i, y)
BY DEF ItemBecomes

\* Moved changes one item.
LEMMA MovedItem ==
    ASSUME NEW v \in Views, NEW e \in Event, e.type \in DOMAIN PhaseAfter
    PROVE  /\ ItemBecomes(v, Moved(v, e), e.index,
                          [kind |-> WireKind(e.kind), phase |-> PhaseAfter[e.type]])
           /\ Moved(v, e).lastDone = v.lastDone
<1>1. e.index \in Nat /\ WireKind(e.kind) \in Wire!ItemKinds /\ PhaseAfter[e.type] \in Wire!Phases
      /\ v.item \in Shown
  BY PhaseAfterFacts, WireKindFacts DEF Event, Views
<1> DEFINE its == Put(v.item, e.index, [kind |-> WireKind(e.kind), phase |-> PhaseAfter[e.type]])
<1>2. /\ DOMAIN its = DOMAIN v.item \cup {e.index}
      /\ its[e.index] = [kind |-> WireKind(e.kind), phase |-> PhaseAfter[e.type]]
      /\ \A j \in DOMAIN v.item : j # e.index => its[j] = v.item[j]
  BY DEF Put
<1>3. Moved(v, e) = [v EXCEPT !.item = its]
  BY DEF Moved
<1> HIDE DEF its
<1>4. /\ Moved(v, e).item = its /\ Moved(v, e).envelope = v.envelope
      /\ Moved(v, e).terminal = v.terminal /\ Moved(v, e).streamed = v.streamed
      /\ Moved(v, e).lastDone = v.lastDone
  BY <1>3 DEF Views
<1>5. QED
  BY <1>2, <1>4 DEF ItemBecomes

\* Closed changes one item, and what the client has of it.
LEMMA ClosedItem ==
    ASSUME NEW v \in Views, NEW e \in Event, e.kind \in {"message", "reasoning"}
    PROVE  /\ ItemBecomes(v, Closed(v, e), e.index, DoneItem)
           /\ Closed(v, e).lastDone =
                 [v.lastDone EXCEPT ![e.kind] = [text |-> e.text, env |-> e.env]]
<1>1. e.index \in Nat /\ "content" \in Wire!ItemKinds /\ "done" \in Wire!Phases
      /\ v.item \in Shown
  BY DEF Event, Views, Wire!ItemKinds, Wire!Phases
<1> DEFINE its == Put(v.item, e.index, [kind |-> "content", phase |-> "done"])
<1>2. /\ DOMAIN its = DOMAIN v.item \cup {e.index}
      /\ its[e.index] = DoneItem
      /\ \A j \in DOMAIN v.item : j # e.index => its[j] = v.item[j]
  BY DEF Put, DoneItem
<1> DEFINE last == [v.lastDone EXCEPT ![e.kind] = [text |-> e.text, env |-> e.env]]
<1>3. Closed(v, e) = [v EXCEPT !.item = its, !.lastDone = last]
  BY DEF Closed
<1> HIDE DEF its, last
<1>4. /\ Closed(v, e).item = its /\ Closed(v, e).envelope = v.envelope
      /\ Closed(v, e).terminal = v.terminal /\ Closed(v, e).streamed = v.streamed
      /\ Closed(v, e).lastDone = last
  BY <1>3 DEF Views
<1>5. QED
  BY <1>2, <1>4 DEF ItemBecomes, last

Ending(k, i, txt, env) == <<Plain("PartDone", k, i), Ev("ItemDone", k, i, txt, env)>>

With(last, k, txt, env) == [last EXCEPT ![k] = [text |-> txt, env |-> env]]

\* A part of a content item ends, and the item with it.
LEMMA ContentCloses ==
    ASSUME NEW v \in Views, NEW k \in {"message", "reasoning"}, NEW i \in Nat,
           NEW txt \in Texts, NEW env \in SUBSET Blocks,
           v.terminal = "none", v.envelope = "in_progress",
           i \in DOMAIN v.item, v.item[i].kind = "content",
           v.item[i].phase \in {"part", "text_done"}
    PROVE  \E w \in Views :
              /\ Path(v, Ending(k, i, txt, env), w)
              /\ ItemBecomes(v, w, i, DoneItem)
              /\ w.lastDone = With(v.lastDone, k, txt, env)
<1> DEFINE e == Plain("PartDone", k, i)
           f == Ev("ItemDone", k, i, txt, env)
           u == Moved(v, e)
           w == Closed(u, f)
<1>1. e \in Event /\ f \in Event
  BY EvType, PlainType, EventNames
<1>2. /\ e.type = "PartDone" /\ e.kind = k /\ e.index = i
      /\ f.type = "ItemDone" /\ f.kind = k /\ f.index = i /\ f.text = txt /\ f.env = env
  BY DEF Plain, Ev
<1> HIDE DEF e, f
<1>3. WireKind(k) = "content" /\ PhaseAfter["PartDone"] = "part_done"
      /\ "PartDone" \in DOMAIN PhaseAfter
  BY WireKindFacts, PhaseAfterFacts
<1>4. LegalMove(e, v)
  BY <1>2, <1>3 DEF LegalMove, Finds
<1>5. u \in Views /\ Path(v, <<e>>, u)
  BY <1>1, <1>2, <1>3, <1>4, MoveStep
<1>6. ItemBecomes(v, u, i, [kind |-> "content", phase |-> "part_done"]) /\ u.lastDone = v.lastDone
  BY <1>1, <1>2, <1>3, MovedItem
<1> HIDE DEF u
<1>7. Finds(f, u, {"content"}, {"part_done"}) /\ u.terminal = "none"
  BY <1>2, <1>3, <1>6 DEF Finds, ItemBecomes
<1>8. w \in Views /\ Path(u, <<f>>, w)
  BY <1>1, <1>2, <1>5, <1>7, CloseStep
<1>9. ItemBecomes(u, w, i, DoneItem)
      /\ w.lastDone = With(v.lastDone, k, txt, env)
  BY ZenonT(30), <1>1, <1>2, <1>5, <1>6, ClosedItem DEF With
<1> HIDE DEF w
<1>10. ItemBecomes(v, w, i, DoneItem)
  BY <1>6, <1>9, ItemBecomesAgain
<1>11. <<e>> \o <<f>> = <<e, f>>
  BY <1>1, PairConcat
<1>12. Path(v, <<e, f>>, w)
  BY <1>5, <1>8, <1>11, PathConcat
<1>13. QED
  BY <1>8, <1>9, <1>10, <1>12 DEF e, f, Ending

\* The text of a part is repeated, once or for each family of events.
LEMMA TextIsDone ==
    ASSUME NEW v \in Views, NEW k \in {"message", "reasoning", "summary"}, NEW i \in Nat,
           NEW txt \in Texts,
           v.terminal = "none", v.envelope = "in_progress",
           i \in DOMAIN v.item, v.item[i].kind = "content",
           v.item[i].phase \in {"part", "text_done"}
    PROVE  \E w \in Views :
              /\ Path(v, <<Ev("TextDone", k, i, txt, {})>>, w)
              /\ ItemBecomes(v, w, i, [kind |-> "content", phase |-> "text_done"])
              /\ w.lastDone = v.lastDone
<1> DEFINE e == Ev("TextDone", k, i, txt, {})
           w == Moved(v, e)
<1>1. e \in Event
  BY EvType, EventNames
<1>2. e.type = "TextDone" /\ e.kind = k /\ e.index = i
  BY DEF Ev
<1> HIDE DEF e
<1>3. WireKind(k) = "content" /\ PhaseAfter["TextDone"] = "text_done"
      /\ "TextDone" \in DOMAIN PhaseAfter
  BY WireKindFacts, PhaseAfterFacts
<1>4. LegalMove(e, v)
  BY <1>2, <1>3 DEF LegalMove, Finds
<1>5. w \in Views /\ Path(v, <<e>>, w)
  BY <1>1, <1>2, <1>3, <1>4, MoveStep
<1>6. ItemBecomes(v, w, i, [kind |-> "content", phase |-> "text_done"]) /\ w.lastDone = v.lastDone
  BY <1>1, <1>2, <1>3, MovedItem
<1>7. QED
  BY <1>5, <1>6 DEF e

\* An item of content opens, with its part.
LEMMA ContentOpens ==
    ASSUME NEW v \in Views, NEW k \in {"message", "reasoning"}, NEW i \in Nat,
           v.terminal = "none", v.envelope = "in_progress", i \notin DOMAIN v.item
    PROVE  \E w \in Views :
              /\ Path(v, <<Plain("Added", k, i), Plain("PartAdded", k, i)>>, w)
              /\ ItemBecomes(v, w, i, OpenItem)
              /\ w.lastDone = v.lastDone
<1> DEFINE e == Plain("Added", k, i)
           f == Plain("PartAdded", k, i)
           u == Moved(v, e)
           w == Moved(u, f)
<1>1. e \in Event /\ f \in Event
  BY PlainType, EventNames
<1>2. /\ e.type = "Added" /\ e.kind = k /\ e.index = i
      /\ f.type = "PartAdded" /\ f.kind = k /\ f.index = i
  BY DEF Plain, Ev
<1> HIDE DEF e, f
<1>3. WireKind(k) = "content" /\ PhaseAfter["Added"] = "added" /\ PhaseAfter["PartAdded"] = "part"
      /\ {"Added", "PartAdded"} \subseteq DOMAIN PhaseAfter
  BY WireKindFacts, PhaseAfterFacts
<1>4. LegalOpening(e, v)
  BY <1>2 DEF LegalOpening
<1>5. u \in Views /\ Path(v, <<e>>, u)
  BY <1>1, <1>2, <1>3, <1>4, MoveStep
<1>6. ItemBecomes(v, u, i, [kind |-> "content", phase |-> "added"]) /\ u.lastDone = v.lastDone
  BY <1>1, <1>2, <1>3, MovedItem
<1> HIDE DEF u
<1>7. LegalMove(f, u) /\ u.terminal = "none"
  BY <1>2, <1>3, <1>6 DEF LegalMove, Finds, ItemBecomes
<1>8. w \in Views /\ Path(u, <<f>>, w)
  BY <1>1, <1>2, <1>3, <1>5, <1>7, MoveStep
<1>9. ItemBecomes(u, w, i, OpenItem) /\ w.lastDone = v.lastDone
  BY <1>1, <1>2, <1>3, <1>5, <1>6, MovedItem DEF OpenItem
<1> HIDE DEF w
<1>10. ItemBecomes(v, w, i, OpenItem)
  BY <1>6, <1>9, ItemBecomesAgain
<1>11. <<e>> \o <<f>> = <<e, f>>
  BY <1>1, PairConcat
<1>12. Path(v, <<e, f>>, w)
  BY <1>5, <1>8, <1>11, PathConcat
<1>13. QED
  BY <1>8, <1>9, <1>10, <1>12 DEF e, f
-----------------------------------------------------------------------------
MessageClosed(m) == [m EXCEPT !.message = [@ EXCEPT !.open = FALSE]]
ReasoningClosed(m) == [m EXCEPT !.reasoning = [@ EXCEPT !.open = FALSE]]

ClosingMessage(m) ==
    IF ~ m.message.open THEN <<>>
    ELSE <<Ev("TextDone", "message", m.message.index, m.message.text, {}),
           Plain("PartDone", "message", m.message.index),
           Ev("ItemDone", "message", m.message.index, m.message.text, {})>>

ClosingTexts(m) ==
    IF m.reasoning.text = <<>> THEN <<>>
    ELSE <<Ev("TextDone", "reasoning", m.reasoning.index, m.reasoning.text, {}),
           Ev("TextDone", "summary", m.reasoning.index, m.reasoning.text, {})>>

ClosingReasoning(m) ==
    IF ~ m.reasoning.open THEN <<>>
    ELSE ClosingTexts(m) \o
         <<Plain("PartDone", "reasoning", m.reasoning.index),
           Ev("ItemDone", "reasoning", m.reasoning.index, m.reasoning.text, m.sealed)>>

\* What m says of the fields that the events of one helper leave alone.
LEMMA MomentFields ==
    ASSUME NEW m \in Moments
    PROVE  /\ m.started \in BOOLEAN /\ m.next \in Nat
           /\ m.message.open \in BOOLEAN /\ m.message.index \in Nat /\ m.message.text \in Texts
           /\ m.reasoning.open \in BOOLEAN /\ m.reasoning.index \in Nat
           /\ m.reasoning.text \in Texts
           /\ m.tools \in Seq(Tool) /\ m.sent \in SUBSET Fragments /\ m.sealed \in SUBSET Blocks
           /\ m.message \in Item /\ m.reasoning \in Item
BY DEF Moments, Item

\* No index was given out before the envelope.
LEMMA OpenMeansStarted ==
    ASSUME NEW m, Fits(m)
    PROVE  /\ m.message.open => m.started
           /\ m.reasoning.open => m.started
           /\ m.tools # <<>> => m.started
<1>1. m \in Moments /\ IndicesFit(m)
  BY DEF Fits
<1>2. ASSUME m.tools # <<>> PROVE 1 \in DOMAIN m.tools /\ m.tools[1].index \in Nat
  <2>1. m.tools \in Seq(Tool)
    BY <1>1, MomentFields
  <2>2. Len(m.tools) # 0 /\ Len(m.tools) \in Nat
    BY <1>2, <2>1, EmptySeq
  <2>3. 1 \in DOMAIN m.tools /\ m.tools[1] \in Tool
    BY <2>1, <2>2
  <2>4. QED
    BY <2>3 DEF Tool
<1>3. QED
  BY <1>1, <1>2, MomentFields DEF IndicesFit

\* Closing leaves an item its index and its text.
LEMMA ItemClosed ==
    ASSUME NEW it \in Item
    PROVE  LET c == [it EXCEPT !.open = FALSE]
           IN  /\ c \in Item
               /\ c = [open |-> FALSE, index |-> it.index, text |-> it.text]
               /\ ~ it.open => c = it
<1> DEFINE c == [it EXCEPT !.open = FALSE]
<1>1. c \in Item /\ c.open = FALSE /\ c.index = it.index /\ c.text = it.text
  BY DEF Item
<1> HIDE DEF c
<1>2. c = [open |-> c.open, index |-> c.index, text |-> c.text]
      /\ it = [open |-> it.open, index |-> it.index, text |-> it.text] /\ it.open \in BOOLEAN
  BY <1>1 DEF Item
<1>3. c = [open |-> FALSE, index |-> it.index, text |-> it.text]
  BY <1>1, <1>2
<1>4. ~ it.open => c = it
  BY <1>1, <1>2
<1>5. QED
  BY <1>1, <1>3, <1>4 DEF c

\* MessageClosed changes one field.
LEMMA MessageClosedFields ==
    ASSUME NEW m \in Moments
    PROVE  LET n == MessageClosed(m)
           IN  /\ n \in Moments
               /\ n.message = [open |-> FALSE, index |-> m.message.index, text |-> m.message.text]
               /\ n.started = m.started /\ n.next = m.next /\ n.reasoning = m.reasoning
               /\ n.tools = m.tools /\ n.sent = m.sent /\ n.sealed = m.sealed
               /\ n.verdict = m.verdict
<1>1. m.message \in Item
  BY DEF Moments
<1>2. [m.message EXCEPT !.open = FALSE]
         = [open |-> FALSE, index |-> m.message.index, text |-> m.message.text]
      /\ [m.message EXCEPT !.open = FALSE] \in Item
  BY <1>1, ItemClosed
<1>3. QED
  BY <1>2 DEF MessageClosed, Moments

\* ReasoningClosed changes one field.
LEMMA ReasoningClosedFields ==
    ASSUME NEW m \in Moments
    PROVE  LET n == ReasoningClosed(m)
           IN  /\ n \in Moments
               /\ n.reasoning = [open |-> FALSE, index |-> m.reasoning.index,
                                 text |-> m.reasoning.text]
               /\ n.started = m.started /\ n.next = m.next /\ n.message = m.message
               /\ n.tools = m.tools /\ n.sent = m.sent /\ n.sealed = m.sealed
               /\ n.verdict = m.verdict
<1>1. m.reasoning \in Item
  BY DEF Moments
<1>2. [m.reasoning EXCEPT !.open = FALSE]
         = [open |-> FALSE, index |-> m.reasoning.index, text |-> m.reasoning.text]
      /\ [m.reasoning EXCEPT !.open = FALSE] \in Item
  BY <1>1, ItemClosed
<1>3. QED
  BY <1>2 DEF ReasoningClosed, Moments

\* close_message_item.
LEMMA ClosingMessageCarries ==
    ASSUME NEW m, Fits(m), m.verdict = "none"
    PROVE  Carries(m, ClosingMessage(m), MessageClosed(m))
<1> DEFINE n == MessageClosed(m)
           i == m.message.index
           txt == m.message.text
<1>1. m \in Moments /\ IndicesFit(m)
  BY DEF Fits
<1>2. /\ n \in Moments
      /\ n.message = [open |-> FALSE, index |-> i, text |-> txt]
      /\ n.started = m.started /\ n.next = m.next /\ n.reasoning = m.reasoning
      /\ n.tools = m.tools /\ n.sent = m.sent /\ n.sealed = m.sealed
      /\ n.verdict = m.verdict
  BY <1>1, MessageClosedFields
<1>3. n.message.open = FALSE /\ n.message.text = txt
  BY <1>2
<1> HIDE DEF n
<1>4. Fits(n)
  BY <1>1, <1>2, <1>3 DEF Fits, IndicesFit, OpenAt
<1>5. CASE ~ m.message.open
  <2>1. ClosingMessage(m) = <<>>
    BY <1>5 DEF ClosingMessage
  <2>2. [m.message EXCEPT !.open = FALSE] = m.message
    BY <1>1, <1>5, MomentFields, ItemClosed
  <2>3. n = m
    BY <1>1, <2>2 DEF n, MessageClosed, Moments
  <2>4. QED
    BY <2>1, <2>3, CarriesNothing DEF n
<1>6. CASE m.message.open
  <2>1. i \in Nat /\ txt \in Texts /\ m.started
    BY <1>1, <1>6, MomentFields, OpenMeansStarted
  <2>2. ASSUME NEW v \in Views, Promised(m, v)
        PROVE  \E w \in Views : Path(v, ClosingMessage(m), w) /\ Promised(n, w)
    <3> DEFINE s == <<Ev("TextDone", "message", i, txt, {})>>
               t == Ending("message", i, txt, {})
    <3>1. ClosingMessage(m) = s \o t
      BY <1>6 DEF ClosingMessage, Ending
    <3>2. /\ v.terminal = "none" /\ v.envelope = "in_progress" /\ i \in DOMAIN v.item
          /\ v.item[i] = OpenItem
      BY <1>6, <2>1, <2>2 DEF Promised, ItemsPromised
    <3>3. PICK u \in Views :
             /\ Path(v, s, u)
             /\ ItemBecomes(v, u, i, [kind |-> "content", phase |-> "text_done"])
             /\ u.lastDone = v.lastDone
      BY <2>1, <3>2, TextIsDone DEF OpenItem
    <3>4. /\ u.terminal = "none" /\ u.envelope = "in_progress" /\ i \in DOMAIN u.item
          /\ u.item[i].kind = "content" /\ u.item[i].phase = "text_done"
      BY <3>2, <3>3 DEF ItemBecomes
    <3>5. {} \in SUBSET Blocks
      OBVIOUS
    <3>6. PICK w \in Views :
             /\ Path(u, t, w)
             /\ ItemBecomes(u, w, i, DoneItem)
             /\ w.lastDone = With(u.lastDone, "message", txt, {})
      BY <2>1, <3>4, <3>5, ContentCloses
    <3> HIDE DEF s, t
    <3>7. Path(v, s \o t, w)
      BY <3>3, <3>6, PathConcat
    <3>8. ItemBecomes(v, w, i, DoneItem)
      BY <3>3, <3>6, ItemBecomesAgain
    <3>9. ItemsPromised(n, w.item)
      BY <1>1, <1>2, <1>3, <1>6, <2>2, <3>2, <3>8
         DEF Promised, ItemsPromised, IndicesFit, ItemBecomes, OpenAt, ToolAt
    <3>10. w.lastDone.message.text = txt /\ w.lastDone.reasoning = v.lastDone.reasoning
      BY <3>3, <3>6 DEF Views, With
    <3>11. WholePromised(n, w.lastDone)
      BY <1>2, <1>3, <2>2, <3>10 DEF Promised, WholePromised
    <3>12. Promised(n, w)
      BY <1>2, <2>2, <3>8, <3>9, <3>11 DEF Promised, StreamedPromised, ItemBecomes
    <3>13. QED
      BY <3>1, <3>7, <3>12
  <2>3. QED
    BY <1>4, <2>2 DEF Carries, n
<1>7. QED
  BY <1>5, <1>6

\* close_reasoning_item.
LEMMA ClosingReasoningCarries ==
    ASSUME NEW m, Fits(m), m.verdict = "none"
    PROVE  Carries(m, ClosingReasoning(m), ReasoningClosed(m))
<1> DEFINE n == ReasoningClosed(m)
           i == m.reasoning.index
           txt == m.reasoning.text
<1>1. m \in Moments /\ IndicesFit(m)
  BY DEF Fits
<1>2. /\ n \in Moments
      /\ n.reasoning = [open |-> FALSE, index |-> i, text |-> txt]
      /\ n.started = m.started /\ n.next = m.next /\ n.message = m.message
      /\ n.tools = m.tools /\ n.sent = m.sent /\ n.sealed = m.sealed
      /\ n.verdict = m.verdict
  BY <1>1, ReasoningClosedFields
<1>3. n.reasoning.open = FALSE /\ n.reasoning.text = txt
  BY <1>2
<1> HIDE DEF n
<1>4. Fits(n)
  BY <1>1, <1>2, <1>3 DEF Fits, IndicesFit, OpenAt
<1>5. CASE ~ m.reasoning.open
  <2>1. ClosingReasoning(m) = <<>>
    BY <1>5 DEF ClosingReasoning
  <2>2. [m.reasoning EXCEPT !.open = FALSE] = m.reasoning
    BY <1>1, <1>5, MomentFields, ItemClosed
  <2>3. n = m
    BY <1>1, <2>2 DEF n, ReasoningClosed, Moments
  <2>4. QED
    BY <2>1, <2>3, CarriesNothing DEF n
<1>6. CASE m.reasoning.open
  <2>1. i \in Nat /\ txt \in Texts /\ m.started /\ m.sealed \in SUBSET Blocks
    BY <1>1, <1>6, MomentFields, OpenMeansStarted
  <2>2. ASSUME NEW v \in Views, Promised(m, v)
        PROVE  \E w \in Views : Path(v, ClosingReasoning(m), w) /\ Promised(n, w)
    <3> DEFINE s == ClosingTexts(m)
               t == Ending("reasoning", i, txt, m.sealed)
    <3>1. ClosingReasoning(m) = s \o t
      BY <1>6 DEF ClosingReasoning, Ending
    <3>2. /\ v.terminal = "none" /\ v.envelope = "in_progress" /\ i \in DOMAIN v.item
          /\ v.item[i] = OpenItem
      BY <1>6, <2>1, <2>2 DEF Promised, ItemsPromised
    <3>3. \E u \in Views :
             /\ Path(v, s, u)
             /\ \E p \in {"part", "text_done"} :
                   ItemBecomes(v, u, i, [kind |-> "content", phase |-> p])
             /\ u.lastDone = v.lastDone
      <4>1. CASE txt = <<>>
        <5>1. s = <<>>
          BY <4>1 DEF ClosingTexts
        <5>2. ItemBecomes(v, v, i, [kind |-> "content", phase |-> "part"])
          BY <3>2 DEF ItemBecomes, OpenItem
        <5>3. QED
          BY <5>1, <5>2, PathEmpty
      <4>2. CASE txt # <<>>
        <5> DEFINE a == <<Ev("TextDone", "reasoning", i, txt, {})>>
                   b == <<Ev("TextDone", "summary", i, txt, {})>>
        <5>1. s = a \o b
          BY <4>2 DEF ClosingTexts
        <5>2. PICK x \in Views :
                 /\ Path(v, a, x)
                 /\ ItemBecomes(v, x, i, [kind |-> "content", phase |-> "text_done"])
                 /\ x.lastDone = v.lastDone
          BY <2>1, <3>2, TextIsDone DEF OpenItem
        <5>3. /\ x.terminal = "none" /\ x.envelope = "in_progress" /\ i \in DOMAIN x.item
              /\ x.item[i].kind = "content" /\ x.item[i].phase = "text_done"
          BY <3>2, <5>2 DEF ItemBecomes
        <5>4. PICK u \in Views :
                 /\ Path(x, b, u)
                 /\ ItemBecomes(x, u, i, [kind |-> "content", phase |-> "text_done"])
                 /\ u.lastDone = x.lastDone
          BY <2>1, <5>3, TextIsDone
        <5> HIDE DEF a, b
        <5>5. Path(v, a \o b, u)
          BY <5>2, <5>4, PathConcat
        <5>6. ItemBecomes(v, u, i, [kind |-> "content", phase |-> "text_done"])
          BY <5>2, <5>4, ItemBecomesAgain
        <5>7. QED
          BY <5>1, <5>2, <5>4, <5>5, <5>6
      <4>3. QED
        BY <4>1, <4>2
    <3> HIDE DEF s
    <3>4. PICK u \in Views :
             /\ Path(v, s, u)
             /\ \E p \in {"part", "text_done"} :
                   ItemBecomes(v, u, i, [kind |-> "content", phase |-> p])
             /\ u.lastDone = v.lastDone
      BY <3>3
    <3>5. PICK p \in {"part", "text_done"} :
             ItemBecomes(v, u, i, [kind |-> "content", phase |-> p])
      BY <3>4
    <3>6. /\ u.terminal = "none" /\ u.envelope = "in_progress" /\ i \in DOMAIN u.item
          /\ u.item[i].kind = "content" /\ u.item[i].phase \in {"part", "text_done"}
      BY <3>2, <3>5 DEF ItemBecomes
    <3>7. PICK w \in Views :
             /\ Path(u, t, w)
             /\ ItemBecomes(u, w, i, DoneItem)
             /\ w.lastDone = With(u.lastDone, "reasoning", txt, m.sealed)
      BY <2>1, <3>6, ContentCloses
    <3> HIDE DEF t
    <3>8. Path(v, s \o t, w)
      BY <3>4, <3>7, PathConcat
    <3>9. ItemBecomes(v, w, i, DoneItem)
      BY <3>5, <3>7, ItemBecomesAgain
    <3>10. ItemsPromised(n, w.item)
      BY <1>1, <1>2, <1>3, <1>6, <2>2, <3>2, <3>9
         DEF Promised, ItemsPromised, IndicesFit, ItemBecomes, OpenAt, ToolAt
    <3>11. w.lastDone.reasoning = [text |-> txt, env |-> m.sealed]
           /\ w.lastDone.message = v.lastDone.message
      BY <3>4, <3>7 DEF Views, With
    <3>12. WholePromised(n, w.lastDone)
      BY <1>2, <1>3, <2>2, <3>11 DEF Promised, WholePromised
    <3>13. Promised(n, w)
      BY SMTT(40), <1>2, <2>2, <3>9, <3>10, <3>12 DEF Promised, StreamedPromised, ItemBecomes
    <3>14. QED
      BY <3>1, <3>8, <3>13
  <2>3. QED
    BY <1>4, <2>2 DEF Carries, n
<1>7. QED
  BY <1>5, <1>6

OpeningItem(it, next, k) ==
    IF it.open THEN <<>> ELSE <<Plain("Added", k, next), Plain("PartAdded", k, next)>>

ItemOpened(it, next) ==
    [open |-> TRUE, index |-> IF it.open THEN it.index ELSE next, text |-> it.text]

MessageOpened(m) ==
    [m EXCEPT !.message = ItemOpened(m.message, m.next),
              !.next = IF m.message.open THEN m.next ELSE m.next + 1]
ReasoningOpened(m) ==
    [m EXCEPT !.reasoning = ItemOpened(m.reasoning, m.next),
              !.next = IF m.reasoning.open THEN m.next ELSE m.next + 1]

\* Opening an item that is open changes nothing.
LEMMA OpenedItem ==
    ASSUME NEW it \in Item, NEW next \in Nat
    PROVE  /\ ItemOpened(it, next) \in Item
           /\ ItemOpened(it, next).open = TRUE /\ ItemOpened(it, next).text = it.text
           /\ ItemOpened(it, next).index = IF it.open THEN it.index ELSE next
           /\ it.open => ItemOpened(it, next) = it
<1>1. it = [open |-> it.open, index |-> it.index, text |-> it.text] /\ it.open \in BOOLEAN
      /\ it.index \in Nat /\ it.text \in Texts
  BY DEF Item
<1>2. QED
  BY <1>1 DEF ItemOpened, Item

\* The type of one accumulator.
LEMMA ToolFields ==
    ASSUME NEW m \in Moments, NEW p \in DOMAIN m.tools
    PROVE  /\ m.tools[p] \in Tool
           /\ m.tools[p].index \in Nat /\ m.tools[p].done \in BOOLEAN
           /\ m.tools[p].kind \in ToolKinds
<1>1. m.tools \in Seq(Tool)
  BY DEF Moments
<1>2. m.tools[p] \in Tool
  BY <1>1
<1>3. QED
  BY <1>2 DEF Tool

\* ensure_message_item.
LEMMA MessageOpenedCarries ==
    ASSUME NEW m, Fits(m), m.verdict = "none", m.started
    PROVE  Carries(m, OpeningItem(m.message, m.next, "message"), MessageOpened(m))
<1> DEFINE n == MessageOpened(m)
           i == m.next
<1>1. m \in Moments /\ IndicesFit(m) /\ i \in Nat /\ m.message \in Item
  BY MomentFields DEF Fits
<1> DEFINE o == ItemOpened(m.message, m.next)
<1>2. /\ o \in Item /\ o.open = TRUE /\ o.text = m.message.text
      /\ o.index = (IF m.message.open THEN m.message.index ELSE i)
      /\ m.message.open => o = m.message
  BY <1>1, OpenedItem
<1>3. n = [m EXCEPT !.message = o, !.next = IF m.message.open THEN m.next ELSE m.next + 1]
  BY DEF MessageOpened
<1> HIDE DEF o
<1>4. CASE m.message.open
  <2>1. n = [m EXCEPT !.message = m.message, !.next = m.next]
    BY <1>4, <1>2, <1>3
  <2>2. n = m
    BY <1>1, <2>1 DEF Moments
  <2>3. QED
    BY <1>4, <2>2, CarriesNothing DEF OpeningItem
<1>5. CASE ~ m.message.open
  <2>1. n = [m EXCEPT !.message = o, !.next = i + 1] /\ i + 1 \in Nat
    BY <1>1, <1>5, <1>3
  <2>2. /\ n \in Moments /\ n.message = o /\ n.next = i + 1
        /\ n.started = m.started /\ n.reasoning = m.reasoning
        /\ n.tools = m.tools /\ n.sent = m.sent /\ n.sealed = m.sealed
        /\ n.verdict = m.verdict
    BY <1>1, <1>2, <2>1 DEF Moments
  <2>3. n.message.open = TRUE /\ n.message.index = i
    BY <1>5, <1>2, <2>2
  <2>4. /\ m.reasoning.open => m.reasoning.index \in Nat /\ m.reasoning.index < i
        /\ \A p \in DOMAIN m.tools : m.tools[p].index \in Nat /\ m.tools[p].index < i
    BY <1>1, MomentFields, ToolFields DEF IndicesFit
  <2> HIDE DEF n
  <2>5. Fits(n)
    BY <1>1, <2>2, <2>3, <2>4 DEF Fits, IndicesFit, OpenAt
  <2>6. ASSUME NEW v \in Views, Promised(m, v)
        PROVE  \E w \in Views :
                  Path(v, OpeningItem(m.message, i, "message"), w) /\ Promised(n, w)
    <3>1. /\ v.terminal = "none" /\ v.envelope = "in_progress"
          /\ \A j \in DOMAIN v.item : j < i
      BY <2>6 DEF Promised, ItemsPromised
    <3>2. i \notin DOMAIN v.item
      BY <1>1, <3>1
    <3>3. PICK w \in Views :
             /\ Path(v, <<Plain("Added", "message", i), Plain("PartAdded", "message", i)>>, w)
             /\ ItemBecomes(v, w, i, OpenItem)
             /\ w.lastDone = v.lastDone
      BY <1>1, <3>1, <3>2, ContentOpens
    <3>4. \A j \in DOMAIN v.item : j \in Nat
      BY DEF Views, Shown
    <3>5. ItemsPromised(n, w.item)
      <4>1. \A j \in DOMAIN w.item : j < n.next
        BY <1>1, <2>2, <3>1, <3>3, <3>4 DEF ItemBecomes
      <4>2. n.message.index \in DOMAIN w.item /\ w.item[n.message.index] = OpenItem
        BY <2>3, <3>3 DEF ItemBecomes
      <4>3. m.reasoning.open =>
               m.reasoning.index \in DOMAIN w.item /\ w.item[m.reasoning.index] = OpenItem
        BY <1>1, <2>4, <2>6, <3>3 DEF Promised, ItemsPromised, ItemBecomes
      <4>4. ASSUME NEW p \in DOMAIN m.tools
            PROVE  IF m.tools[p].kind \in LateKinds /\ ~ m.tools[p].done
                   THEN m.tools[p].index \notin DOMAIN w.item
                   ELSE /\ m.tools[p].index \in DOMAIN w.item
                        /\ w.item[m.tools[p].index] = CallItem(m.tools[p])
        <5>1. m.tools[p].index # i
          BY <1>1, <2>4
        <5>2. QED
          BY <2>6, <3>3, <5>1 DEF Promised, ItemsPromised, ItemBecomes
      <4>5. ASSUME NEW j \in DOMAIN w.item
            PROVE  \/ ToolAt(n, j) \/ OpenAt(n.message, j) \/ OpenAt(n.reasoning, j)
                   \/ w.item[j] = DoneItem
        <5>1. CASE j = i
          BY <2>3, <5>1 DEF OpenAt
        <5>2. CASE j # i
          BY <1>5, <2>2, <2>6, <3>3, <5>2 DEF Promised, ItemsPromised, ItemBecomes, OpenAt, ToolAt
        <5>3. QED
          BY <5>1, <5>2
      <4>6. QED
        BY <2>2, <2>3, <4>1, <4>2, <4>3, <4>4, <4>5 DEF ItemsPromised
    <3>6. Promised(n, w)
      BY SMTT(40), <2>2, <2>3, <2>6, <3>3, <3>5 DEF Promised, StreamedPromised, WholePromised, ItemBecomes
    <3>7. QED
      BY <1>5, <3>3, <3>6 DEF OpeningItem
  <2>7. QED
    BY <2>5, <2>6 DEF Carries, n
<1>6. QED
  BY <1>4, <1>5

\* ensure_reasoning_item.
LEMMA ReasoningOpenedCarries ==
    ASSUME NEW m, Fits(m), m.verdict = "none", m.started
    PROVE  Carries(m, OpeningItem(m.reasoning, m.next, "reasoning"), ReasoningOpened(m))
<1> DEFINE n == ReasoningOpened(m)
           i == m.next
<1>1. m \in Moments /\ IndicesFit(m) /\ i \in Nat /\ m.reasoning \in Item
  BY MomentFields DEF Fits
<1> DEFINE o == ItemOpened(m.reasoning, m.next)
<1>2. /\ o \in Item /\ o.open = TRUE /\ o.text = m.reasoning.text
      /\ o.index = (IF m.reasoning.open THEN m.reasoning.index ELSE i)
      /\ m.reasoning.open => o = m.reasoning
  BY <1>1, OpenedItem
<1>3. n = [m EXCEPT !.reasoning = o, !.next = IF m.reasoning.open THEN m.next ELSE m.next + 1]
  BY DEF ReasoningOpened
<1> HIDE DEF o
<1>4. CASE m.reasoning.open
  <2>1. n = [m EXCEPT !.reasoning = m.reasoning, !.next = m.next]
    BY <1>4, <1>2, <1>3
  <2>2. n = m
    BY <1>1, <2>1 DEF Moments
  <2>3. QED
    BY <1>4, <2>2, CarriesNothing DEF OpeningItem
<1>5. CASE ~ m.reasoning.open
  <2>1. n = [m EXCEPT !.reasoning = o, !.next = i + 1] /\ i + 1 \in Nat
    BY <1>1, <1>5, <1>3
  <2>2. /\ n \in Moments /\ n.reasoning = o /\ n.next = i + 1
        /\ n.started = m.started /\ n.message = m.message
        /\ n.tools = m.tools /\ n.sent = m.sent /\ n.sealed = m.sealed
        /\ n.verdict = m.verdict
    BY <1>1, <1>2, <2>1 DEF Moments
  <2>3. n.reasoning.open = TRUE /\ n.reasoning.index = i
    BY <1>5, <1>2, <2>2
  <2>4. /\ m.message.open => m.message.index \in Nat /\ m.message.index < i
        /\ \A p \in DOMAIN m.tools : m.tools[p].index \in Nat /\ m.tools[p].index < i
    BY <1>1, MomentFields, ToolFields DEF IndicesFit
  <2> HIDE DEF n
  <2>5. Fits(n)
    BY <1>1, <2>2, <2>3, <2>4 DEF Fits, IndicesFit, OpenAt
  <2>6. ASSUME NEW v \in Views, Promised(m, v)
        PROVE  \E w \in Views :
                  Path(v, OpeningItem(m.reasoning, i, "reasoning"), w) /\ Promised(n, w)
    <3>1. /\ v.terminal = "none" /\ v.envelope = "in_progress"
          /\ \A j \in DOMAIN v.item : j < i
      BY <2>6 DEF Promised, ItemsPromised
    <3>2. i \notin DOMAIN v.item
      BY <1>1, <3>1
    <3>3. PICK w \in Views :
             /\ Path(v, <<Plain("Added", "reasoning", i), Plain("PartAdded", "reasoning", i)>>, w)
             /\ ItemBecomes(v, w, i, OpenItem)
             /\ w.lastDone = v.lastDone
      BY <1>1, <3>1, <3>2, ContentOpens
    <3>4. \A j \in DOMAIN v.item : j \in Nat
      BY DEF Views, Shown
    <3>5. ItemsPromised(n, w.item)
      <4>1. \A j \in DOMAIN w.item : j < n.next
        BY <1>1, <2>2, <3>1, <3>3, <3>4 DEF ItemBecomes
      <4>2. n.reasoning.index \in DOMAIN w.item /\ w.item[n.reasoning.index] = OpenItem
        BY <2>3, <3>3 DEF ItemBecomes
      <4>3. m.message.open =>
               m.message.index \in DOMAIN w.item /\ w.item[m.message.index] = OpenItem
        BY <1>1, <2>4, <2>6, <3>3 DEF Promised, ItemsPromised, ItemBecomes
      <4>4. ASSUME NEW p \in DOMAIN m.tools
            PROVE  IF m.tools[p].kind \in LateKinds /\ ~ m.tools[p].done
                   THEN m.tools[p].index \notin DOMAIN w.item
                   ELSE /\ m.tools[p].index \in DOMAIN w.item
                        /\ w.item[m.tools[p].index] = CallItem(m.tools[p])
        <5>1. m.tools[p].index # i
          BY <1>1, <2>4
        <5>2. QED
          BY <2>6, <3>3, <5>1 DEF Promised, ItemsPromised, ItemBecomes
      <4>5. ASSUME NEW j \in DOMAIN w.item
            PROVE  \/ ToolAt(n, j) \/ OpenAt(n.message, j) \/ OpenAt(n.reasoning, j)
                   \/ w.item[j] = DoneItem
        <5>1. CASE j = i
          BY <2>3, <5>1 DEF OpenAt
        <5>2. CASE j # i
          BY <1>5, <2>2, <2>6, <3>3, <5>2 DEF Promised, ItemsPromised, ItemBecomes, OpenAt, ToolAt
        <5>3. QED
          BY <5>1, <5>2
      <4>6. QED
        BY <2>2, <2>3, <4>1, <4>2, <4>3, <4>4, <4>5 DEF ItemsPromised
    <3>6. Promised(n, w)
      BY <2>2, <2>3, <2>6, <3>3, <3>5 DEF Promised, StreamedPromised, WholePromised, ItemBecomes
    <3>7. QED
      BY <1>5, <3>3, <3>6 DEF OpeningItem
  <2>7. QED
    BY <2>5, <2>6 DEF Carries, n
<1>6. QED
  BY <1>4, <1>5
-----------------------------------------------------------------------------
(* Deltas *)

\* What is fresh was never sent,
LEMMA FreshIsNew ==
    ASSUME NEW sent \in SUBSET Fragments, NEW txt, Fresh(txt, sent)
    PROVE  Range(txt) \cap sent = {}
<1>1. CASE txt = <<>>
  BY <1>1, TextFacts
<1>2. CASE \E f \in Fragments : txt = <<f>> /\ \A g \in sent : g[1] = f[1] => g[2] < f[2]
  <2>1. PICK f \in Fragments : txt = <<f>> /\ \A g \in sent : g[1] = f[1] => g[2] < f[2]
    BY <1>2
  <2>2. f[2] \in Nat /\ ~ (f[2] < f[2])
    BY DEF Fragments
  <2>3. f \notin sent
    BY <2>1, <2>2
  <2>4. QED
    BY <2>1, <2>3, TextFacts
<1>3. QED
  BY <1>1, <1>2 DEF Fresh

\* and comes after what was.
LEMMA FreshAfter ==
    ASSUME NEW txt \in Texts, NEW old \in Texts, InOrder(old), NEW sent,
           Range(old) \subseteq sent, Fresh(txt, sent)
    PROVE  /\ Range(old \o txt) = Range(old) \cup Range(txt)
           /\ InOrder(old \o txt)
<1>1. CASE txt = <<>>
  BY <1>1, TextFacts
<1>2. CASE \E f \in Fragments : txt = <<f>> /\ \A g \in sent : g[1] = f[1] => g[2] < f[2]
  <2>1. PICK f \in Fragments : txt = <<f>> /\ \A g \in sent : g[1] = f[1] => g[2] < f[2]
    BY <1>2
  <2> DEFINE new == old \o txt
             l == Len(old)
  <2>2. /\ l \in Nat /\ DOMAIN old = 1 .. l /\ DOMAIN new = 1 .. l + 1
        /\ \A k \in 1 .. l : new[k] = old[k]
        /\ new[l + 1] = f
    BY <2>1 DEF Texts
  <2> HIDE DEF new, l
  <2>3. Range(new) = Range(old) \cup {f}
    <3>1. ASSUME NEW x \in Range(new) PROVE x \in Range(old) \cup {f}
      <4>1. PICK k \in 1 .. l + 1 : new[k] = x
        BY <2>2 DEF Range
      <4>2. CASE k = l + 1
        BY <2>2, <4>1, <4>2
      <4>3. CASE k \in 1 .. l
        BY <2>2, <4>1, <4>3 DEF Range
      <4>4. QED
        BY <2>2, <4>1, <4>2, <4>3
    <3>2. ASSUME NEW x \in Range(old) PROVE x \in Range(new)
      <4>1. PICK k \in 1 .. l : old[k] = x
        BY <2>2 DEF Range
      <4>2. k \in 1 .. l + 1 /\ new[k] = x
        BY <2>2, <4>1
      <4>3. QED
        BY <2>2, <4>2 DEF Range
    <3>3. f \in Range(new)
      <4>1. l + 1 \in 1 .. l + 1
        BY <2>2
      <4>2. QED
        BY <2>2, <4>1 DEF Range
    <3>4. QED
      BY <3>1, <3>2, <3>3
  <2>4. ASSUME NEW m \in 1 .. l + 1, NEW n \in 1 .. l + 1, m < n, new[m][1] = new[n][1]
        PROVE  new[m][2] < new[n][2]
    <3>1. m \in 1 .. l /\ new[m] = old[m]
      BY <2>2, <2>4
    <3>2. CASE n \in 1 .. l
      <4>1. new[n] = old[n]
        BY <2>2, <3>2
      <4>2. QED
        BY <2>2, <2>4, <3>1, <3>2, <4>1 DEF InOrder
    <3>3. CASE n = l + 1
      <4>1. old[m] \in sent
        BY <2>2, <3>1 DEF Range
      <4>2. QED
        BY <2>1, <2>2, <2>4, <3>1, <3>3, <4>1
    <3>4. QED
      BY <2>2, <3>2, <3>3
  <2>5. InOrder(new)
    BY <2>2, <2>4 DEF InOrder
  <2>6. QED
    BY <2>1, <2>3, <2>5, TextFacts DEF new
<1>3. QED
  BY <1>1, <1>2 DEF Fresh

\* A fragment that was never sent stays with one item, in order.
LEMMA StreamedGrows ==
    ASSUME NEW v \in Views, NEW e \in Event, NEW sent,
           StreamedPromised(sent, v.streamed), Fresh(e.text, sent)
    PROVE  StreamedPromised(sent \cup Range(e.text), Grown(v, e).streamed)
<1> DEFINE f == v.streamed
           i == e.index
           g == Put(f, i, Get(f, i) \o e.text)
<1>1. Grown(v, e).streamed = g
  BY DEF Grown, Views
<1>2. f \in Streams /\ i \in Nat /\ e.text \in Texts
  BY DEF Views, Event
<1>3. /\ DOMAIN g = DOMAIN f \cup {i}
      /\ g[i] = Get(f, i) \o e.text
      /\ \A j \in DOMAIN f : j # i => g[j] = f[j]
  BY DEF Put
<1>4. /\ UNION {Range(f[j]) : j \in DOMAIN f} = sent
      /\ \A j, k \in DOMAIN f : j # k => Range(f[j]) \cap Range(f[k]) = {}
      /\ \A j \in DOMAIN f : InOrder(f[j])
  BY DEF StreamedPromised
<1>5. /\ Get(f, i) = IF i \in DOMAIN f THEN f[i] ELSE <<>>
      /\ Get(f, i) \in Texts
  BY <1>2, TextFacts DEF Get, Streams
<1> DEFINE old == Get(f, i)
<1>6. Range(old) \subseteq sent /\ InOrder(old)
  BY <1>4, <1>5, TextFacts DEF InOrder
<1>7. /\ Range(g[i]) = Range(old) \cup Range(e.text)
      /\ InOrder(g[i])
  BY <1>2, <1>3, <1>5, <1>6, FreshAfter
<1>8. Range(e.text) \cap sent = {}
  <2>1. \A j \in DOMAIN f : f[j] \in Texts
    BY <1>2 DEF Streams
  <2>2. sent \in SUBSET Fragments
    BY <1>4, <2>1, TextFacts
  <2>3. QED
    BY <2>2, FreshIsNew
<1> HIDE DEF g, f, i, old
<1>9. UNION {Range(g[j]) : j \in DOMAIN g} = sent \cup Range(e.text)
  <2>1. ASSUME NEW x \in UNION {Range(g[j]) : j \in DOMAIN g} PROVE x \in sent \cup Range(e.text)
    BY <1>3, <1>4, <1>6, <1>7
  <2>2. ASSUME NEW x \in sent PROVE x \in UNION {Range(g[j]) : j \in DOMAIN g}
    BY <1>3, <1>4, <1>5, <1>7 DEF old
  <2>3. ASSUME NEW x \in Range(e.text) PROVE x \in UNION {Range(g[j]) : j \in DOMAIN g}
    BY <1>3, <1>7
  <2>4. QED
    BY <2>1, <2>2, <2>3
<1>10. ASSUME NEW j \in DOMAIN g, NEW k \in DOMAIN g, j # k
       PROVE  Range(g[j]) \cap Range(g[k]) = {}
  <2>1. ASSUME NEW l \in DOMAIN f, l # i PROVE Range(f[l]) \cap Range(g[i]) = {}
    <3>1. Range(f[l]) \cap Range(old) = {}
      BY <1>4, <1>5, <2>1, TextFacts DEF old
    <3>2. Range(f[l]) \subseteq sent
      BY <1>4
    <3>3. QED
      BY <1>7, <1>8, <3>1, <3>2
  <2>2. QED
    BY <1>3, <1>4, <1>10, <2>1
<1>11. \A j \in DOMAIN g : InOrder(g[j])
  BY <1>3, <1>4, <1>7
<1>12. StreamedPromised(sent \cup Range(e.text), g)
  BY <1>9, <1>10, <1>11 DEF StreamedPromised
<1>13. QED
  BY <1>1, <1>12 DEF g, i, f

\* A delta changes nothing but the deltas.
LEMMA GrownFields ==
    ASSUME NEW v \in Views, NEW e
    PROVE  /\ Grown(v, e).envelope = v.envelope /\ Grown(v, e).terminal = v.terminal
           /\ Grown(v, e).item = v.item /\ Grown(v, e).lastDone = v.lastDone
BY DEF Grown, Views

MessageGrown(m, txt) ==
    [m EXCEPT !.message = [open |-> m.message.open, index |-> m.message.index,
                           text |-> m.message.text \o txt],
              !.sent = @ \cup Range(txt)]
ReasoningGrown(m, txt) ==
    [m EXCEPT !.reasoning = [open |-> m.reasoning.open, index |-> m.reasoning.index,
                             text |-> m.reasoning.text \o txt],
              !.sent = @ \cup Range(txt)]

\* The delta of a text fragment.
LEMMA MessageDeltaCarries ==
    ASSUME NEW m, Fits(m), m.verdict = "none", m.message.open, NEW txt \in Texts,
           Fresh(txt, m.sent)
    PROVE  Carries(m, <<Ev("Delta", "message", m.message.index, txt, {})>>,
                   MessageGrown(m, txt))
<1> DEFINE n == MessageGrown(m, txt)
           i == m.message.index
           e == Ev("Delta", "message", i, txt, {})
<1>1. m \in Moments /\ IndicesFit(m)
  BY DEF Fits
<1>2. i \in Nat /\ m.message.text \o txt \in Texts /\ m.sent \cup Range(txt) \in SUBSET Fragments
      /\ m.message.open \in BOOLEAN /\ m.started
  BY <1>1, MomentFields, OpenMeansStarted, TextFacts
<1>3. /\ n \in Moments
      /\ n.message = [open |-> m.message.open, index |-> i, text |-> m.message.text \o txt]
      /\ n.started = m.started /\ n.next = m.next /\ n.reasoning = m.reasoning
      /\ n.tools = m.tools /\ n.sent = m.sent \cup Range(txt) /\ n.sealed = m.sealed
      /\ n.verdict = m.verdict
  BY <1>1, <1>2 DEF MessageGrown, Moments, Item
<1>4. n.message.open /\ n.message.index = i
  BY <1>3
<1>5. e \in Event
  BY <1>2, EvType, EventNames
<1>6. e.type = "Delta" /\ e.kind = "message" /\ e.index = i /\ e.text = txt
  BY DEF Ev
<1> HIDE DEF n, e
<1>7. Fits(n)
  BY <1>1, <1>3, <1>4 DEF Fits, IndicesFit, OpenAt
<1>8. ASSUME NEW v \in Views, Promised(m, v)
      PROVE  \E w \in Views : Path(v, <<e>>, w) /\ Promised(n, w)
  <2>1. /\ v.terminal = "none" /\ v.envelope = "in_progress" /\ i \in DOMAIN v.item
        /\ v.item[i] = OpenItem
    BY <1>2, <1>8 DEF Promised, ItemsPromised
  <2>2. LegalDelta(e, v)
    BY <1>6, <2>1, WireKindFacts DEF LegalDelta, Finds, OpenItem
  <2>3. Grown(v, e) \in Views /\ Path(v, <<e>>, Grown(v, e))
    BY <1>5, <1>6, <2>1, <2>2, DeltaStep
  <2>4. StreamedPromised(n.sent, Grown(v, e).streamed)
    BY <1>3, <1>5, <1>6, <1>8, StreamedGrows DEF Promised
  <2>5. ItemsPromised(n, v.item) /\ WholePromised(n, v.lastDone)
    BY <1>3, <1>4, <1>8 DEF Promised, ItemsPromised, WholePromised, OpenAt, ToolAt
  <2>6. Promised(n, Grown(v, e))
    BY <1>3, <1>8, <2>4, <2>5, GrownFields DEF Promised
  <2>7. QED
    BY <2>3, <2>6
<1>9. QED
  BY <1>7, <1>8 DEF Carries, n, e

\* Both deltas of a reasoning fragment.
LEMMA ReasoningDeltaCarries ==
    ASSUME NEW m, Fits(m), m.verdict = "none", m.reasoning.open, NEW txt \in Texts,
           Fresh(txt, m.sent)
    PROVE  Carries(m, <<Ev("Delta", "reasoning", m.reasoning.index, txt, {}),
                        Ev("Delta", "summary", m.reasoning.index, txt, {})>>,
                   ReasoningGrown(m, txt))
<1> DEFINE n == ReasoningGrown(m, txt)
           i == m.reasoning.index
           e == Ev("Delta", "reasoning", i, txt, {})
           f == Ev("Delta", "summary", i, txt, {})
<1>1. m \in Moments /\ IndicesFit(m)
  BY DEF Fits
<1>2. i \in Nat /\ m.reasoning.text \o txt \in Texts /\ m.sent \cup Range(txt) \in SUBSET Fragments
      /\ m.reasoning.open \in BOOLEAN /\ m.started
  BY <1>1, MomentFields, OpenMeansStarted, TextFacts
<1>3. /\ n \in Moments
      /\ n.reasoning = [open |-> m.reasoning.open, index |-> i,
                        text |-> m.reasoning.text \o txt]
      /\ n.started = m.started /\ n.next = m.next /\ n.message = m.message
      /\ n.tools = m.tools /\ n.sent = m.sent \cup Range(txt) /\ n.sealed = m.sealed
      /\ n.verdict = m.verdict
  BY <1>1, <1>2 DEF ReasoningGrown, Moments, Item
<1>4. n.reasoning.open /\ n.reasoning.index = i
  BY <1>3
<1>5. e \in Event /\ f \in Event
  BY <1>2, EvType, EventNames
<1>6. /\ e.type = "Delta" /\ e.kind = "reasoning" /\ e.index = i /\ e.text = txt
      /\ f.type = "Delta" /\ f.kind = "summary" /\ f.index = i /\ f.text = txt
  BY DEF Ev
<1> HIDE DEF n, e, f
<1>7. Fits(n)
  BY <1>1, <1>3, <1>4 DEF Fits, IndicesFit, OpenAt
<1>8. ASSUME NEW v \in Views, Promised(m, v)
      PROVE  \E w \in Views : Path(v, <<e, f>>, w) /\ Promised(n, w)
  <2> DEFINE u == Grown(v, e)
  <2>1. /\ v.terminal = "none" /\ v.envelope = "in_progress" /\ i \in DOMAIN v.item
        /\ v.item[i] = OpenItem
    BY <1>2, <1>8 DEF Promised, ItemsPromised
  <2>2. LegalDelta(e, v)
    BY <1>6, <2>1, WireKindFacts DEF LegalDelta, Finds, OpenItem
  <2>3. u \in Views /\ Path(v, <<e>>, u)
    BY <1>5, <1>6, <2>1, <2>2, DeltaStep
  <2>4. StreamedPromised(n.sent, u.streamed)
    <3>1. StreamedPromised(m.sent, v.streamed) /\ Fresh(e.text, m.sent)
      BY <1>6, <1>8 DEF Promised
    <3>2. QED
      BY <1>3, <1>5, <1>6, <3>1, StreamedGrows
  <2>5. /\ u.envelope = v.envelope /\ u.terminal = v.terminal /\ u.item = v.item
        /\ u.lastDone = v.lastDone
    BY GrownFields
  <2> HIDE DEF u
  <2>6. LegalDelta(f, u)
    BY <1>6, <2>1, <2>5, WireKindFacts DEF LegalDelta, Finds, OpenItem
  <2>7. Path(u, <<f>>, u)
    BY <1>5, <1>6, <2>1, <2>3, <2>5, <2>6, DeltaStep
  <2>8. ItemsPromised(n, v.item) /\ WholePromised(n, v.lastDone)
    BY <1>3, <1>4, <1>8 DEF Promised, ItemsPromised, WholePromised, OpenAt, ToolAt
  <2>9. Promised(n, u)
    BY <1>3, <1>8, <2>4, <2>5, <2>8 DEF Promised
  <2>10. Path(v, <<e, f>>, u)
    BY ZenonT(30), <1>5, <2>3, <2>7, PathConcat, PairConcat
  <2>11. QED
    BY <2>3, <2>9, <2>10
<1>9. QED
  BY <1>7, <1>8 DEF Carries, n, e, f

-----------------------------------------------------------------------------
(* Tools *)

ToolAdded(m, t) == [m EXCEPT !.tools = Append(m.tools, t), !.next = m.next + 1]

Announcing(t) == IF t.kind \in LateKinds THEN <<>> ELSE <<Plain("Added", t.kind, t.index)>>

\* A tool block starts: announced now, or when it is whole.
LEMMA ToolAddedCarries ==
    ASSUME NEW m, Fits(m), m.verdict = "none", m.started,
           NEW t \in Tool, t.index = m.next, t.done = FALSE
    PROVE  Carries(m, Announcing(t), ToolAdded(m, t))
<1> DEFINE n == ToolAdded(m, t)
           i == m.next
           L == Len(m.tools)
<1>1. m \in Moments /\ IndicesFit(m) /\ i \in Nat /\ m.tools \in Seq(Tool)
  BY MomentFields DEF Fits
<1>2. L \in Nat /\ DOMAIN m.tools = 1 .. L
  BY <1>1
<1>3. Append(m.tools, t) \in Seq(Tool) /\ DOMAIN Append(m.tools, t) = 1 .. L + 1
      /\ Append(m.tools, t)[L + 1] = t
      /\ \A p \in 1 .. L : Append(m.tools, t)[p] = m.tools[p]
  BY <1>1
<1>4. i + 1 \in Nat
  BY <1>1
<1>5. /\ n \in Moments /\ n.tools = Append(m.tools, t) /\ n.next = i + 1
      /\ n.started = m.started /\ n.message = m.message /\ n.reasoning = m.reasoning
      /\ n.sent = m.sent /\ n.sealed = m.sealed /\ n.verdict = m.verdict
  BY <1>1, <1>3, <1>4 DEF ToolAdded, Moments
<1> HIDE DEF n, L
<1>6. /\ DOMAIN n.tools = 1 .. L + 1 /\ n.tools[L + 1] = t
      /\ \A p \in 1 .. L : n.tools[p] = m.tools[p]
  BY <1>3, <1>5
<1>7. \A p \in 1 .. L : m.tools[p].index \in Nat /\ m.tools[p].index < i
  BY <1>1, <1>2, ToolFields DEF IndicesFit
<1>8. /\ m.message.open => m.message.index \in Nat /\ m.message.index < i
      /\ m.reasoning.open => m.reasoning.index \in Nat /\ m.reasoning.index < i
  BY <1>1, MomentFields DEF IndicesFit
<1>9. IndicesFit(n)
  <2>1. /\ n.message.open => n.message.index < n.next
        /\ n.reasoning.open => n.reasoning.index < n.next
        /\ n.message.open /\ n.reasoning.open => n.message.index # n.reasoning.index
        /\ ~ n.started => n.next = 0
    BY <1>1, <1>5, <1>8 DEF IndicesFit
  <2>2. ASSUME NEW p \in DOMAIN n.tools
        PROVE  /\ n.tools[p].index < n.next
               /\ ~ OpenAt(n.message, n.tools[p].index)
               /\ ~ OpenAt(n.reasoning, n.tools[p].index)
    <3>1. CASE p = L + 1
      BY <1>1, <1>5, <1>6, <1>8, <3>1 DEF OpenAt
    <3>2. CASE p # L + 1
      <4>1. p \in 1 .. L /\ n.tools[p] = m.tools[p]
        BY <1>2, <1>6, <3>2
      <4>2. QED
        BY <1>1, <1>2, <1>5, <1>7, <4>1 DEF IndicesFit
    <3>3. QED
      BY <3>1, <3>2
  <2>3. ASSUME NEW p \in DOMAIN n.tools, NEW q \in DOMAIN n.tools,
               n.tools[p].index = n.tools[q].index
        PROVE  p = q
    <3>1. p \in 1 .. L /\ q \in 1 .. L => p = q
      BY SMTT(40), <1>1, <1>2, <1>6, <2>3 DEF IndicesFit
    <3>2. p \notin 1 .. L => p = L + 1
      BY <1>2, <1>6
    <3>3. q \notin 1 .. L => q = L + 1
      BY <1>2, <1>6
    <3>4. \A o \in 1 .. L : n.tools[o].index # n.tools[L + 1].index
      BY <1>1, <1>6, <1>7
    <3>5. QED
      BY <2>3, <3>1, <3>2, <3>3, <3>4
  <2>4. QED
    BY <2>1, <2>2, <2>3 DEF IndicesFit
<1>10. ASSUME NEW v \in Views, Promised(m, v), NEW its,
              \A j \in DOMAIN its : j \in Nat,
              IF t.kind \in LateKinds THEN its = v.item
              ELSE /\ DOMAIN its = DOMAIN v.item \cup {i}
                   /\ its[i] = CallItem(t)
                   /\ \A j \in DOMAIN v.item : j # i => its[j] = v.item[j]
       PROVE  ItemsPromised(n, its)
  <2>1. \A j \in DOMAIN v.item : j < i /\ j # i
    BY <1>1, <1>10 DEF Promised, ItemsPromised
  <2>2. \A j \in DOMAIN v.item : j \in DOMAIN its /\ its[j] = v.item[j]
    BY <1>10, <2>1
  <2>3. \A j \in DOMAIN its : j \notin DOMAIN v.item =>
           j = i /\ t.kind \notin LateKinds /\ its[i] = CallItem(t)
    BY <1>10
  <2>4. \A j \in DOMAIN its : j < n.next
    BY <1>1, <1>5, <1>10, <2>1, <2>3
  <2>5. /\ m.message.open =>
              m.message.index \in DOMAIN its /\ its[m.message.index] = OpenItem
        /\ m.reasoning.open =>
              m.reasoning.index \in DOMAIN its /\ its[m.reasoning.index] = OpenItem
    BY <1>10, <2>2 DEF Promised, ItemsPromised
  <2>6. ASSUME NEW p \in DOMAIN n.tools
        PROVE  IF n.tools[p].kind \in LateKinds /\ ~ n.tools[p].done
               THEN n.tools[p].index \notin DOMAIN its
               ELSE /\ n.tools[p].index \in DOMAIN its
                    /\ its[n.tools[p].index] = CallItem(n.tools[p])
    <3>1. CASE p = L + 1
      BY <1>6, <1>10, <2>1, <3>1
    <3>2. CASE p # L + 1
      <4>1. p \in 1 .. L /\ p \in DOMAIN m.tools /\ n.tools[p] = m.tools[p]
        BY <1>2, <1>6, <3>2
      <4>2. m.tools[p].index # i
        BY <1>1, <1>7, <4>1
      <4>3. IF m.tools[p].kind \in LateKinds /\ ~ m.tools[p].done
            THEN m.tools[p].index \notin DOMAIN v.item
            ELSE /\ m.tools[p].index \in DOMAIN v.item
                 /\ v.item[m.tools[p].index] = CallItem(m.tools[p])
        BY <1>10, <4>1 DEF Promised, ItemsPromised
      <4>4. QED
        BY <2>2, <2>3, <4>1, <4>2, <4>3
    <3>3. QED
      BY <3>1, <3>2
  <2>7. ASSUME NEW j \in DOMAIN its
        PROVE  \/ ToolAt(n, j) \/ OpenAt(n.message, j) \/ OpenAt(n.reasoning, j)
               \/ its[j] = DoneItem
    <3>1. CASE j \in DOMAIN v.item
      <4>1. ToolAt(m, j) => ToolAt(n, j)
        BY <1>2, <1>6 DEF ToolAt
      <4>2. QED
        BY <1>5, <1>10, <2>2, <3>1, <4>1 DEF Promised, ItemsPromised
    <3>2. CASE j \notin DOMAIN v.item
      <4>1. L + 1 \in DOMAIN n.tools /\ n.tools[L + 1].index = j
        BY <1>2, <1>6, <2>3, <3>2
      <4>2. QED
        BY <4>1 DEF ToolAt
    <3>3. QED
      BY <3>1, <3>2
  <2>8. QED
    BY <1>5, <2>4, <2>5, <2>6, <2>7 DEF ItemsPromised
<1>11. ASSUME NEW v \in Views, Promised(m, v)
       PROVE  \E w \in Views : Path(v, Announcing(t), w) /\ Promised(n, w)
  <2>1. v.terminal = "none" /\ v.envelope = "in_progress"
        /\ \A j \in DOMAIN v.item : j < i
    BY <1>11 DEF Promised, ItemsPromised
  <2>2. \A j \in DOMAIN v.item : j \in Nat
    BY DEF Views, Shown
  <2>3. CASE t.kind \in LateKinds
    <3>1. Announcing(t) = <<>>
      BY <2>3 DEF Announcing
    <3>2. ItemsPromised(n, v.item)
      BY <1>10, <1>11, <2>2, <2>3
    <3>3. Promised(n, v)
      BY <1>5, <1>11, <3>2 DEF Promised, WholePromised
    <3>4. QED
      BY <3>1, <3>3, PathEmpty
  <2>4. CASE t.kind \notin LateKinds
    <3> DEFINE e == Plain("Added", t.kind, i)
               w == Moved(v, e)
    <3>1. t.kind \in ToolKinds /\ t.kind \in AllToolKinds /\ t.kind \in EventKinds
      BY ToolKindsAssumption, EventNames DEF Tool
    <3>2. e \in Event /\ e.type = "Added" /\ e.kind = t.kind /\ e.index = i
      BY <1>1, <3>1, PlainType, EventNames DEF Plain, Ev
    <3>3. Announcing(t) = <<e>>
      BY <2>4 DEF Announcing
    <3> HIDE DEF e
    <3>4. WireKind(t.kind) = "call" /\ PhaseAfter["Added"] = "added"
          /\ "Added" \in DOMAIN PhaseAfter
      BY <2>4, <3>1, WireKindFacts, PhaseAfterFacts
    <3>5. i \notin DOMAIN v.item
      BY <1>1, <2>1
    <3>6. w \in Views /\ Path(v, <<e>>, w)
      BY <2>1, <3>2, <3>4, <3>5, MoveStep DEF LegalOpening
    <3>7. ItemBecomes(v, w, i, [kind |-> "call", phase |-> "added"]) /\ w.lastDone = v.lastDone
      BY <3>2, <3>4, MovedItem
    <3> HIDE DEF w
    <3>8. CallItem(t) = [kind |-> "call", phase |-> "added"]
      BY <3>4 DEF CallItem
    <3>9. \A j \in DOMAIN w.item : j \in Nat
      BY <3>6 DEF Views, Shown
    <3>10. ItemsPromised(n, w.item)
      BY <1>10, <1>11, <2>4, <3>7, <3>8, <3>9 DEF ItemBecomes
    <3>11. Promised(n, w)
      BY <1>5, <1>11, <3>7, <3>10 DEF Promised, WholePromised, ItemBecomes
    <3>12. QED
      BY <3>3, <3>6, <3>11
  <2>5. QED
    BY <2>3, <2>4
<1>12. QED
  BY <1>5, <1>9, <1>11 DEF Carries, Fits, n

\* What the client was told of a tool does not depend on its input.
LEMMA ToolsAlike ==
    ASSUME NEW m, Fits(m), NEW n \in Moments,
           n.started = m.started, n.next = m.next, n.message = m.message,
           n.reasoning = m.reasoning, n.sent = m.sent, n.sealed = m.sealed,
           n.verdict = m.verdict, DOMAIN n.tools = DOMAIN m.tools,
           \A p \in DOMAIN m.tools : /\ n.tools[p].index = m.tools[p].index
                                     /\ n.tools[p].kind = m.tools[p].kind
                                     /\ n.tools[p].done = m.tools[p].done
    PROVE  Fits(n) /\ \A v : Promised(m, v) => Promised(n, v)
<1>1. Fits(n)
  BY DEF Fits, IndicesFit
<1>2. \A j : ToolAt(m, j) <=> ToolAt(n, j)
  BY DEF ToolAt
<1>3. \A p \in DOMAIN m.tools : CallItem(m.tools[p]) = CallItem(n.tools[p])
  BY DEF CallItem
<1>4. ASSUME NEW v, Promised(m, v) PROVE Promised(n, v)
  <2>1. ItemsPromised(n, v.item)
    BY <1>2, <1>3, <1>4 DEF Promised, ItemsPromised
  <2>2. QED
    BY <1>4, <2>1 DEF Promised, WholePromised
<1>5. QED
  BY <1>1, <1>4

\* The delta of a function call.
LEMMA ToolDeltaCarries ==
    ASSUME NEW m, Fits(m), m.verdict = "none", NEW p \in DOMAIN m.tools,
           m.tools[p].kind = "function", ~ m.tools[p].done
    PROVE  Carries(m, <<Plain("Delta", "function", m.tools[p].index)>>, m)
<1> DEFINE i == m.tools[p].index
           e == Plain("Delta", "function", i)
<1>1. m \in Moments /\ i \in Nat /\ m.started
  <2>1. m \in Moments
    BY DEF Fits
  <2>2. m.tools # <<>>
    OBVIOUS
  <2>3. QED
    BY <2>1, <2>2, ToolFields, OpenMeansStarted
<1>2. "function" \in EventKinds
  BY EventNames DEF AllToolKinds
<1>3. e \in Event /\ e.type = "Delta" /\ e.kind = "function" /\ e.index = i /\ e.text = <<>>
  BY <1>1, <1>2, PlainType, EventNames DEF Plain, Ev
<1> HIDE DEF e
<1>4. ASSUME NEW v \in Views, Promised(m, v)
      PROVE  \E w \in Views : Path(v, <<e>>, w) /\ Promised(m, w)
  <2>1. v.terminal = "none" /\ v.envelope = "in_progress"
    BY <1>1, <1>4 DEF Promised
  <2>2. i \in DOMAIN v.item /\ v.item[i] = [kind |-> "call", phase |-> "added"]
    BY <1>4, WireKindFacts DEF Promised, ItemsPromised, CallItem, LateKinds
  <2>3. LegalDelta(e, v)
    BY <1>3, <2>1, <2>2, WireKindFacts DEF LegalDelta, Finds
  <2>4. Grown(v, e) \in Views /\ Path(v, <<e>>, Grown(v, e))
    BY <1>3, <2>1, <2>3, DeltaStep
  <2>5. StreamedPromised(m.sent \cup Range(e.text), Grown(v, e).streamed)
    BY <1>3, <1>4, StreamedGrows DEF Promised, Fresh
  <2>6. m.sent \cup Range(e.text) = m.sent
    BY <1>3, TextFacts
  <2>7. Promised(m, Grown(v, e))
    BY <1>4, <2>5, <2>6, GrownFields DEF Promised
  <2>8. QED
    BY <2>4, <2>7
<1>5. QED
  BY <1>4 DEF Carries, e
-----------------------------------------------------------------------------
(* The terminal event *)

Ended(m, t) == [m EXCEPT !.verdict = t]

NothingOpen(m) == ~ m.message.open /\ ~ m.reasoning.open

EndAllowed(m, t) ==
    \/ t = "completed" /\ NothingOpen(m) /\ \A p \in DOMAIN m.tools : m.tools[p].done
    \/ t = "incomplete" /\ NothingOpen(m)
    \/ t = "failed" /\ \A p \in DOMAIN m.tools : ~ m.tools[p].done

\* A terminal event, where the machine may end.
LEMMA EndedCarries ==
    ASSUME NEW m, Fits(m), m.verdict = "none", NEW t \in Wire!Terminals, EndAllowed(m, t)
    PROVE  Carries(m, <<Plain(t, "none", 0)>>, Ended(m, t))
<1> DEFINE n == Ended(m, t)
           e == Plain(t, "none", 0)
<1>1. m \in Moments /\ IndicesFit(m)
  BY DEF Fits
<1>2. /\ n \in Moments /\ n.verdict = t
      /\ n.started = m.started /\ n.next = m.next /\ n.message = m.message
      /\ n.reasoning = m.reasoning /\ n.tools = m.tools /\ n.sent = m.sent
      /\ n.sealed = m.sealed
  BY <1>1 DEF Ended, Moments
<1>3. e \in Event /\ e.type = t
  <2>1. t \in EventTypes
    BY DEF EventTypes
  <2>2. QED
    BY <2>1, PlainType, EventNames DEF Plain, Ev
<1> HIDE DEF n, e
<1>4. Fits(n)
  BY <1>1, <1>2 DEF Fits, IndicesFit
<1>5. ASSUME NEW v \in Views, Promised(m, v)
      PROVE  \E w \in Views : Path(v, <<e>>, w) /\ Promised(n, w)
  <2> DEFINE w == [v EXCEPT !.terminal = e.type]
  <2>1. v.terminal = "none" /\ v.envelope # "created"
    BY <1>5 DEF Promised
  <2>2. ASSUME NEW i \in DOMAIN v.item
        PROVE  \/ OpenAt(m.message, i) \/ OpenAt(m.reasoning, i)
               \/ v.item[i] = DoneItem
               \/ \E p \in DOMAIN m.tools :
                     /\ v.item[i] = CallItem(m.tools[p])
                     /\ m.tools[p].kind \notin LateKinds \/ m.tools[p].done
    BY <1>5 DEF Promised, ItemsPromised, ToolAt
  <2>3. \A i \in DOMAIN v.item :
           OpenAt(m.message, i) \/ OpenAt(m.reasoning, i) => v.item[i] = OpenItem
    BY <1>5 DEF Promised, ItemsPromised, OpenAt
  <2>4. \A p \in DOMAIN m.tools : m.tools[p].kind \in AllToolKinds
    BY <1>1, ToolFields, ToolKindsAssumption
  <2>5. LegalEnd(e, v)
    <3>1. CASE t = "completed"
      <4>1. ASSUME NEW i \in DOMAIN v.item PROVE v.item[i].phase = "done"
        <5>1. v.item[i] = DoneItem \/ \E p \in DOMAIN m.tools : v.item[i] = CallItem(m.tools[p])
          BY <2>2, <3>1 DEF EndAllowed, NothingOpen, OpenAt
        <5>2. \A p \in DOMAIN m.tools : CallItem(m.tools[p]).phase = "done"
          BY <3>1 DEF EndAllowed, CallItem
        <5>3. QED
          BY <5>1, <5>2 DEF DoneItem
      <4>2. QED
        BY <1>3, <2>1, <3>1, <4>1 DEF LegalEnd
    <3>2. CASE t = "incomplete"
      <4>1. ASSUME NEW i \in DOMAIN v.item
            PROVE  \/ v.item[i].phase = "done"
                   \/ v.item[i].kind = "call" /\ v.item[i].phase = "added"
        <5>1. CASE v.item[i] = DoneItem
          BY <5>1 DEF DoneItem
        <5>2. ASSUME NEW p \in DOMAIN m.tools,
                     v.item[i] = CallItem(m.tools[p]),
                     m.tools[p].kind \notin LateKinds \/ m.tools[p].done
              PROVE  \/ v.item[i].phase = "done"
                     \/ v.item[i].kind = "call" /\ v.item[i].phase = "added"
          BY <2>4, <5>2, WireKindFacts DEF CallItem
        <5>3. QED
          BY <2>2, <3>2, <4>1, <5>1, <5>2 DEF EndAllowed, NothingOpen, OpenAt
      <4>2. QED
        BY <1>3, <2>1, <3>2, <4>1 DEF LegalEnd
    <3>3. CASE t = "failed"
      <4>1. ASSUME NEW i \in DOMAIN v.item, v.item[i].kind \in Wire!CallKinds
            PROVE  v.item[i].phase \notin {"args_done", "done"}
        <5>1. v.item[i] # DoneItem /\ v.item[i] # OpenItem
          BY <4>1 DEF DoneItem, OpenItem, Wire!CallKinds
        <5>2. PICK p \in DOMAIN m.tools : v.item[i] = CallItem(m.tools[p])
          BY <2>2, <2>3, <5>1
        <5>3. QED
          BY <3>3, <5>2 DEF EndAllowed, CallItem
      <4>2. QED
        BY <1>3, <2>1, <3>3, <4>1 DEF LegalEnd
    <3>4. QED
      BY <3>1, <3>2, <3>3 DEF EndAllowed
  <2>6. w \in Views /\ Path(v, <<e>>, w)
    BY <1>3, <2>1, <2>5, EndStep
  <2>7. /\ w.terminal = t /\ w.envelope = v.envelope /\ w.item = v.item
        /\ w.streamed = v.streamed /\ w.lastDone = v.lastDone
    BY <1>3 DEF Views
  <2> HIDE DEF w
  <2>8. ItemsPromised(n, v.item)
    BY <1>2, <1>5 DEF Promised, ItemsPromised, ToolAt
  <2>9. Promised(n, w)
    BY <1>2, <1>5, <2>7, <2>8 DEF Promised, WholePromised
  <2>10. QED
    BY <2>6, <2>9
<1>6. QED
  BY <1>4, <1>5 DEF Carries, n, e

-----------------------------------------------------------------------------
(* finalize_closed_tools: two events for each tool, in arrival order       *)

Finalizing(m) ==
    [n \in 1 .. 2 * Len(m.tools) |-> ToolEvents(m.tools[(n + 1) \div 2])[2 - (n % 2)]]

ToolsDone(m) ==
    [m EXCEPT !.tools = [p \in DOMAIN m.tools |-> [m.tools[p] EXCEPT !.done = TRUE]]]

\* A tool between its two events, and after them.
Half(t) == [kind |-> WireKind(t.kind),
            phase |-> IF t.kind \in LateKinds THEN "added" ELSE "args_done"]
Full(t) == [kind |-> WireKind(t.kind), phase |-> "done"]

\* The items once n of the events are delivered.
Begun(m, n) == {p \in DOMAIN m.tools : 2 * p - 1 <= n}
BegunAt(m, n, j) == CHOOSE p \in Begun(m, n) : m.tools[p].index = j

ItemsAfter(m, its, n) ==
    [j \in DOMAIN its \cup {m.tools[p].index : p \in Begun(m, n)} |->
        IF \E p \in Begun(m, n) : m.tools[p].index = j
        THEN IF 2 * BegunAt(m, n, j) <= n THEN Full(m.tools[BegunAt(m, n, j)])
             ELSE Half(m.tools[BegunAt(m, n, j)])
        ELSE its[j]]

\* The two events that finalize a tool.
LEMMA ToolEventFields ==
    ASSUME NEW t \in Tool
    PROVE  LET e == ToolEvents(t)[1]
               f == ToolEvents(t)[2]
           IN  /\ e \in Event /\ f \in Event
               /\ e.type = (IF t.kind \in LateKinds THEN "Added" ELSE "ArgsDone")
               /\ f.type = "ItemDone"
               /\ e.kind = t.kind /\ f.kind = t.kind
               /\ e.index = t.index /\ f.index = t.index
<1>1. t.kind \in EventKinds /\ t.index \in Nat
  BY EventNames DEF Tool
<1>2. /\ ToolEvents(t)[1] = Plain(IF t.kind \in LateKinds THEN "Added" ELSE "ArgsDone",
                                  t.kind, t.index)
      /\ ToolEvents(t)[2] = Plain("ItemDone", t.kind, t.index)
  BY DEF ToolEvents
<1>3. ToolEvents(t)[1] \in Event /\ ToolEvents(t)[2] \in Event
  <2>1. CASE t.kind \in LateKinds
    BY <1>1, <1>2, <2>1, PlainType, EventNames
  <2>2. CASE t.kind \notin LateKinds
    BY <1>1, <1>2, <2>2, PlainType, EventNames
  <2>3. QED
    BY <2>1, <2>2
<1>4. QED
  BY <1>2, <1>3 DEF Plain, Ev

ShowsBegun(m, its, n, g) ==
    /\ DOMAIN g = DOMAIN its \cup {m.tools[p].index : p \in Begun(m, n)}
    /\ \A p \in Begun(m, n) :
          g[m.tools[p].index] = IF 2 * p <= n THEN Full(m.tools[p]) ELSE Half(m.tools[p])
    /\ \A j \in DOMAIN its :
          (\A p \in Begun(m, n) : m.tools[p].index # j) => g[j] = its[j]

\* ItemsAfter, entry by entry.
LEMMA ItemsAfterFacts ==
    ASSUME NEW m, Fits(m), NEW its, NEW n \in Nat
    PROVE  ShowsBegun(m, its, n, ItemsAfter(m, its, n))
<1> DEFINE g == ItemsAfter(m, its, n)
<1>1. DOMAIN g = DOMAIN its \cup {m.tools[p].index : p \in Begun(m, n)}
  BY DEF ItemsAfter
<1>2. ASSUME NEW p \in Begun(m, n)
      PROVE  g[m.tools[p].index] = IF 2 * p <= n THEN Full(m.tools[p]) ELSE Half(m.tools[p])
  <2>1. BegunAt(m, n, m.tools[p].index) \in Begun(m, n)
        /\ m.tools[BegunAt(m, n, m.tools[p].index)].index = m.tools[p].index
    BY DEF BegunAt
  <2>2. BegunAt(m, n, m.tools[p].index) = p
    BY <2>1 DEF Fits, IndicesFit, Begun
  <2>3. QED
    BY <2>2 DEF ItemsAfter
<1>3. ASSUME NEW j \in DOMAIN its, \A p \in Begun(m, n) : m.tools[p].index # j
      PROVE  g[j] = its[j]
  BY <1>3 DEF ItemsAfter
<1> HIDE DEF g
<1>4. ShowsBegun(m, its, n, g)
  BY <1>1, <1>2, <1>3 DEF ShowsBegun
<1>5. QED
  BY <1>4 DEF g

\* One event of the batch.
LEMMA ItemsAfterStep ==
    ASSUME NEW m, Fits(m), NEW its, NEW n \in Nat, NEW p \in DOMAIN m.tools,
           n + 1 = 2 * p - 1 \/ n + 1 = 2 * p
    PROVE  ItemsAfter(m, its, n + 1) =
              Put(ItemsAfter(m, its, n), m.tools[p].index,
                  IF n + 1 = 2 * p THEN Full(m.tools[p]) ELSE Half(m.tools[p]))
<1> DEFINE i == m.tools[p].index
           g == ItemsAfter(m, its, n)
           h == ItemsAfter(m, its, n + 1)
           x == IF n + 1 = 2 * p THEN Full(m.tools[p]) ELSE Half(m.tools[p])
<1>1. DOMAIN m.tools \subseteq Nat /\ p \in Nat /\ n + 1 \in Nat
  <2>1. m.tools \in Seq(Tool)
    BY DEF Fits, Moments
  <2>2. QED
    BY <2>1
<1>2. Begun(m, n + 1) = Begun(m, n) \cup {p}
  BY <1>1 DEF Begun
<1>3. \A q \in Begun(m, n) : q # p => (2 * q <= n + 1 <=> 2 * q <= n)
  BY <1>1 DEF Begun
<1>4. \A q \in DOMAIN m.tools : m.tools[q].index = i => q = p
  BY DEF Fits, IndicesFit
<1>5. ShowsBegun(m, its, n, g) /\ ShowsBegun(m, its, n + 1, h)
  BY <1>1, ItemsAfterFacts
<1> HIDE DEF g, h
<1>6. /\ DOMAIN g = DOMAIN its \cup {m.tools[q].index : q \in Begun(m, n)}
      /\ \A q \in Begun(m, n) :
            g[m.tools[q].index] = IF 2 * q <= n THEN Full(m.tools[q]) ELSE Half(m.tools[q])
      /\ \A j \in DOMAIN its :
            (\A q \in Begun(m, n) : m.tools[q].index # j) => g[j] = its[j]
  BY <1>5 DEF ShowsBegun
<1>7. /\ DOMAIN h = DOMAIN its \cup {m.tools[q].index : q \in Begun(m, n + 1)}
      /\ \A q \in Begun(m, n + 1) :
            h[m.tools[q].index] = IF 2 * q <= n + 1 THEN Full(m.tools[q])
                                  ELSE Half(m.tools[q])
      /\ \A j \in DOMAIN its :
            (\A q \in Begun(m, n + 1) : m.tools[q].index # j) => h[j] = its[j]
  BY <1>5 DEF ShowsBegun
<1>8. h = [j \in DOMAIN h |-> h[j]]
  BY DEF ItemsAfter, h
<1>9. DOMAIN h = DOMAIN g \cup {i}
  BY <1>2, <1>6, <1>7
<1>10. h[i] = x
  BY <1>1, <1>2, <1>7
<1>11. ASSUME NEW j \in DOMAIN g, j # i PROVE h[j] = g[j]
  <2>1. CASE \E q \in Begun(m, n) : m.tools[q].index = j
    <3>1. PICK q \in Begun(m, n) : m.tools[q].index = j
      BY <2>1
    <3>2. q # p /\ q \in Begun(m, n + 1)
      BY <1>2, <1>11, <3>1
    <3>3. g[j] = IF 2 * q <= n THEN Full(m.tools[q]) ELSE Half(m.tools[q])
      BY <1>6, <3>1
    <3>4. h[j] = IF 2 * q <= n + 1 THEN Full(m.tools[q]) ELSE Half(m.tools[q])
      BY <1>7, <3>1, <3>2
    <3>5. QED
      BY <1>3, <3>1, <3>2, <3>3, <3>4
  <2>2. CASE \A q \in Begun(m, n) : m.tools[q].index # j
    <3>1. j \in DOMAIN its /\ \A q \in Begun(m, n + 1) : m.tools[q].index # j
      BY <1>2, <1>6, <1>11, <2>2
    <3>2. QED
      BY <1>6, <1>7, <2>2, <3>1
  <2>3. QED
    BY <2>1, <2>2
<1> HIDE DEF i, x
<1>12. Put(g, i, x) = [j \in DOMAIN h |-> h[j]]
  BY <1>9, <1>10, <1>11 DEF Put
<1>13. QED
  BY <1>8, <1>12 DEF g, h, i, x

\* Each event of the batch is legal where its predecessors lead.
LEMMA FinalizingLeads ==
    ASSUME NEW m, Fits(m), m.verdict = "none", m.started,
           \A p \in DOMAIN m.tools : ~ m.tools[p].done,
           NEW v \in Views, Promised(m, v),
           NEW n \in Nat, NEW p \in DOMAIN m.tools,
           n + 1 = 2 * p - 1 \/ n + 1 = 2 * p,
           NEW u \in Views, u = [v EXCEPT !.item = ItemsAfter(m, v.item, n)],
           NEW e, e = ToolEvents(m.tools[p])[IF n + 1 = 2 * p THEN 2 ELSE 1]
    PROVE  LET w == [v EXCEPT !.item = ItemsAfter(m, v.item, n + 1)]
           IN  w \in Views /\ Leads(e, u, w)
<1> DEFINE t == m.tools[p]
           i == t.index
           its == ItemsAfter(m, v.item, n)
           w == [v EXCEPT !.item = ItemsAfter(m, v.item, n + 1)]
<1>1. m \in Moments /\ t \in Tool /\ i \in Nat /\ t.kind \in AllToolKinds /\ p \in Nat
      /\ DOMAIN m.tools \subseteq Nat
  <2>1. m \in Moments /\ m.tools \in Seq(Tool)
    BY DEF Fits, Moments
  <2>2. QED
    BY <2>1, ToolFields, ToolKindsAssumption
<1>2. u.item = its /\ u.terminal = "none" /\ u.envelope = "in_progress"
  BY DEF Promised, Views
<1>3. ShowsBegun(m, v.item, n, its)
  BY ItemsAfterFacts
<1> HIDE DEF its
<1>4. /\ DOMAIN its = DOMAIN v.item \cup {m.tools[q].index : q \in Begun(m, n)}
      /\ \A q \in Begun(m, n) :
            its[m.tools[q].index] = IF 2 * q <= n THEN Full(m.tools[q])
                                    ELSE Half(m.tools[q])
      /\ \A j \in DOMAIN v.item :
            (\A q \in Begun(m, n) : m.tools[q].index # j) => its[j] = v.item[j]
  BY <1>3 DEF ShowsBegun
<1>5. \A q \in DOMAIN m.tools : m.tools[q].index = i => q = p
  BY DEF Fits, IndicesFit
<1>6. IF t.kind \in LateKinds THEN i \notin DOMAIN v.item
      ELSE i \in DOMAIN v.item /\ v.item[i] = [kind |-> "call", phase |-> "added"]
  BY <1>1, WireKindFacts DEF Promised, ItemsPromised, CallItem
<1>7. WireKind(t.kind) = IF t.kind \in LateKinds THEN "late_call" ELSE "call"
  BY <1>1, WireKindFacts
<1>8. /\ e \in Event /\ e.kind = t.kind /\ e.index = i
      /\ e.type = IF n + 1 = 2 * p THEN "ItemDone"
                  ELSE IF t.kind \in LateKinds THEN "Added" ELSE "ArgsDone"
  <2>1. CASE n + 1 = 2 * p
    BY <1>1, <2>1, ToolEventFields
  <2>2. CASE n + 1 # 2 * p
    BY <1>1, <2>2, ToolEventFields
  <2>3. QED
    BY <2>1, <2>2
<1>9. e.type \in DOMAIN PhaseAfter /\ e.kind \notin {"message", "reasoning"}
  BY <1>1, <1>8, PhaseAfterFacts DEF AllToolKinds
<1>10. LegalOpening(e, u) \/ LegalMove(e, u)
  <2>1. CASE n + 1 = 2 * p
    <3>1. p \in Begun(m, n) /\ ~ (2 * p <= n)
      BY <1>1, <2>1 DEF Begun
    <3>2. i \in DOMAIN its /\ its[i] = Half(t)
      BY <1>4, <3>1
    <3>3. QED
      BY <1>2, <1>7, <1>8, <2>1, <3>2 DEF LegalMove, Finds, Half
  <2>2. CASE n + 1 # 2 * p
    <3>1. p \notin Begun(m, n)
      BY <1>1, <2>2 DEF Begun
    <3>2. \A q \in Begun(m, n) : m.tools[q].index # i
      BY <1>5, <3>1 DEF Begun
    <3>3. CASE t.kind \in LateKinds
      BY <1>2, <1>4, <1>6, <1>8, <2>2, <3>2, <3>3 DEF LegalOpening
    <3>4. CASE t.kind \notin LateKinds
      <4>1. i \in DOMAIN its /\ its[i] = [kind |-> "call", phase |-> "added"]
        BY <1>4, <1>6, <3>2, <3>4
      <4>2. QED
        BY <1>2, <1>7, <1>8, <2>2, <3>4, <4>1 DEF LegalMove, Finds
    <3>5. QED
      BY <3>3, <3>4
  <2>3. QED
    BY <2>1, <2>2
<1>11. Moved(u, e) \in Views /\ Leads(e, u, Moved(u, e))
  BY <1>2, <1>8, <1>9, <1>10, MoveStep
<1>12. [kind |-> WireKind(e.kind), phase |-> PhaseAfter[e.type]]
          = IF n + 1 = 2 * p THEN Full(t) ELSE Half(t)
  BY <1>8, PhaseAfterFacts DEF Full, Half
<1>13. Put(u.item, e.index, [kind |-> WireKind(e.kind), phase |-> PhaseAfter[e.type]])
          = ItemsAfter(m, v.item, n + 1)
  BY <1>2, <1>8, <1>12, ItemsAfterStep DEF its
<1>14. Moved(u, e) = w
  BY <1>13 DEF Moved, Views
<1>15. QED
  BY <1>11, <1>14

\* The items stay items.
LEMMA ItemsAfterShown ==
    ASSUME NEW m, Fits(m), NEW its \in Shown, NEW n \in Nat
    PROVE  ItemsAfter(m, its, n) \in Shown
<1> DEFINE S == [kind : Wire!ItemKinds, phase : Wire!Phases]
           g == ItemsAfter(m, its, n)
<1>1. PICK D \in SUBSET Nat : its \in [D -> S]
  BY DEF Shown
<1>2. m \in Moments
  BY DEF Fits
<1>3. \A p \in Begun(m, n) : m.tools[p].index \in Nat
  BY <1>2, ToolFields DEF Begun
<1>4. \A t : Full(t) \in S /\ Half(t) \in S
  BY WireKindFacts DEF Full, Half, Wire!Phases
<1>5. ShowsBegun(m, its, n, g)
  BY ItemsAfterFacts
<1>6. g = [j \in DOMAIN g |-> g[j]]
  BY DEF ItemsAfter
<1> HIDE DEF S, g
<1>7. DOMAIN g \in SUBSET Nat
  BY <1>1, <1>3, <1>5 DEF ShowsBegun
<1>8. ASSUME NEW j \in DOMAIN g PROVE g[j] \in S
  <2>1. CASE \E p \in Begun(m, n) : m.tools[p].index = j
    BY <1>4, <1>5, <2>1 DEF ShowsBegun
  <2>2. CASE \A p \in Begun(m, n) : m.tools[p].index # j
    BY <1>1, <1>5, <2>2 DEF ShowsBegun
  <2>3. QED
    BY <2>1, <2>2
<1>9. g \in [DOMAIN g -> S]
  BY <1>6, <1>8
<1>10. QED
  BY <1>7, <1>9 DEF Shown, S, g

\* Every event of the batch is the first or the second of one tool.
LEMMA HalfOf ==
    ASSUME NEW L \in Nat, NEW k \in 1 .. 2 * L
    PROVE  \E p \in 1 .. L :
              /\ (k + 1) \div 2 = p
              /\ \/ k = 2 * p /\ 2 - (k % 2) = 2
                 \/ k = 2 * p - 1 /\ 2 - (k % 2) = 1
<1>1. (k + 1) \div 2 \in Int /\ k % 2 \in 0 .. 1
  OBVIOUS
<1>2. (k + 1) \div 2 \in 1 .. L
  OBVIOUS
<1>3. k = 2 * (k \div 2) + (k % 2)
  OBVIOUS
<1>4. CASE k % 2 = 0
  <2>1. k = 2 * (k \div 2)
    BY <1>3, <1>4
  <2>2. (k + 1) \div 2 = k \div 2
    BY <2>1
  <2>3. QED
   BY <1>2, <2>1, <2>2, <1>4
<1>5. CASE k % 2 = 1
  <2>1. k = 2 * (k \div 2) + 1
    BY <1>3, <1>5
  <2>2. (k + 1) \div 2 = k \div 2 + 1
    BY <2>1
  <2>3. k = 2 * ((k + 1) \div 2) - 1
    BY <2>1, <2>2
  <2>4. QED
   BY <1>2, <2>3, <1>5
<1>6. QED
  BY <1>1, <1>4, <1>5

\* The batch is a path.
LEMMA FinalizingIsPath ==
    ASSUME NEW m, Fits(m), m.verdict = "none",
           \A p \in DOMAIN m.tools : ~ m.tools[p].done,
           NEW v \in Views, Promised(m, v)
    PROVE  LET w == [v EXCEPT !.item = ItemsAfter(m, v.item, 2 * Len(m.tools))]
           IN  w \in Views /\ Path(v, Finalizing(m), w)
<1> DEFINE L == Len(m.tools)
           ev == Finalizing(m)
           at(n) == [v EXCEPT !.item = ItemsAfter(m, v.item, n)]
           path == [k \in 1 .. 2 * L + 1 |-> at(k - 1)]
<1>1. m \in Moments /\ m.tools \in Seq(Tool) /\ L \in Nat /\ DOMAIN m.tools = 1 .. L
  BY DEF Fits, Moments
<1>2. v.item \in Shown
  BY DEF Views
<1>3. ASSUME NEW n \in Nat PROVE at(n) \in Views
  <2>1. ItemsAfter(m, v.item, n) \in Shown
    BY <1>2, ItemsAfterShown
  <2>2. QED
    BY <2>1 DEF Views
<1>4. at(0) = v
  <2>1. Begun(m, 0) = {}
    BY <1>1 DEF Begun
  <2>2. ItemsAfter(m, v.item, 0) = [j \in DOMAIN v.item |-> v.item[j]]
    BY <2>1 DEF ItemsAfter
  <2>3. v.item = [j \in DOMAIN v.item |-> v.item[j]]
    BY <1>2 DEF Shown
  <2>4. QED
    BY <2>2, <2>3 DEF Views
<1>5. ASSUME NEW k \in 1 .. 2 * L
      PROVE  \E p \in DOMAIN m.tools :
                /\ (k - 1) + 1 = 2 * p - 1 \/ (k - 1) + 1 = 2 * p
                /\ ev[k] = ToolEvents(m.tools[p])[IF (k - 1) + 1 = 2 * p THEN 2 ELSE 1]
  <2>1. k \in Nat /\ (k - 1) + 1 = k
    BY <1>1
  <2>2. ev[k] = ToolEvents(m.tools[(k + 1) \div 2])[2 - (k % 2)]
    BY DEF Finalizing
  <2> HIDE DEF ev, L
  <2>3. PICK p \in 1 .. L :
           /\ (k + 1) \div 2 = p
           /\ \/ k = 2 * p /\ 2 - (k % 2) = 2
              \/ k = 2 * p - 1 /\ 2 - (k % 2) = 1
    BY <1>1, HalfOf
  <2>4. ev[k] = ToolEvents(m.tools[p])[2 - (k % 2)]
    BY <2>2, <2>3
  <2>5. k = 2 * p - 1 => k # 2 * p
    BY <2>1
  <2>6. ev[k] = ToolEvents(m.tools[p])[IF k = 2 * p THEN 2 ELSE 1]
    BY <2>3, <2>4, <2>5
  <2>7. QED
    BY <1>1, <2>1, <2>3, <2>6
<1>6. L # 0 => m.started
  BY <1>1, OpenMeansStarted
<1>7. ev = [k \in 1 .. 2 * L |-> ev[k]]
  BY DEF Finalizing
<1> HIDE DEF L, ev, at
<1>8. ASSUME NEW k \in 1 .. 2 * L
      PROVE  ev[k] \in Event /\ Leads(ev[k], path[k], path[k + 1])
  <2>1. k - 1 \in Nat /\ k \in 1 .. 2 * L + 1 /\ k + 1 \in 1 .. 2 * L + 1
        /\ (k + 1) - 1 = (k - 1) + 1 /\ L # 0
    BY <1>1
  <2>2. path[k] = at(k - 1) /\ path[k + 1] = at((k - 1) + 1)
    BY <2>1
  <2>3. PICK p \in DOMAIN m.tools :
           /\ (k - 1) + 1 = 2 * p - 1 \/ (k - 1) + 1 = 2 * p
           /\ ev[k] = ToolEvents(m.tools[p])[IF (k - 1) + 1 = 2 * p THEN 2 ELSE 1]
    BY <1>5
  <2>4. ev[k] \in Event
    <3>1. m.tools[p] \in Tool
      BY <1>1, ToolFields
    <3>2. QED
      BY <2>3, <3>1, ToolEventFields
  <2>5. m.started
    BY <1>6, <2>1
  <2> DEFINE n == k - 1
  <2>6. n \in Nat /\ at(n) \in Views
    BY <1>3, <2>1
  <2>7. n + 1 = 2 * p - 1 \/ n + 1 = 2 * p
    BY <2>3
  <2>8. ev[k] = ToolEvents(m.tools[p])[IF n + 1 = 2 * p THEN 2 ELSE 1]
    BY <2>3
  <2> HIDE DEF n
  <2>9. Leads(ev[k], at(n), at(n + 1))
    BY <2>5, <2>6, <2>7, <2>8, FinalizingLeads DEF at
  <2>10. QED
    BY <2>2, <2>4, <2>9 DEF n
<1>9. 2 * L \in Nat /\ 1 \in 1 .. 2 * L + 1 /\ 2 * L + 1 \in 1 .. 2 * L + 1
      /\ (2 * L + 1) - 1 = 2 * L
  BY <1>1
<1>10. ev \in Seq(Event) /\ Len(ev) = 2 * L
  <2>1. ev \in [1 .. 2 * L -> Event]
    BY <1>7, <1>8
  <2>2. QED
    BY <1>9, <2>1
<1>11. path[1] = v /\ path[2 * L + 1] = at(2 * L)
  BY <1>4, <1>9
<1>12. path \in [1 .. 2 * L + 1 -> Views]
  <2>1. ASSUME NEW k \in 1 .. 2 * L + 1 PROVE path[k] \in Views
    BY <1>1, <1>3
  <2>2. QED
    BY <2>1
<1> HIDE DEF path
<1>13. Path(v, ev, at(2 * L))
  BY <1>8, <1>10, <1>11, <1>12 DEF Path
<1>14. QED
  BY <1>3, <1>9, <1>13 DEF L, ev, at

\* ToolsDone changes the tools alone.
LEMMA ToolsDoneFields ==
    ASSUME NEW m \in Moments
    PROVE  LET n == ToolsDone(m)
           IN  /\ n \in Moments
               /\ DOMAIN n.tools = DOMAIN m.tools
               /\ \A p \in DOMAIN m.tools :
                     /\ n.tools[p].index = m.tools[p].index
                     /\ n.tools[p].kind = m.tools[p].kind
                     /\ n.tools[p].done = TRUE
               /\ n.started = m.started /\ n.next = m.next /\ n.message = m.message
               /\ n.reasoning = m.reasoning /\ n.sent = m.sent /\ n.sealed = m.sealed
               /\ n.verdict = m.verdict
<1> DEFINE n == ToolsDone(m)
           ts == [p \in DOMAIN m.tools |-> [m.tools[p] EXCEPT !.done = TRUE]]
<1>1. m.tools \in Seq(Tool)
  BY DEF Moments
<1>2. \A t \in Tool : LET d == [t EXCEPT !.done = TRUE]
                      IN  d \in Tool /\ d.index = t.index /\ d.kind = t.kind /\ d.done = TRUE
  BY DEF Tool
<1>3. /\ DOMAIN ts = DOMAIN m.tools
      /\ \A p \in DOMAIN m.tools :
            /\ ts[p] \in Tool /\ ts[p].index = m.tools[p].index
            /\ ts[p].kind = m.tools[p].kind /\ ts[p].done = TRUE
  BY <1>1, <1>2
<1>4. ts = [p \in 1 .. Len(m.tools) |-> ts[p]] /\ Len(m.tools) \in Nat
      /\ DOMAIN m.tools = 1 .. Len(m.tools)
  BY <1>1
<1>5. ts \in [1 .. Len(m.tools) -> Tool]
  BY <1>3, <1>4
<1>6. ts \in Seq(Tool)
  BY <1>4, <1>5
<1>7. n = [m EXCEPT !.tools = ts]
  BY DEF ToolsDone
<1> HIDE DEF n, ts
<1>8. /\ n \in Moments /\ n.tools = ts
      /\ n.started = m.started /\ n.next = m.next /\ n.message = m.message
      /\ n.reasoning = m.reasoning /\ n.sent = m.sent /\ n.sealed = m.sealed
      /\ n.verdict = m.verdict
  BY <1>6, <1>7 DEF Moments
<1>9. QED
  BY <1>3, <1>8 DEF n

\* finalize_closed_tools: once begun, every call of the batch is done.
LEMMA FinalizingCarries ==
    ASSUME NEW m, Fits(m), m.verdict = "none",
           \A p \in DOMAIN m.tools : ~ m.tools[p].done
    PROVE  Carries(m, Finalizing(m), ToolsDone(m))
<1> DEFINE n == ToolsDone(m)
           L == Len(m.tools)
<1>1. m \in Moments /\ IndicesFit(m) /\ L \in Nat /\ DOMAIN m.tools = 1 .. L
  BY DEF Fits, Moments
<1>2. /\ n \in Moments
      /\ DOMAIN n.tools = DOMAIN m.tools
      /\ \A p \in DOMAIN m.tools :
            /\ n.tools[p].index = m.tools[p].index
            /\ n.tools[p].kind = m.tools[p].kind
            /\ n.tools[p].done = TRUE
      /\ n.started = m.started /\ n.next = m.next /\ n.message = m.message
      /\ n.reasoning = m.reasoning /\ n.sent = m.sent /\ n.sealed = m.sealed
      /\ n.verdict = m.verdict
  BY <1>1, ToolsDoneFields
<1> HIDE DEF n, L
<1>3. Fits(n)
  BY <1>1, <1>2 DEF Fits, IndicesFit
<1>4. ASSUME NEW v \in Views, Promised(m, v)
      PROVE  \E w \in Views : Path(v, Finalizing(m), w) /\ Promised(n, w)
  <2> DEFINE its == ItemsAfter(m, v.item, 2 * L)
             w == [v EXCEPT !.item = its]
  <2>1. w \in Views /\ Path(v, Finalizing(m), w)
    BY <1>4, FinalizingIsPath DEF L
  <2>2. ShowsBegun(m, v.item, 2 * L, its)
    BY <1>1, ItemsAfterFacts
  <2>3. Begun(m, 2 * L) = DOMAIN m.tools /\ \A p \in DOMAIN m.tools : 2 * p <= 2 * L
    BY <1>1 DEF Begun
  <2>4. /\ w.item = its /\ w.envelope = v.envelope /\ w.terminal = v.terminal
        /\ w.streamed = v.streamed /\ w.lastDone = v.lastDone
    BY DEF Views
  <2> HIDE DEF its, w
  <2>5. /\ \A j : j \in DOMAIN its <=> (j \in DOMAIN v.item \/ ToolAt(m, j))
        /\ \A p \in DOMAIN m.tools : its[m.tools[p].index] = CallItem(n.tools[p])
        /\ \A j \in DOMAIN v.item : ~ ToolAt(m, j) => its[j] = v.item[j]
    <3>1. \A p \in DOMAIN m.tools : Full(m.tools[p]) = CallItem(n.tools[p])
      BY <1>2 DEF Full, CallItem
    <3>2. QED
      BY <2>2, <2>3, <3>1 DEF ShowsBegun, ToolAt
  <2>6. /\ m.message.open => ~ ToolAt(m, m.message.index)
        /\ m.reasoning.open => ~ ToolAt(m, m.reasoning.index)
    BY <1>1 DEF IndicesFit, OpenAt, ToolAt
  <2>7. ItemsPromised(n, its)
    <3>1. \A j \in DOMAIN its : j < n.next
      BY <1>1, <1>2, <1>4, <2>5 DEF Promised, ItemsPromised, IndicesFit, ToolAt
    <3>2. /\ m.message.open =>
                m.message.index \in DOMAIN its /\ its[m.message.index] = OpenItem
          /\ m.reasoning.open =>
                m.reasoning.index \in DOMAIN its /\ its[m.reasoning.index] = OpenItem
      BY <1>4, <2>5, <2>6 DEF Promised, ItemsPromised
    <3>3. \A p \in DOMAIN n.tools :
             /\ n.tools[p].done
             /\ n.tools[p].index \in DOMAIN its
             /\ its[n.tools[p].index] = CallItem(n.tools[p])
      BY <1>2, <2>5 DEF ToolAt
    <3>4. \A j : ToolAt(m, j) <=> ToolAt(n, j)
      BY <1>2 DEF ToolAt
    <3>5. \A j \in DOMAIN its :
             \/ ToolAt(m, j) \/ OpenAt(m.message, j) \/ OpenAt(m.reasoning, j)
             \/ its[j] = DoneItem
      BY <1>4, <2>5 DEF Promised, ItemsPromised
    <3>6. QED
      BY <1>2, <3>1, <3>2, <3>3, <3>4, <3>5 DEF ItemsPromised
  <2>8. Promised(n, w)
    BY <1>2, <1>4, <2>4, <2>7 DEF Promised, WholePromised
  <2>9. QED
    BY <2>1, <2>8
<1>5. QED
  BY <1>3, <1>4 DEF Carries, n

-----------------------------------------------------------------------------
(* What every upstream event has in common                                 *)

\* Moments are equal when their fields are.
LEMMA SameMoment ==
    ASSUME NEW m \in Moments, NEW n \in Moments,
           m.started = n.started, m.next = n.next, m.message = n.message,
           m.reasoning = n.reasoning, m.tools = n.tools, m.sent = n.sent,
           m.sealed = n.sealed, m.verdict = n.verdict
    PROVE  m = n
BY DEF Moments

\* The fields of Now.
LEMMA NowFields ==
    /\ Now.started = started /\ Now.next = nextIndex /\ Now.message = message
    /\ Now.reasoning = reasoning /\ Now.tools = tools /\ Now.sealed = Sealed
    /\ Now.sent = UNION {blk[b].text : b \in Blocks}
    /\ ~ finalized => Now.verdict = "none"
BY DEF Now

\* Now is a moment.
LEMMA NowType == TypeOK => Now \in Moments
<1> SUFFICES ASSUME TypeOK PROVE Now \in Moments
  OBVIOUS
<1>1. \A b \in Blocks : blk[b].text \in SUBSET Fragments
  BY DEF TypeOK, Block
<1>2. UNION {blk[b].text : b \in Blocks} \in SUBSET Fragments
  BY <1>1
<1>3. Sealed \in SUBSET Blocks
  BY DEF Sealed
<1>4. (IF ~ finalized THEN "none" ELSE IF final.status = "none" THEN "failed" ELSE final.status)
         \in {"none"} \cup Wire!Terminals
  BY DEF TypeOK, Response, Wire!Terminals
<1>5. QED
  BY <1>2, <1>3, <1>4 DEF Now, Moments, TypeOK

\* So is its successor.
LEMMA NowTypeNext == TypeOK' => Now' \in Moments
<1> SUFFICES ASSUME TypeOK' PROVE Now' \in Moments
  OBVIOUS
<1>1. \A b \in Blocks : blk'[b].text \in SUBSET Fragments
  BY DEF TypeOK, Block
<1>2. UNION {blk'[b].text : b \in Blocks} \in SUBSET Fragments
  BY <1>1
<1>3. Sealed' \in SUBSET Blocks
  BY DEF Sealed
<1>4. (IF ~ finalized' THEN "none" ELSE IF final'.status = "none" THEN "failed" ELSE final'.status)
         \in {"none"} \cup Wire!Terminals
  BY DEF TypeOK, Response, Wire!Terminals
<1>5. QED
  BY <1>2, <1>3, <1>4 DEF Now, Moments, TypeOK

\* The fields of the next Now.
LEMMA NowFieldsNext ==
    /\ Now'.started = started' /\ Now'.next = nextIndex' /\ Now'.message = message'
    /\ Now'.reasoning = reasoning' /\ Now'.tools = tools' /\ Now'.sealed = Sealed'
    /\ Now'.sent = UNION {blk'[b].text : b \in Blocks}
    /\ ~ finalized' => Now'.verdict = "none"
BY DEF Now

\* What the driver's await leaves to the machine: everything it computed
\* before is with the client.
LEMMA ReceivingFacts ==
    ASSUME DeliveryInv, Receiving
    PROVE  /\ Fits(Now) /\ Now \in Moments /\ Now.verdict = "none"
           /\ View \in Views /\ Promised(Now, View)
           /\ final = NoFinal /\ \A p \in DOMAIN tools : ~ tools[p].done
           /\ TypeOK
<1>1. driver = "running" /\ pending = <<>> /\ ~ finalized
  BY DEF Receiving
<1>2. PICK w \in Views : Path(View, <<>>, w) /\ Promised(Now, w)
  BY <1>1 DEF DeliveryInv, PendingFits
<1>3. View = w
  BY <1>2, PathEnds
<1>4. QED
  BY <1>1, <1>2, <1>3, NowFields DEF DeliveryInv, StreamInv, Fits, FinalFits

\* An upstream event keeps the invariant when its events carry the client along.
LEMMA ReceivingStep ==
    ASSUME DeliveryInv, Receiving, StreamInv', UNCHANGED <<driver, client>>,
           Carries(Now, pending', Now'), FragmentsFit', ThoughtsFit', FinalFits',
           finalized' => pending' # <<>>
    PROVE  DeliveryInv'
<1>1. View \in Views /\ Promised(Now, View)
  BY ReceivingFacts
<1>2. Fits(Now')
  BY DEF Carries
<1>3. PICK w \in Views : Path(View, pending', w) /\ Promised(Now', w)
  BY <1>1 DEF Carries
<1>4. View' = View
  BY DEF View, client
<1>5. driver' = "running"
  BY DEF Receiving
<1>6. PendingFits'
  BY <1>3, <1>4, <1>5 DEF PendingFits
<1>7. DriverFits'
  BY <1>5 DEF DriverFits
<1>8. QED
  BY <1>2, <1>6, <1>7 DEF DeliveryInv

StartedNow == [Now EXCEPT !.started = TRUE]

\* What ensure_started makes of Now.
LEMMA StartedNowFields ==
    ASSUME DeliveryInv, Receiving
    PROVE  /\ Fits(StartedNow) /\ StartedNow \in Moments
           /\ StartedNow.started = TRUE /\ StartedNow.verdict = "none"
           /\ StartedNow.next = nextIndex /\ StartedNow.message = message
           /\ StartedNow.reasoning = reasoning /\ StartedNow.tools = tools
           /\ StartedNow.sent = Now.sent /\ StartedNow.sealed = Sealed
           /\ Carries(Now, Started, StartedNow)
<1>1. Fits(Now) /\ Now \in Moments /\ Now.verdict = "none"
  BY ReceivingFacts
<1>2. Carries(Now, Starting(Now), StartedNow)
  BY <1>1, StartedCarries DEF StartedNow
<1>3. Started = Starting(Now)
  BY NowFields DEF Started, Starting
<1>4. /\ StartedNow \in Moments
      /\ StartedNow.started = TRUE /\ StartedNow.verdict = Now.verdict
      /\ StartedNow.next = Now.next /\ StartedNow.message = Now.message
      /\ StartedNow.reasoning = Now.reasoning /\ StartedNow.tools = Now.tools
      /\ StartedNow.sent = Now.sent /\ StartedNow.sealed = Now.sealed
  BY <1>1 DEF StartedNow, Moments
<1>5. QED
  BY <1>1, <1>2, <1>3, <1>4, NowFields DEF Carries

\* Emit prepends the envelope.
LEMMA EmitCarries ==
    ASSUME DeliveryInv, Receiving, NEW evs, Emit(evs), NEW n,
           Carries(StartedNow, evs, n)
    PROVE  Carries(Now, pending', n)
BY StartedNowFields, CarriesConcat DEF Emit

\* The helpers' vectors, as functions of the moment.
LEMMA ClosingOf ==
    ASSUME NEW m, m.message = message, m.reasoning = reasoning, m.sealed = Sealed
    PROVE  ClosingMessage(m) = CloseMessage /\ ClosingReasoning(m) = CloseReasoning
BY DEF ClosingMessage, CloseMessage, ClosingReasoning, CloseReasoning, ClosingTexts,
       ReasoningTexts

\* EnsureItem, likewise.
LEMMA OpeningOf ==
    ASSUME NEW it, NEW k
    PROVE  OpeningItem(it, nextIndex, k) = EnsureItem(it, k)
BY DEF OpeningItem, EnsureItem

\* An event that sends no fragment and seals nothing.
LEMMA SentSame ==
    ASSUME \A b \in Blocks : blk'[b].text = blk[b].text
    PROVE  Now'.sent = Now.sent
<1>1. UNION {blk'[b].text : b \in Blocks} = UNION {blk[b].text : b \in Blocks}
  <2>1. {blk'[b].text : b \in Blocks} = {blk[b].text : b \in Blocks}
    OBVIOUS
  <2>2. QED
    BY <2>1
<1>2. QED
  BY <1>1, NowFields, NowFieldsNext

\* The seals are kept in thought alone.
LEMMA SealedSame ==
    ASSUME thought' = thought
    PROVE  Sealed' = Sealed
BY DEF Sealed

\* No fragment is sent, and none is forgotten.
LEMMA FragmentsSame ==
    ASSUME FragmentsFit,
           \A b \in Blocks : blk'[b].text = blk[b].text /\ blk[b].sent <= blk'[b].sent,
           TypeOK, TypeOK'
    PROVE  FragmentsFit'
<1>1. ASSUME NEW b \in Blocks, NEW f \in blk'[b].text PROVE f[1] = b /\ f[2] <= blk'[b].sent
  <2>1. f[1] = b /\ f[2] <= blk[b].sent
    BY <1>1 DEF FragmentsFit
  <2>2. blk[b].text \in SUBSET Fragments /\ blk[b].sent \in Nat /\ blk'[b].sent \in Nat
    BY MaxFragmentsAssumption DEF TypeOK, Block
  <2>3. f[2] \in Nat
    BY <1>1, <2>2 DEF Fragments
  <2>4. QED
    BY <2>1, <2>2, <2>3
<1>2. QED
  BY <1>1 DEF FragmentsFit

\* An event of an unfinished stream.
LEMMA FinalSame ==
    ASSUME DeliveryInv, Receiving, UNCHANGED <<finalized, final>>,
           \A p \in DOMAIN tools' : ~ tools'[p].done
    PROVE  FinalFits'
<1>1. final = NoFinal /\ ~ finalized /\ final.status = "none"
  BY ReceivingFacts DEF Receiving, NoFinal
<1>2. QED
  BY <1>1 DEF FinalFits

\* What a step keeps of the blocks when it adds no reasoning.
Kept ==
    \A c \in Blocks :
       /\ blk[c].kind = "reasoning" => blk'[c].kind = "reasoning"
       /\ blk[c].text \subseteq blk'[c].text
       /\ blk[c].late => blk'[c].late
       /\ blk'[c].stage = "idle" => blk'[c].kind = "text"

\* Such a step leaves the texts of the reasoning.
LEMMA ThoughtsSame ==
    ASSUME ThoughtsFit, Kept, reasoning'.text = reasoning.text,
           \A c \in Blocks : thought'[c].text = thought[c].text
    PROVE  ThoughtsFit'
<1> DEFINE all == Joined([c \in Blocks |-> thought[c].text])
           all2 == Joined([c \in Blocks |-> thought'[c].text])
<1>1. all2 = all
  <2>1. [c \in Blocks |-> thought'[c].text] = [c \in Blocks |-> thought[c].text]
    OBVIOUS
  <2>2. QED
    BY <2>1
<1>2. ~ ReasoningOverlaps' => reasoning'.text = all2
  BY <1>1 DEF ThoughtsFit, ReasoningOverlaps, Kept
<1>3. ASSUME NEW c \in Blocks
      PROVE  /\ thought'[c].text = Among(reasoning'.text, FragmentsOf(c))
             /\ thought'[c].text # <<>> => blk'[c].kind = "reasoning" /\ blk'[c].text # {}
             /\ blk'[c].stage = "idle" => blk'[c].kind = "text"
  BY DEF ThoughtsFit, Kept
<1>4. QED
  BY <1>2, <1>3 DEF ThoughtsFit, FragmentsOf

\* The blocks as they are,
LEMMA KeptSame ==
    ASSUME ThoughtsFit, blk' = blk
    PROVE  Kept
BY DEF Kept, ThoughtsFit

\* one that starts,
LEMMA KeptOpened ==
    ASSUME ThoughtsFit, TypeOK, NEW b \in Blocks, NEW k, blk[b].stage = "idle",
           blk' = [blk EXCEPT ![b].stage = "open", ![b].kind = k]
    PROVE  Kept
<1>1. blk[b].kind = "text"
  BY DEF ThoughtsFit
<1>2. /\ blk'[b].stage = "open" /\ blk'[b].text = blk[b].text /\ blk'[b].late = blk[b].late
      /\ \A c \in Blocks : c # b => blk'[c] = blk[c]
  BY DEF TypeOK, Block
<1>3. QED
  BY <1>1, <1>2 DEF Kept, ThoughtsFit

\* or one that sends a fragment.
LEMMA KeptSent ==
    ASSUME ThoughtsFit, TypeOK, NEW b \in Blocks, NEW txt, Sent(b, txt)
    PROVE  Kept
<1>1. /\ blk'[b].kind = blk[b].kind /\ blk'[b].stage = blk[b].stage
      /\ blk[b].text \subseteq blk'[b].text /\ (blk[b].late => blk'[b].late)
      /\ \A c \in Blocks : c # b => blk'[c] = blk[c]
  BY DEF Sent, TypeOK, Block
<1>2. QED
  BY <1>1 DEF Kept, ThoughtsFit

-----------------------------------------------------------------------------
(* One lemma per upstream event *)

\* messageStart.
LEMMA MessageStartDelivers ==
    ASSUME DeliveryInv, StreamInv', MessageStart
    PROVE  DeliveryInv'
<1>1. Receiving /\ Emit(<<>>) /\ started' = TRUE
  BY DEF MessageStart, Emit
<1>2. UNCHANGED <<blk, nextIndex, message, reasoning, thought, tools, stopReason,
                  finalized, final, driver, client>>
  BY DEF MessageStart
<1>3. Now' = StartedNow
  <2>1. Now' \in Moments /\ StartedNow \in Moments
    BY <1>1, NowTypeNext, StartedNowFields DEF StreamInv
  <2>2. Now'.verdict = "none"
    BY <1>1, <1>2, NowFieldsNext DEF Receiving
  <2>3. Now'.sent = Now.sent /\ Now'.sealed = Sealed
    BY <1>2, SentSame, SealedSame, NowFieldsNext
  <2>4. QED
    BY ZenonT(30), <1>1, <1>2, <2>1, <2>2, <2>3, SameMoment, StartedNowFields, NowFieldsNext
<1>4. Carries(Now, pending', Now')
  BY <1>1, <1>3, CarriesNothing, EmitCarries, StartedNowFields
<1>5. FragmentsFit'
  BY <1>2 DEF DeliveryInv, FragmentsFit
<1>6. FinalFits'
  BY <1>1, <1>2, FinalSame, ReceivingFacts
<1>7. ThoughtsFit'
  BY <1>2, KeptSame, ThoughtsSame DEF DeliveryInv
<1>8. QED
  BY <1>1, <1>2, <1>4, <1>5, <1>6, <1>7, ReceivingStep DEF Receiving

\* An event that is inert for the client and the items.
LEMMA InertDelivers ==
    ASSUME DeliveryInv, StreamInv', Receiving, Emit(<<>>),
           UNCHANGED <<nextIndex, message, reasoning, thought, finalized, final,
                       driver, client>>,
           \A b \in Blocks : blk'[b].text = blk[b].text /\ blk[b].sent <= blk'[b].sent,
           Kept, DOMAIN tools' = DOMAIN tools,
           \A p \in DOMAIN tools : /\ tools'[p].index = tools[p].index
                                   /\ tools'[p].kind = tools[p].kind
                                   /\ tools'[p].done = tools[p].done
    PROVE  DeliveryInv'
<1>1. Now' \in Moments /\ StartedNow \in Moments /\ Fits(StartedNow)
  BY NowTypeNext, StartedNowFields DEF StreamInv
<1>2. Now'.verdict = "none" /\ Now'.started = TRUE
  BY NowFieldsNext DEF Receiving, Emit
<1>3. Now'.sent = Now.sent /\ Now'.sealed = Sealed
  BY SentSame, SealedSame, NowFieldsNext
<1> DEFINE m == StartedNow
           n == Now'
<1>4. /\ n.started = m.started /\ n.next = m.next /\ n.message = m.message
      /\ n.reasoning = m.reasoning /\ n.sent = m.sent /\ n.sealed = m.sealed
      /\ n.verdict = m.verdict /\ n.tools = tools' /\ m.tools = tools
  BY <1>2, <1>3, StartedNowFields, NowFieldsNext
<1> HIDE DEF m, n
<1>5. Fits(Now') /\ \A v : Promised(StartedNow, v) => Promised(Now', v)
  <2>1. Fits(n) /\ \A v : Promised(m, v) => Promised(n, v)
    BY <1>1, <1>4, ToolsAlike DEF m, n
  <2>2. QED
    BY <2>1 DEF m, n
<1>6. Carries(StartedNow, <<>>, Now')
  BY <1>5, PathEmpty DEF Carries
<1>7. Carries(Now, pending', Now')
  BY <1>6, EmitCarries
<1>8. FragmentsFit'
  BY FragmentsSame DEF DeliveryInv, StreamInv
<1>9. FinalFits'
  BY FinalSame, ReceivingFacts
<1>10. ThoughtsFit'
  BY ThoughtsSame DEF DeliveryInv
<1>11. QED
  BY <1>7, <1>8, <1>9, <1>10, ReceivingStep DEF Receiving

\* contentBlockStart of text or reasoning.
LEMMA ContentBlockStartDelivers ==
    ASSUME DeliveryInv, StreamInv', NEW b \in Blocks, ContentBlockStart(b)
    PROVE  DeliveryInv'
<1>1. PICK k \in ContentKinds : Opened(b, k)
  BY DEF ContentBlockStart
<1>2. Receiving /\ Emit(<<>>)
      /\ UNCHANGED <<nextIndex, message, reasoning, tools, thought, finalized, final,
                     driver, client>>
  BY <1>1 DEF ContentBlockStart, Opened, Body
<1>3. \A c \in Blocks : blk'[c].text = blk[c].text /\ blk[c].sent <= blk'[c].sent
  BY <1>1, ReceivingFacts, <1>2, MaxFragmentsAssumption DEF Opened, TypeOK, Block
<1>4. Kept
  BY <1>1, <1>2, ReceivingFacts, KeptOpened DEF Opened, DeliveryInv
<1>5. QED
  BY <1>2, <1>3, <1>4, InertDelivers

\* What Sent leaves and changes.
LEMMA SentFacts ==
    ASSUME TypeOK, NEW b \in Blocks, NEW txt, Sent(b, txt)
    PROVE  /\ \A c \in Blocks : c # b => blk'[c] = blk[c]
           /\ blk'[b].text = blk[b].text \cup Range(txt)
           /\ blk'[b].sent = blk[b].sent + 1
           /\ blk[b].sent \in Nat
BY MaxFragmentsAssumption DEF Sent, TypeOK, Block

\* An empty reasoning fragment.
LEMMA EmptyReasoningTextDelivers ==
    ASSUME DeliveryInv, StreamInv', NEW b \in Blocks, EmptyReasoningText(b)
    PROVE  DeliveryInv'
<1>1. Receiving /\ Emit(<<>>) /\ Sent(b, <<>>)
      /\ UNCHANGED <<nextIndex, message, reasoning, tools, thought, finalized, final,
                     driver, client>>
  BY DEF EmptyReasoningText, Fragment, Body
<1>2. \A c \in Blocks : blk'[c].text = blk[c].text /\ blk[c].sent <= blk'[c].sent
  <2>1. /\ \A c \in Blocks : c # b => blk'[c] = blk[c]
        /\ blk'[b].text = blk[b].text \cup Range(<<>>)
        /\ blk'[b].sent = blk[b].sent + 1
        /\ blk[b].sent \in Nat
    BY <1>1, SentFacts, ReceivingFacts
  <2>2. \A c \in Blocks : blk[c].sent \in Nat
    BY <1>1, ReceivingFacts, MaxFragmentsAssumption DEF TypeOK, Block
  <2>3. blk'[b].text = blk[b].text
    BY <2>1, TextFacts
  <2>4. QED
    BY <2>1, <2>2, <2>3
<1>3. Kept
  BY <1>1, ReceivingFacts, KeptSent DEF DeliveryInv
<1>4. QED
  BY <1>1, <1>2, <1>3, InertDelivers

\* contentBlockStop.
LEMMA ContentBlockStopDelivers ==
    ASSUME DeliveryInv, StreamInv', NEW b \in Blocks, ContentBlockStop(b)
    PROVE  DeliveryInv'
<1>1. Receiving /\ Emit(<<>>) /\ CloseToolBlock(b)
      /\ UNCHANGED <<nextIndex, message, reasoning, thought, finalized, final,
                     driver, client>>
  BY DEF ContentBlockStop, Body
<1>2. \A c \in Blocks : blk'[c].text = blk[c].text /\ blk[c].sent <= blk'[c].sent
  BY <1>1, ReceivingFacts, MaxFragmentsAssumption DEF ContentBlockStop, TypeOK, Block
<1>3. TypeOK
  BY <1>1, ReceivingFacts
<1>4. DOMAIN tools' = DOMAIN tools
      /\ \A p \in DOMAIN tools : /\ tools'[p].index = tools[p].index
                                 /\ tools'[p].kind = tools[p].kind
                                 /\ tools'[p].done = tools[p].done
  <2>1. DOMAIN tools' = DOMAIN tools
    BY <1>1 DEF CloseToolBlock
  <2>2. ASSUME NEW p \in DOMAIN tools
        PROVE  /\ tools'[p].index = tools[p].index
               /\ tools'[p].kind = tools[p].kind
               /\ tools'[p].done = tools[p].done
    <3>1. tools[p] \in Tool
      BY <1>3, ToolType
    <3>2. tools'[p] = tools[p] \/ tools'[p] = [tools[p] EXCEPT !.closed = TRUE]
      BY <1>1 DEF CloseToolBlock
    <3>3. QED
      BY <3>1, <3>2 DEF Tool
  <2>3. QED
    BY <2>1, <2>2
<1>5. Kept
  BY <1>1, <1>3 DEF ContentBlockStop, DeliveryInv, ThoughtsFit, Kept, TypeOK, Block
<1>6. QED
  BY <1>1, <1>2, <1>4, <1>5, InertDelivers

\* A fragment of tool input.
LEMMA ToolInputDelivers ==
    ASSUME DeliveryInv, StreamInv', NEW b \in Blocks, ToolInput(b)
    PROVE  DeliveryInv'
<1>1. PICK a \in ArgStates, k \in ToolKinds, p \in DOMAIN tools :
         /\ tools[p].block = b
         /\ Fragment(b, k)
         /\ blk' = [blk EXCEPT ![b].sent = @ + 1, ![b].args = a]
         /\ tools' = [tools EXCEPT ![p].args = a]
         /\ Emit(IF k = "function" THEN <<Plain("Delta", k, tools[p].index)>> ELSE <<>>)
         /\ UNCHANGED <<nextIndex, message, reasoning, thought, stopReason,
                        finalized, final, driver, client>>
  BY DEF ToolInput
<1>2. Receiving /\ blk[b].kind = k
  BY <1>1 DEF Fragment, Body
<1>3. TypeOK /\ ToolsAgree /\ ~ tools[p].done /\ final = NoFinal
      /\ \A q \in DOMAIN tools : ~ tools[q].done
  BY <1>2, ReceivingFacts DEF DeliveryInv, StreamInv
<1>4. tools[p].kind = k
  BY <1>1, <1>2, <1>3 DEF ToolsAgree
<1>5. \A c \in Blocks : blk'[c].text = blk[c].text /\ blk[c].sent <= blk'[c].sent
  BY <1>1, <1>3, MaxFragmentsAssumption DEF TypeOK, Block
<1>6. DOMAIN tools' = DOMAIN tools
      /\ \A q \in DOMAIN tools : /\ tools'[q].index = tools[q].index
                                 /\ tools'[q].kind = tools[q].kind
                                 /\ tools'[q].done = tools[q].done
  <2>1. \A q \in DOMAIN tools : tools[q] \in Tool
    BY <1>3, ToolType
  <2>2. tools \in Seq(Tool)
    BY <1>3 DEF TypeOK
  <2>3. QED
    BY <1>1, <2>1, <2>2 DEF Tool
<1>7. Now' \in Moments /\ Fits(StartedNow) /\ StartedNow.tools = tools
      /\ StartedNow.verdict = "none"
  BY <1>2, NowTypeNext, StartedNowFields DEF StreamInv
<1>8. Now'.verdict = "none" /\ Now'.started = TRUE
  BY <1>1, <1>2, NowFieldsNext DEF Receiving, Emit
<1>9. Now'.sent = Now.sent /\ Now'.sealed = Sealed
  BY <1>1, <1>5, SentSame, SealedSame, NowFieldsNext
<1> DEFINE m == StartedNow
           n == Now'
<1>10. /\ n.started = m.started /\ n.next = m.next /\ n.message = m.message
      /\ n.reasoning = m.reasoning /\ n.sent = m.sent /\ n.sealed = m.sealed
      /\ n.verdict = m.verdict /\ n.tools = tools' /\ m.tools = tools
  BY <1>1, <1>2, <1>7, <1>8, <1>9, StartedNowFields, NowFieldsNext
<1> HIDE DEF m, n
<1>11. Fits(Now') /\ \A v : Promised(StartedNow, v) => Promised(Now', v)
  <2>1. Fits(n) /\ \A v : Promised(m, v) => Promised(n, v)
    BY <1>6, <1>7, <1>10, ToolsAlike DEF m, n
  <2>2. QED
    BY <2>1 DEF m, n
<1>12. Carries(StartedNow,
               IF k = "function" THEN <<Plain("Delta", k, tools[p].index)>> ELSE <<>>,
               StartedNow)
  <2>1. CASE k = "function"
    <3>1. Carries(StartedNow, <<Plain("Delta", "function", StartedNow.tools[p].index)>>,
                  StartedNow)
      BY <1>3, <1>4, <1>7, <2>1, ToolDeltaCarries
    <3>2. QED
      BY <1>7, <2>1, <3>1
  <2>2. CASE k # "function"
    BY <1>7, <2>2, CarriesNothing
  <2>3. QED
    BY <2>1, <2>2
<1>13. Carries(Now, pending', StartedNow)
  BY <1>1, <1>2, <1>12, EmitCarries
<1>14. Carries(Now, pending', Now')
  BY <1>11, <1>13 DEF Carries
<1>15. FragmentsFit'
  BY <1>3, <1>5, FragmentsSame DEF DeliveryInv, StreamInv
<1>16. FinalFits'
  BY <1>1, <1>2, <1>3, <1>6, FinalSame
<1>17. ThoughtsFit'
  <2>1. Kept
    BY <1>1, <1>3 DEF DeliveryInv, ThoughtsFit, Kept, TypeOK, Block
  <2>2. QED
    BY <1>1, <2>1, ThoughtsSame DEF DeliveryInv
<1>18. QED
  BY <1>1, <1>2, <1>14, <1>15, <1>16, <1>17, ReceivingStep DEF Receiving
-----------------------------------------------------------------------------
(* Events that open, grow or close an item *)

\* A fragment nobody was sent before.
LEMMA NewFragment ==
    ASSUME DeliveryInv, Receiving, NEW b \in Blocks, blk[b].sent < MaxFragments,
           NEW txt \in TextOf(b), Sent(b, txt), TypeOK'
    PROVE  /\ txt \in Texts /\ Fresh(txt, Now.sent)
           /\ Now'.sent = Now.sent \cup Range(txt)
           /\ FragmentsFit'
<1>1. TypeOK /\ FragmentsFit
  BY ReceivingFacts DEF DeliveryInv
<1>2. txt = <<>> \/ txt = << <<b, blk[b].sent + 1>> >>
  BY DEF TextOf
<1>3. txt \in Texts
  BY <1>1, <1>2, FragmentType
<1>4. /\ \A c \in Blocks : c # b => blk'[c] = blk[c]
      /\ blk'[b].text = blk[b].text \cup Range(txt)
      /\ blk'[b].sent = blk[b].sent + 1
      /\ blk[b].sent \in Nat
  BY <1>1, SentFacts
<1>5. Now.sent = UNION {blk[c].text : c \in Blocks}
      /\ Now'.sent = UNION {blk'[c].text : c \in Blocks}
  BY NowFields, NowFieldsNext
<1>6. Fresh(txt, Now.sent)
  <2> DEFINE f == <<b, blk[b].sent + 1>>
  <2>1. f \in Fragments /\ f[1] = b /\ f[2] = blk[b].sent + 1
    BY <1>1, FragmentType
  <2>2. ASSUME NEW c \in Blocks, NEW g \in blk[c].text, g[1] = f[1]
        PROVE  g[2] < f[2]
    <3>1. c = b /\ g[2] <= blk[b].sent
      BY <1>1, <2>1, <2>2 DEF FragmentsFit
    <3>2. g[2] \in Nat
      BY <1>1, <2>2 DEF TypeOK, Block, Fragments
    <3>3. QED
      BY <1>4, <2>1, <3>1, <3>2
  <2> HIDE DEF f
  <2>3. QED
    BY <1>2, <1>5, <2>1, <2>2 DEF Fresh, f
<1>7. Now'.sent = Now.sent \cup Range(txt)
  <2>1. ASSUME NEW x PROVE x \in Now'.sent <=> x \in Now.sent \cup Range(txt)
    BY <1>4, <1>5
  <2>2. QED
    BY <2>1
<1>8. ASSUME NEW c \in Blocks, NEW f \in blk'[c].text PROVE f[1] = c /\ f[2] <= blk'[c].sent
  <2>1. CASE f \in blk[c].text
    <3>1. f[1] = c /\ f[2] <= blk[c].sent
      BY <1>1, <2>1 DEF FragmentsFit
    <3>2. f[2] \in Nat /\ blk[c].sent \in Nat
      BY <1>1, <2>1, MaxFragmentsAssumption DEF TypeOK, Block, Fragments
    <3>3. QED
      BY <1>4, <3>1, <3>2
  <2>2. CASE f \notin blk[c].text
    <3>1. c = b /\ f \in Range(txt)
      BY <1>4, <1>8, <2>2
    <3>2. f = <<b, blk[b].sent + 1>>
      BY <1>1, <1>2, <3>1, FragmentType, TextFacts
    <3>3. QED
      BY <1>4, <3>1, <3>2
  <2>3. QED
    BY <2>1, <2>2
<1>9. FragmentsFit'
  BY <1>8 DEF FragmentsFit
<1>10. QED
  BY <1>3, <1>6, <1>7, <1>9

\* MessageOpened, field by field.
LEMMA MessageOpenedFields ==
    ASSUME NEW m \in Moments
    PROVE  LET n == MessageOpened(m)
           IN  /\ n.message = [open |-> TRUE, index |-> IF m.message.open THEN m.message.index
                                                        ELSE m.next,
                               text |-> m.message.text]
               /\ n.next = (IF m.message.open THEN m.next ELSE m.next + 1)
               /\ n.started = m.started /\ n.reasoning = m.reasoning
               /\ n.tools = m.tools /\ n.sent = m.sent /\ n.sealed = m.sealed
               /\ n.verdict = m.verdict
BY DEF MessageOpened, ItemOpened, Moments

\* ReasoningOpened, field by field.
LEMMA ReasoningOpenedFields ==
    ASSUME NEW m \in Moments
    PROVE  LET n == ReasoningOpened(m)
           IN  /\ n.reasoning = [open |-> TRUE,
                                 index |-> IF m.reasoning.open THEN m.reasoning.index
                                           ELSE m.next,
                                 text |-> m.reasoning.text]
               /\ n.next = (IF m.reasoning.open THEN m.next ELSE m.next + 1)
               /\ n.started = m.started /\ n.message = m.message
               /\ n.tools = m.tools /\ n.sent = m.sent /\ n.sealed = m.sealed
               /\ n.verdict = m.verdict
BY DEF ReasoningOpened, ItemOpened, Moments

\* MessageGrown, field by field.
LEMMA MessageGrownFields ==
    ASSUME NEW m \in Moments, NEW txt
    PROVE  LET n == MessageGrown(m, txt)
           IN  /\ n.message = [open |-> m.message.open, index |-> m.message.index,
                               text |-> m.message.text \o txt]
               /\ n.next = m.next /\ n.started = m.started /\ n.reasoning = m.reasoning
               /\ n.tools = m.tools /\ n.sent = m.sent \cup Range(txt) /\ n.sealed = m.sealed
               /\ n.verdict = m.verdict
BY DEF MessageGrown, Moments

\* ReasoningGrown, field by field.
LEMMA ReasoningGrownFields ==
    ASSUME NEW m \in Moments, NEW txt
    PROVE  LET n == ReasoningGrown(m, txt)
           IN  /\ n.reasoning = [open |-> m.reasoning.open, index |-> m.reasoning.index,
                                 text |-> m.reasoning.text \o txt]
               /\ n.next = m.next /\ n.started = m.started /\ n.message = m.message
               /\ n.tools = m.tools /\ n.sent = m.sent \cup Range(txt) /\ n.sealed = m.sealed
               /\ n.verdict = m.verdict
BY DEF ReasoningGrown, Moments

\* A text fragment.
LEMMA TextDeltaDelivers ==
    ASSUME DeliveryInv, StreamInv', NEW b \in Blocks, TextDelta(b)
    PROVE  DeliveryInv'
<1>1. PICK txt \in TextOf(b) :
         /\ Fragment(b, "text") /\ Sent(b, txt)
         /\ Emit(CloseReasoning \o EnsureItem(message, "message") \o
                 <<Ev("Delta", "message", IndexFor(message), txt, {})>>)
         /\ reasoning' = [reasoning EXCEPT !.open = FALSE]
         /\ message' = [open |-> TRUE, index |-> IndexFor(message),
                        text |-> message.text \o txt]
         /\ nextIndex' = NextAfter(message)
         /\ UNCHANGED <<thought, tools, stopReason, finalized, final, driver, client>>
  BY DEF TextDelta
<1>2. Receiving /\ blk[b].sent < MaxFragments /\ TypeOK' /\ ~ finalized
  BY <1>1 DEF Fragment, Body, StreamInv, Receiving
<1>3. txt \in Texts /\ Fresh(txt, Now.sent) /\ Now'.sent = Now.sent \cup Range(txt) /\ FragmentsFit'
  BY <1>1, <1>2, NewFragment
<1> DEFINE m1 == StartedNow
           m2 == ReasoningClosed(m1)
           m3 == MessageOpened(m2)
           m4 == MessageGrown(m3, txt)
<1>4. /\ Fits(m1) /\ m1 \in Moments
      /\ m1.started = TRUE /\ m1.verdict = "none" /\ m1.next = nextIndex
      /\ m1.message = message /\ m1.reasoning = reasoning /\ m1.tools = tools
      /\ m1.sent = Now.sent /\ m1.sealed = Sealed
  BY <1>2, StartedNowFields
<1> HIDE DEF m1
<1>5. Carries(m1, CloseReasoning, m2)
  BY <1>4, ClosingReasoningCarries, ClosingOf
<1>6. /\ m2 \in Moments
      /\ m2.reasoning = [open |-> FALSE, index |-> reasoning.index, text |-> reasoning.text]
      /\ m2.started = TRUE /\ m2.verdict = "none" /\ m2.next = nextIndex
      /\ m2.message = message /\ m2.tools = tools
      /\ m2.sent = Now.sent /\ m2.sealed = Sealed
  BY <1>4, ReasoningClosedFields
<1> HIDE DEF m2
<1>7. Carries(m2, EnsureItem(message, "message"), m3)
  <2>1. Fits(m2)
    BY <1>5 DEF Carries
  <2>2. QED
    BY <1>6, <2>1, MessageOpenedCarries, OpeningOf
<1>8. /\ m3.message = [open |-> TRUE, index |-> IndexFor(message), text |-> message.text]
      /\ m3.next = NextAfter(message) /\ m3.reasoning = m2.reasoning
      /\ m3.started = TRUE /\ m3.verdict = "none" /\ m3.tools = tools
      /\ m3.sent = Now.sent /\ m3.sealed = Sealed
  BY <1>6, MessageOpenedFields DEF IndexFor, NextAfter
<1>9. Fits(m3) /\ m3 \in Moments
  BY <1>7 DEF Carries, Fits
<1> HIDE DEF m3
<1>10. m3.message.open /\ m3.message.index = IndexFor(message)
  BY <1>8
<1>11. Carries(m3, <<Ev("Delta", "message", IndexFor(message), txt, {})>>, m4)
  BY <1>3, <1>8, <1>9, <1>10, MessageDeltaCarries
<1>12. /\ m4.message = [open |-> TRUE, index |-> IndexFor(message), text |-> message.text \o txt]
       /\ m4.next = NextAfter(message) /\ m4.reasoning = m2.reasoning
       /\ m4.started = TRUE /\ m4.verdict = "none" /\ m4.tools = tools
       /\ m4.sent = Now.sent \cup Range(txt) /\ m4.sealed = Sealed
  <2>1. /\ m4.message = [open |-> m3.message.open, index |-> m3.message.index,
                         text |-> m3.message.text \o txt]
        /\ m4.next = m3.next /\ m4.started = m3.started /\ m4.reasoning = m3.reasoning
        /\ m4.tools = m3.tools /\ m4.sent = m3.sent \cup Range(txt) /\ m4.sealed = m3.sealed
        /\ m4.verdict = m3.verdict
    BY <1>9, MessageGrownFields
  <2> HIDE DEF m4
  <2>2. m3.message.text = message.text
    BY <1>8
  <2>3. QED
    BY <1>8, <1>10, <2>1, <2>2
<1>13. m4 \in Moments
  BY <1>11 DEF Carries, Fits
<1> HIDE DEF m4
<1>14. reasoning \in Item
  BY <1>2, ReceivingFacts DEF TypeOK
<1>15. reasoning' = m2.reasoning
  BY <1>1, <1>6, <1>14, ItemClosed
<1>16. Now' = m4
  <2>1. Now' \in Moments
    BY NowTypeNext DEF StreamInv
  <2>2. Now'.verdict = "none" /\ Now'.started = TRUE /\ Now'.sealed = Sealed
    BY <1>1, <1>2, NowFieldsNext, SealedSame DEF Emit
  <2>3. QED
    BY ZenonT(30), <1>1, <1>3, <1>12, <1>13, <1>15, <2>1, <2>2, NowFieldsNext, SameMoment
<1>17. Carries(m1, CloseReasoning \o EnsureItem(message, "message") \o
                   <<Ev("Delta", "message", IndexFor(message), txt, {})>>, m4)
  BY <1>5, <1>7, <1>11, CarriesConcat
<1>18. Carries(Now, pending', Now')
  BY <1>1, <1>2, <1>16, <1>17, EmitCarries DEF m1
<1>19. FinalFits'
  BY <1>1, <1>2, FinalSame, ReceivingFacts
<1>20. ThoughtsFit'
  <2>1. reasoning'.text = reasoning.text
    BY <1>6, <1>15
  <2>2. Kept
    BY <1>1, <1>2, ReceivingFacts, KeptSent DEF DeliveryInv
  <2>3. QED
    BY <1>1, <2>1, <2>2, ThoughtsSame DEF DeliveryInv
<1>21. QED
  BY <1>1, <1>2, <1>3, <1>18, <1>19, <1>20, ReceivingStep

-----------------------------------------------------------------------------
\* A reasoning fragment.
LEMMA ReasoningTextDelivers ==
    ASSUME DeliveryInv, StreamInv', NEW b \in Blocks, ReasoningText(b)
    PROVE  DeliveryInv'
<1> DEFINE txt == << <<b, blk[b].sent + 1>> >>
           deltas == <<Ev("Delta", "reasoning", IndexFor(reasoning), txt, {}),
                       Ev("Delta", "summary", IndexFor(reasoning), txt, {})>>
<1>1. /\ Fragment(b, "reasoning") /\ Sent(b, txt)
      /\ Emit(EnsureItem(reasoning, "reasoning") \o deltas)
      /\ reasoning' = [open |-> TRUE, index |-> IndexFor(reasoning),
                       text |-> reasoning.text \o txt]
      /\ nextIndex' = NextAfter(reasoning)
      /\ UNCHANGED <<message, tools, stopReason, finalized, final, driver, client>>
      /\ thought' = [thought EXCEPT ![b].text = @ \o txt]
  BY DEF ReasoningText, OpenReasoning
<1>2. Receiving /\ blk[b].sent < MaxFragments /\ TypeOK' /\ ~ finalized
  BY <1>1 DEF Fragment, Body, StreamInv, Receiving
<1>3. txt \in Texts /\ Fresh(txt, Now.sent) /\ Now'.sent = Now.sent \cup Range(txt) /\ FragmentsFit'
  <2>1. txt \in TextOf(b)
    BY DEF TextOf
  <2> HIDE DEF txt
  <2>2. QED
    BY <1>1, <1>2, <2>1, NewFragment
<1> HIDE DEF txt
<1>4. TypeOK /\ final = NoFinal /\ \A p \in DOMAIN tools : ~ tools[p].done
  BY <1>2, ReceivingFacts
<1>5. /\ \A c \in Blocks : thought'[c].text = IF c = b THEN thought[c].text \o txt
                                             ELSE thought[c].text
      /\ \A c \in Blocks : thought'[c].seen = thought[c].seen
  BY <1>1, <1>4 DEF TypeOK, Thought
<1>6. Sealed' = Sealed
  BY <1>5 DEF Sealed
<1> DEFINE m1 == StartedNow
           m2 == ReasoningOpened(m1)
           m3 == ReasoningGrown(m2, txt)
<1>7. /\ Fits(m1) /\ m1 \in Moments
      /\ m1.started = TRUE /\ m1.verdict = "none" /\ m1.next = nextIndex
      /\ m1.message = message /\ m1.reasoning = reasoning /\ m1.tools = tools
      /\ m1.sent = Now.sent /\ m1.sealed = Sealed
  BY <1>2, StartedNowFields
<1> HIDE DEF m1
<1>8. Carries(m1, EnsureItem(reasoning, "reasoning"), m2)
  BY <1>7, ReasoningOpenedCarries, OpeningOf
<1>9. /\ m2.reasoning = [open |-> TRUE, index |-> IndexFor(reasoning), text |-> reasoning.text]
      /\ m2.next = NextAfter(reasoning) /\ m2.message = message
      /\ m2.started = TRUE /\ m2.verdict = "none" /\ m2.tools = tools
      /\ m2.sent = Now.sent /\ m2.sealed = Sealed
  BY <1>7, ReasoningOpenedFields DEF IndexFor, NextAfter
<1>10. Fits(m2) /\ m2 \in Moments
  BY <1>8 DEF Carries, Fits
<1> HIDE DEF m2
<1>11. m2.reasoning.open /\ m2.reasoning.index = IndexFor(reasoning)
       /\ m2.reasoning.text = reasoning.text
  BY <1>9
<1>12. Carries(m2, deltas, m3)
  BY <1>3, <1>9, <1>10, <1>11, ReasoningDeltaCarries
<1>13. /\ m3.reasoning = [open |-> m2.reasoning.open, index |-> m2.reasoning.index,
                          text |-> m2.reasoning.text \o txt]
       /\ m3.next = m2.next /\ m3.started = m2.started /\ m3.message = m2.message
       /\ m3.tools = m2.tools /\ m3.sent = m2.sent \cup Range(txt) /\ m3.sealed = m2.sealed
       /\ m3.verdict = m2.verdict
  BY <1>10, ReasoningGrownFields
<1>14. m3 \in Moments
  BY <1>12 DEF Carries, Fits
<1> HIDE DEF m3, deltas
<1>15. Now' = m3
  <2>1. Now' \in Moments
    BY NowTypeNext DEF StreamInv
  <2>2. Now'.verdict = "none" /\ Now'.started = TRUE /\ Now'.sealed = Sealed
    BY <1>1, <1>2, <1>6, NowFieldsNext DEF Emit
  <2>3. m3.reasoning = reasoning'
    BY <1>1, <1>9, <1>11, <1>13
  <2>4. /\ Now'.next = m3.next /\ Now'.message = m3.message /\ Now'.reasoning = m3.reasoning
        /\ Now'.tools = m3.tools /\ Now'.sent = m3.sent
    BY <1>1, <1>3, <1>9, <1>13, <2>3, NowFieldsNext
  <2>5. m3.started = TRUE /\ m3.verdict = "none" /\ m3.sealed = Sealed
    BY <1>9, <1>13
  <2>6. QED
    BY <1>14, <2>1, <2>2, <2>4, <2>5, SameMoment
<1>16. Carries(m1, EnsureItem(reasoning, "reasoning") \o deltas, m3)
  BY <1>8, <1>12, CarriesConcat
<1>17. Carries(Now, pending', Now')
  BY <1>1, <1>2, <1>15, <1>16, EmitCarries DEF m1
<1>18. FinalFits'
  BY <1>1, <1>2, <1>4, FinalSame
<1>19. ThoughtsFit'
  <2> DEFINE f == <<b, blk[b].sent + 1>>
             old == [c \in Blocks |-> thought[c].text]
             new == [c \in Blocks |-> thought'[c].text]
  <2>1. f \in Fragments /\ f \in FragmentsOf(b) /\ txt = <<f>> /\ blk[b].kind = "reasoning"
        /\ blk[b].stage = "open" /\ \A c \in Blocks : c # b => f \notin FragmentsOf(c)
    <3>1. f \in Fragments /\ blk[b].kind = "reasoning" /\ blk[b].stage = "open"
      BY <1>1, <1>2, <1>4, FragmentType DEF Fragment
    <3>2. QED
      BY <3>1 DEF Fragments, FragmentsOf, txt
  <2>2. reasoning.text \in Texts
    BY <1>4 DEF TypeOK, Item
  <2>3. reasoning'.text = Append(reasoning.text, f)
    BY <1>1, <2>1, <2>2, AppendIsConcat DEF Texts
  <2>4. Kept
    BY <1>1, <1>4, KeptSent DEF DeliveryInv
  <2>5. \A c \in Blocks : thought[c].text \in Texts /\ thought'[c].text \in Texts
    BY <1>2, <1>4 DEF TypeOK, Thought
  <2>6. ThoughtsFit
    BY DEF DeliveryInv
  <2>7. blk'[b].text # {} /\ blk'[b].late = (blk[b].late \/ Overtaken(b))
    <3>1. txt # <<>> /\ f \in Range(txt)
      BY <2>1, TextFacts
    <3>2. QED
      BY <1>1, <1>4, <3>1 DEF Sent, TypeOK, Block
  <2> HIDE DEF f
  <2>8. ASSUME NEW c \in Blocks
        PROVE  /\ thought'[c].text = Among(reasoning'.text, FragmentsOf(c))
               /\ thought'[c].text # <<>> => blk'[c].kind = "reasoning" /\ blk'[c].text # {}
               /\ blk'[c].stage = "idle" => blk'[c].kind = "text"
    <3>1. Among(reasoning'.text, FragmentsOf(c)) =
             IF f \in FragmentsOf(c) THEN Append(Among(reasoning.text, FragmentsOf(c)), f)
             ELSE Among(reasoning.text, FragmentsOf(c))
      <4>1. f \in Fragments
        BY <2>1
      <4>2. \A S : Among(Append(reasoning.text, f), S) =
                     IF f \in S THEN Append(Among(reasoning.text, S), f)
                     ELSE Among(reasoning.text, S)
        BY <2>2, <4>1, FragmentAmong
      <4>3. QED
        BY <2>3, <4>2
    <3>2. thought[c].text = Among(reasoning.text, FragmentsOf(c))
      BY <2>6 DEF ThoughtsFit
    <3>3. thought'[c].text = IF c = b THEN Append(thought[c].text, f) ELSE thought[c].text
      BY <1>5, <2>1, <2>5, AppendIsConcat DEF Texts
    <3>4. thought'[c].text = Among(reasoning'.text, FragmentsOf(c))
      BY <2>1, <3>1, <3>2, <3>3
    <3>5. c = b => blk'[c].kind = "reasoning" /\ blk'[c].text # {}
      BY <2>1, <2>4, <2>7 DEF Kept
    <3>6. c # b => (thought'[c].text # <<>> => blk'[c].kind = "reasoning" /\ blk'[c].text # {})
      BY <2>4, <2>6, <3>3 DEF Kept, ThoughtsFit
    <3>7. QED
      BY <2>4, <3>4, <3>5, <3>6 DEF Kept
  <2>9. ASSUME ~ ReasoningOverlaps' PROVE reasoning'.text = Joined(new)
    <3>1. ~ ReasoningOverlaps /\ ~ Overtaken(b)
      BY <2>1, <2>4, <2>7, <2>9 DEF ReasoningOverlaps, Kept
    <3>2. reasoning.text = Joined(old)
      BY <2>6, <3>1 DEF ThoughtsFit
    <3>3. \A c \in Blocks : c > b => old[c] = <<>>
      BY <2>1, <2>6, <3>1 DEF Overtaken, ThoughtsFit
    <3>4. old \in [Blocks -> Texts] /\ new \in [Blocks -> Texts]
      BY <2>5
    <3>5. new[b] = old[b] \o txt /\ \A c \in Blocks : c # b => new[c] = old[c]
      BY <1>5
    <3> HIDE DEF old, new
    <3>6. Joined(new) = Joined(old) \o txt
      BY ZenonT(60), <1>3, <3>3, <3>4, <3>5, JoinedGrows
    <3>7. QED
      BY <1>1, <3>2, <3>6
  <2>10. QED
    BY <2>8, <2>9 DEF ThoughtsFit, FragmentsOf
<1>20. QED
  BY <1>1, <1>2, <1>3, <1>17, <1>18, <1>19, ReceivingStep

\* A block is sealed while the reasoning item is open.
LEMMA SealedCarries ==
    ASSUME NEW m, Fits(m), m.reasoning.open, NEW n \in Moments,
           n.started = m.started, n.next = m.next, n.message = m.message,
           n.reasoning = m.reasoning, n.tools = m.tools, n.sent = m.sent,
           n.verdict = m.verdict
    PROVE  Carries(m, <<>>, n)
<1>1. Fits(n)
  BY DEF Fits, IndicesFit
<1>2. ASSUME NEW v \in Views, Promised(m, v) PROVE Path(v, <<>>, v) /\ Promised(n, v)
  <2>1. ItemsPromised(n, v.item)
    BY <1>2 DEF Promised, ItemsPromised, ToolAt
  <2>2. StreamedPromised(n.sent, v.streamed) /\ WholePromised(n, v.lastDone)
    BY <1>2 DEF Promised, WholePromised
  <2>3. QED
    BY <1>2, <2>1, <2>2, PathEmpty DEF Promised
<1>3. QED
  BY <1>1, <1>2 DEF Carries

\* A signature or a redacted payload.
LEMMA SealDelivers ==
    ASSUME DeliveryInv, StreamInv', NEW b \in Blocks, NEW kind, NEW seen,
           Seal(b, kind, seen)
    PROVE  DeliveryInv'
<1>1. /\ Fragment(b, kind) /\ Sent(b, <<>>)
      /\ Emit(EnsureItem(reasoning, "reasoning"))
      /\ reasoning' = [open |-> TRUE, index |-> IndexFor(reasoning),
                       text |-> reasoning.text]
      /\ nextIndex' = NextAfter(reasoning)
      /\ UNCHANGED <<message, tools, stopReason, finalized, final, driver, client>>
      /\ thought' = [thought EXCEPT ![b].seen = seen]
  <2>1. reasoning.text \in Texts
    BY DEF DeliveryInv, StreamInv, TypeOK, Item
  <2>2. reasoning.text \o <<>> = reasoning.text
    BY <2>1, TextFacts
  <2>3. QED
    BY <2>2 DEF Seal, OpenReasoning
<1>2. Receiving /\ blk[b].sent < MaxFragments /\ TypeOK' /\ ~ finalized
  BY <1>1 DEF Fragment, Body, StreamInv, Receiving
<1>3. Now'.sent = Now.sent /\ FragmentsFit'
  <2>1. <<>> \in TextOf(b)
    BY DEF TextOf
  <2>2. Now'.sent = Now.sent \cup Range(<<>>) /\ FragmentsFit'
    BY <1>1, <1>2, <2>1, NewFragment
  <2>3. QED
    BY <2>2, TextFacts
<1>4. TypeOK /\ final = NoFinal /\ \A p \in DOMAIN tools : ~ tools[p].done
  BY <1>2, ReceivingFacts
<1>5. \A c \in Blocks : thought'[c].text = thought[c].text
  BY <1>1, <1>4 DEF TypeOK, Thought
<1> DEFINE m1 == StartedNow
           m2 == ReasoningOpened(m1)
<1>6. /\ Fits(m1) /\ m1 \in Moments
      /\ m1.started = TRUE /\ m1.verdict = "none" /\ m1.next = nextIndex
      /\ m1.message = message /\ m1.reasoning = reasoning /\ m1.tools = tools
      /\ m1.sent = Now.sent /\ m1.sealed = Sealed
  BY <1>2, StartedNowFields
<1> HIDE DEF m1
<1>7. Carries(m1, EnsureItem(reasoning, "reasoning"), m2)
  BY <1>6, ReasoningOpenedCarries, OpeningOf
<1>8. /\ m2.reasoning = [open |-> TRUE, index |-> IndexFor(reasoning), text |-> reasoning.text]
      /\ m2.next = NextAfter(reasoning) /\ m2.message = message
      /\ m2.started = TRUE /\ m2.verdict = "none" /\ m2.tools = tools
      /\ m2.sent = Now.sent
  BY <1>6, ReasoningOpenedFields DEF IndexFor, NextAfter
<1>9. Fits(m2)
  BY <1>7 DEF Carries
<1> HIDE DEF m2
<1>10. reasoning' = m2.reasoning
  BY <1>1, <1>8
<1>11. Carries(m2, <<>>, Now')
  <2>1. Now' \in Moments
    BY NowTypeNext DEF StreamInv
  <2>2. Now'.verdict = "none" /\ Now'.started = TRUE
    BY <1>1, <1>2, NowFieldsNext DEF Emit
  <2>3. m2.reasoning.open
    BY <1>8
  <2>4. /\ Now'.next = m2.next /\ Now'.message = m2.message
        /\ Now'.reasoning = m2.reasoning /\ Now'.tools = m2.tools /\ Now'.sent = m2.sent
    BY <1>1, <1>3, <1>8, <1>10, NowFieldsNext
  <2>5. QED
    BY <1>8, <1>9, <2>1, <2>2, <2>3, <2>4, SealedCarries
<1>12. Carries(m1, EnsureItem(reasoning, "reasoning"), Now')
  <2>1. Carries(m1, EnsureItem(reasoning, "reasoning") \o <<>>, Now')
    BY <1>7, <1>11, CarriesConcat
  <2>2. EnsureItem(reasoning, "reasoning") \o <<>> = EnsureItem(reasoning, "reasoning")
    BY DEF EnsureItem
  <2>3. QED
    BY <2>1, <2>2
<1>13. Carries(Now, pending', Now')
  BY <1>1, <1>2, <1>12, EmitCarries DEF m1
<1>14. FinalFits'
  BY <1>1, <1>2, <1>4, FinalSame
<1>15. ThoughtsFit'
  <2>1. Kept
    BY <1>1, <1>4, KeptSent DEF DeliveryInv
  <2>2. reasoning'.text = reasoning.text
    BY <1>1
  <2>3. QED
    BY <1>5, <2>1, <2>2, ThoughtsSame DEF DeliveryInv
<1>16. QED
  BY <1>1, <1>2, <1>3, <1>13, <1>14, <1>15, ReceivingStep

BothClosed(m) == ReasoningClosed(MessageClosed(m))

\* close_message_item and close_reasoning_item, one after the other.
LEMMA BothClosedCarries ==
    ASSUME NEW m, Fits(m), m.verdict = "none", TypeOK,
           m.message = message, m.reasoning = reasoning, m.sealed = Sealed
    PROVE  LET n == BothClosed(m)
           IN  /\ Carries(m, CloseMessage \o CloseReasoning, n)
               /\ Fits(n) /\ n \in Moments
               /\ n.message = [message EXCEPT !.open = FALSE]
               /\ n.reasoning = [reasoning EXCEPT !.open = FALSE]
               /\ NothingOpen(n)
               /\ n.message.text = message.text /\ n.reasoning.text = reasoning.text
               /\ n.started = m.started /\ n.next = m.next /\ n.tools = m.tools
               /\ n.sent = m.sent /\ n.sealed = Sealed /\ n.verdict = "none"
<1> DEFINE m2 == MessageClosed(m)
           m3 == ReasoningClosed(m2)
<1>1. m \in Moments
  BY DEF Fits
<1>2. Carries(m, CloseMessage, m2)
  BY ClosingMessageCarries, ClosingOf
<1>3. /\ m2 \in Moments
      /\ m2.message = [open |-> FALSE, index |-> message.index, text |-> message.text]
      /\ m2.started = m.started /\ m2.verdict = "none" /\ m2.next = m.next
      /\ m2.reasoning = reasoning /\ m2.tools = m.tools
      /\ m2.sent = m.sent /\ m2.sealed = Sealed
  BY <1>1, MessageClosedFields
<1>4. Fits(m2)
  BY <1>2 DEF Carries
<1> HIDE DEF m2
<1>5. Carries(m2, CloseReasoning, m3)
  <2>1. ClosingReasoning(m2) = CloseReasoning
    BY <1>3 DEF ClosingReasoning, CloseReasoning, ClosingTexts, ReasoningTexts
  <2>2. QED
    BY <1>3, <1>4, <2>1, ClosingReasoningCarries
<1>6. /\ m3 \in Moments
      /\ m3.reasoning = [open |-> FALSE, index |-> reasoning.index, text |-> reasoning.text]
      /\ m3.message = m2.message
      /\ m3.started = m.started /\ m3.verdict = "none" /\ m3.next = m.next
      /\ m3.tools = m.tools /\ m3.sent = m.sent /\ m3.sealed = Sealed
  BY <1>3, ReasoningClosedFields
<1>7. m3 = BothClosed(m)
  BY DEF BothClosed, m2
<1> HIDE DEF m3
<1>8. message \in Item /\ reasoning \in Item
  BY DEF TypeOK
<1>9. /\ m3.message = [message EXCEPT !.open = FALSE]
      /\ m3.reasoning = [reasoning EXCEPT !.open = FALSE]
  BY <1>3, <1>6, <1>8, ItemClosed
<1>10. NothingOpen(m3) /\ m3.message.text = message.text /\ m3.reasoning.text = reasoning.text
  BY <1>3, <1>6 DEF NothingOpen
<1>11. Carries(m, CloseMessage \o CloseReasoning, m3)
  BY <1>2, <1>5, CarriesConcat
<1>12. Fits(m3)
  BY <1>11 DEF Carries
<1>13. QED
  BY <1>6, <1>7, <1>9, <1>10, <1>11, <1>12

\* messageStop.
LEMMA MessageStopDelivers ==
    ASSUME DeliveryInv, StreamInv', MessageStop
    PROVE  DeliveryInv'
<1>1. /\ Body
      /\ Emit(CloseMessage \o CloseReasoning)
      /\ message' = [message EXCEPT !.open = FALSE]
      /\ reasoning' = [reasoning EXCEPT !.open = FALSE]
      /\ UNCHANGED <<blk, nextIndex, thought, tools, finalized, final, driver, client>>
  BY DEF MessageStop
<1>2. Receiving /\ TypeOK' /\ ~ finalized
  BY <1>1 DEF Body, StreamInv, Receiving
<1>3. TypeOK /\ \A p \in DOMAIN tools : ~ tools[p].done
  BY <1>2, ReceivingFacts
<1> DEFINE n == BothClosed(StartedNow)
<1>4. /\ Carries(StartedNow, CloseMessage \o CloseReasoning, n)
      /\ n \in Moments /\ n.message = message' /\ n.reasoning = reasoning'
      /\ n.reasoning.text = reasoning.text
      /\ n.started = TRUE /\ n.next = nextIndex /\ n.tools = tools
      /\ n.sent = Now.sent /\ n.sealed = Sealed /\ n.verdict = "none"
  BY <1>1, <1>2, <1>3, StartedNowFields, BothClosedCarries
<1> HIDE DEF n
<1>5. Now' = n
  <2>1. Now' \in Moments
    BY NowTypeNext DEF StreamInv
  <2>2. Now'.verdict = "none" /\ Now'.started = TRUE /\ Now'.sealed = Sealed
    BY <1>1, <1>2, NowFieldsNext, SealedSame DEF Emit
  <2>3. Now'.sent = Now.sent
    BY <1>1, SentSame
  <2>4. /\ Now'.next = n.next /\ Now'.message = n.message /\ Now'.reasoning = n.reasoning
        /\ Now'.tools = n.tools
    BY <1>1, <1>4, NowFieldsNext
  <2>5. QED
    BY <1>4, <2>1, <2>2, <2>3, <2>4, SameMoment
<1>6. Carries(Now, pending', Now')
  BY <1>1, <1>2, <1>4, <1>5, EmitCarries
<1>7. FragmentsFit'
  BY <1>1 DEF DeliveryInv, FragmentsFit
<1>8. FinalFits'
  BY <1>1, <1>2, <1>3, <1>4, FinalSame
<1>9. ThoughtsFit'
  BY <1>1, <1>4, KeptSame, ThoughtsSame DEF DeliveryInv
<1>10. QED
  BY <1>1, <1>2, <1>6, <1>7, <1>8, <1>9, ReceivingStep

\* contentBlockStart of a tool.
LEMMA ToolBlockStartDelivers ==
    ASSUME DeliveryInv, StreamInv', NEW b \in Blocks, ToolBlockStart(b)
    PROVE  DeliveryInv'
<1>1. PICK k \in ToolKinds :
        /\ Opened(b, k)
        /\ Emit(CloseMessage \o CloseReasoning \o
                IF k \in LateKinds THEN <<>> ELSE <<Plain("Added", k, nextIndex)>>)
        /\ message' = [message EXCEPT !.open = FALSE]
        /\ reasoning' = [reasoning EXCEPT !.open = FALSE]
        /\ tools' = Append(tools, [block |-> b, kind |-> k, args |-> "empty",
                                   index |-> nextIndex, closed |-> FALSE,
                                   done |-> FALSE])
        /\ nextIndex' = nextIndex + 1
  BY DEF ToolBlockStart
<1>2. /\ Receiving /\ TypeOK' /\ ~ finalized
      /\ blk' = [blk EXCEPT ![b].stage = "open", ![b].kind = k]
      /\ UNCHANGED <<thought, stopReason, finalized, final, driver, client>>
  BY <1>1 DEF Opened, Body, StreamInv, Receiving
<1>3. TypeOK /\ \A p \in DOMAIN tools : ~ tools[p].done
  BY <1>2, ReceivingFacts
<1> DEFINE t == [block |-> b, kind |-> k, args |-> "empty",
                 index |-> nextIndex, closed |-> FALSE, done |-> FALSE]
           n == BothClosed(StartedNow)
           o == ToolAdded(n, t)
<1>4. /\ Carries(StartedNow, CloseMessage \o CloseReasoning, n)
      /\ Fits(n) /\ n \in Moments /\ n.message = message' /\ n.reasoning = reasoning'
      /\ n.reasoning.text = reasoning.text
      /\ n.started = TRUE /\ n.next = nextIndex /\ n.tools = tools
      /\ n.sent = Now.sent /\ n.sealed = Sealed /\ n.verdict = "none"
  BY <1>1, <1>2, <1>3, StartedNowFields, BothClosedCarries
<1> HIDE DEF n
<1>5. t \in Tool /\ t.index = nextIndex /\ t.done = FALSE /\ t.kind = k
  BY <1>3 DEF Tool, TypeOK, ArgStates
<1>6. tools' = Append(tools, t)
  BY <1>1
<1>7. Announcing(t) = IF k \in LateKinds THEN <<>> ELSE <<Plain("Added", k, nextIndex)>>
  BY <1>5 DEF Announcing
<1> HIDE DEF t
<1>8. Carries(n, Announcing(t), o)
  BY <1>4, <1>5, ToolAddedCarries
<1>9. /\ o.tools = tools' /\ o.next = nextIndex' /\ o.message = n.message
      /\ o.reasoning = n.reasoning /\ o.started = n.started /\ o.sent = n.sent
      /\ o.sealed = n.sealed /\ o.verdict = n.verdict
  BY <1>1, <1>4, <1>6 DEF ToolAdded, Moments
<1>10. o \in Moments
  BY <1>8 DEF Carries, Fits
<1> HIDE DEF o
<1>11. Now' = o
  <2>1. Now' \in Moments
    BY NowTypeNext DEF StreamInv
  <2>2. Now'.verdict = "none" /\ Now'.started = TRUE /\ Now'.sealed = Sealed
    BY <1>1, <1>2, NowFieldsNext, SealedSame DEF Emit
  <2>3. Now'.sent = Now.sent
    <3>1. \A c \in Blocks : blk'[c].text = blk[c].text
      BY <1>2, <1>3 DEF TypeOK, Block
    <3>2. QED
      BY <3>1, SentSame
  <2>4. /\ Now'.next = o.next /\ Now'.message = o.message /\ Now'.reasoning = o.reasoning
        /\ Now'.tools = o.tools
    BY <1>4, <1>9, NowFieldsNext
  <2>5. /\ o.started = TRUE /\ o.sent = Now.sent /\ o.sealed = Sealed /\ o.verdict = "none"
    BY <1>4, <1>9
  <2>6. QED
    BY <1>10, <2>1, <2>2, <2>3, <2>4, <2>5, SameMoment
<1>12. Carries(StartedNow, (CloseMessage \o CloseReasoning) \o Announcing(t), o)
  BY <1>4, <1>8, CarriesConcat
<1>13. Carries(Now, pending', Now')
  BY <1>1, <1>2, <1>7, <1>11, <1>12, EmitCarries
<1>14. FragmentsFit'
  <2>1. \A c \in Blocks : blk'[c].text = blk[c].text /\ blk[c].sent <= blk'[c].sent
    BY <1>2, <1>3, MaxFragmentsAssumption DEF TypeOK, Block
  <2>2. QED
    BY <1>2, <1>3, <2>1, FragmentsSame DEF DeliveryInv
<1>15. FinalFits'
  <2>1. \A p \in DOMAIN tools' : ~ tools'[p].done
    <3>1. tools \in Seq(Tool)
      BY <1>3 DEF TypeOK
    <3>2. ASSUME NEW p \in DOMAIN tools' PROVE ~ tools'[p].done
      <4>1. p \in 1 .. Len(tools) + 1 /\ (p \in DOMAIN tools \/ p = Len(tools) + 1)
        BY <1>6, <3>1, <3>2
      <4>2. CASE p \in DOMAIN tools
        BY <1>3, <1>6, <3>1, <4>2
      <4>3. CASE p = Len(tools) + 1
        BY <1>5, <1>6, <3>1, <4>3
      <4>4. QED
        BY <4>1, <4>2, <4>3
    <3>3. QED
      BY <3>2
  <2>2. QED
    BY <1>2, <2>1, FinalSame
<1>16. ThoughtsFit'
  <2>1. Kept
    BY <1>1, <1>2, <1>3, KeptOpened DEF Opened, DeliveryInv
  <2>2. reasoning'.text = reasoning.text
    BY <1>4
  <2>3. QED
    BY <1>2, <2>1, <2>2, ThoughtsSame DEF DeliveryInv
<1>17. QED
  BY <1>2, <1>13, <1>14, <1>15, <1>16, ReceivingStep

-----------------------------------------------------------------------------
(* finish and fail *)

\* What is carried to a client is a vector, and no verdict comes without an event.
LEMMA CarriedEvents ==
    ASSUME DeliveryInv, Receiving, NEW s, NEW n, Carries(Now, s, n)
    PROVE  /\ s \in Seq(Event)
           /\ \A e : Append(s, e) = s \o <<e>>
           /\ n.verdict # "none" => s # <<>>
<1>1. View \in Views /\ Promised(Now, View) /\ Now.verdict = "none"
  BY ReceivingFacts
<1>2. PICK w \in Views : Path(View, s, w) /\ Promised(n, w)
  BY <1>1 DEF Carries
<1>3. s \in Seq(Event)
  BY <1>2 DEF Path
<1>4. ASSUME s = <<>> PROVE n.verdict = "none"
  <2>1. View = w
    BY <1>2, <1>4, PathEnds
  <2>2. QED
    BY <1>1, <1>2, <2>1 DEF Promised
<1>5. \A e : Append(s, e) = s \o <<e>>
  BY <1>3
<1>6. QED
  BY <1>3, <1>4, <1>5

\* The closing helpers emit events.
LEMMA ClosingTypes ==
    ASSUME TypeOK
    PROVE  CloseMessage \in Seq(Event) /\ CloseReasoning \in Seq(Event)
BY HelpersHarmless DEF Harmless

\* Ended changes one field.
LEMMA EndedFields ==
    ASSUME NEW m \in Moments, NEW t
    PROVE  LET n == Ended(m, t)
           IN  /\ n.verdict = t
               /\ n.started = m.started /\ n.next = m.next /\ n.message = m.message
               /\ n.reasoning = m.reasoning /\ n.tools = m.tools /\ n.sent = m.sent
               /\ n.sealed = m.sealed
BY DEF Ended, Moments

\* fail: one response.failed, the items as they are.
LEMMA FailDelivers ==
    ASSUME DeliveryInv, StreamInv', Fail
    PROVE  DeliveryInv'
<1>1. /\ Receiving /\ finalized' = TRUE
      /\ pending' = <<Plain("failed", "none", 0)>>
      /\ UNCHANGED <<upstream, started, nextIndex, message, reasoning, thought,
                     tools, stopReason, final, driver, client>>
  BY DEF Fail
<1>2. /\ Fits(Now) /\ Now \in Moments /\ Now.verdict = "none"
      /\ final = NoFinal /\ \A p \in DOMAIN tools : ~ tools[p].done
  BY <1>1, ReceivingFacts
<1> DEFINE n == Ended(Now, "failed")
<1>3. Carries(Now, pending', n)
  <2>1. EndAllowed(Now, "failed")
    BY <1>2, NowFields DEF EndAllowed
  <2>2. "failed" \in Wire!Terminals
    BY DEF Wire!Terminals
  <2>3. QED
    BY <1>1, <1>2, <2>1, <2>2, EndedCarries
<1>4. /\ n.verdict = "failed"
      /\ n.started = Now.started /\ n.next = Now.next /\ n.message = Now.message
      /\ n.reasoning = Now.reasoning /\ n.tools = Now.tools /\ n.sent = Now.sent
      /\ n.sealed = Now.sealed
  BY <1>2, EndedFields
<1>5. n \in Moments
  BY <1>3 DEF Carries, Fits
<1> HIDE DEF n
<1>6. Now' = n
  <2>1. Now' \in Moments
    BY NowTypeNext DEF StreamInv
  <2>2. Now'.verdict = "failed"
    BY <1>1, <1>2 DEF Now, NoFinal
  <2>3. Now'.sent = Now.sent /\ Now'.sealed = Sealed
    BY <1>1, SentSame, SealedSame, NowFieldsNext DEF upstream
  <2>4. QED
    BY <1>1, <1>4, <1>5, <2>1, <2>2, <2>3, NowFields, NowFieldsNext, SameMoment
<1>7. FragmentsFit'
  BY <1>1 DEF DeliveryInv, FragmentsFit, upstream
<1>8. FinalFits'
  <2>1. final'.status = "none"
    BY <1>1, <1>2 DEF NoFinal
  <2>2. QED
    BY <1>1, <2>1 DEF FinalFits
<1>9. ThoughtsFit'
  BY <1>1, KeptSame, ThoughtsSame DEF DeliveryInv, upstream
<1>10. QED
  BY <1>1, <1>3, <1>6, <1>7, <1>8, <1>9, ReceivingStep

\* finish, once it is known what the events before it make of the moment.
LEMMA FinishDelivers ==
    ASSUME DeliveryInv, StreamInv', Receiving, NEW before, Finish(before),
           NEW m, Carries(Now, before, m),
           m.started = started', m.verdict = "none", m.next = nextIndex,
           m.message = message, m.reasoning = reasoning, m.tools = tools,
           m.sent = Now.sent, m.sealed = Sealed
    PROVE  DeliveryInv'
<1> DEFINE closing == before \o CloseMessage \o CloseReasoning
           n == BothClosed(m)
<1>1. /\ message' = [message EXCEPT !.open = FALSE]
      /\ reasoning' = [reasoning EXCEPT !.open = FALSE]
      /\ finalized' = TRUE
      /\ UNCHANGED <<upstream, nextIndex, thought, stopReason, driver, client>>
  BY DEF Finish
<1>2. /\ TypeOK /\ final = NoFinal /\ \A p \in DOMAIN tools : ~ tools[p].done
      /\ Fits(m)
  BY ReceivingFacts DEF Carries
<1>3. /\ Carries(m, CloseMessage \o CloseReasoning, n)
      /\ Fits(n) /\ n \in Moments /\ NothingOpen(n)
      /\ n.message = message' /\ n.reasoning = reasoning'
      /\ n.message.text = message.text /\ n.reasoning.text = reasoning.text
      /\ n.started = started' /\ n.next = nextIndex /\ n.tools = tools
      /\ n.sent = Now.sent /\ n.sealed = Sealed /\ n.verdict = "none"
  BY <1>1, <1>2, BothClosedCarries
<1> HIDE DEF n
<1>4. Carries(Now, closing, n)
  <2>1. Carries(Now, before \o (CloseMessage \o CloseReasoning), n)
    BY <1>3, CarriesConcat
  <2>2. closing = before \o (CloseMessage \o CloseReasoning)
    <3>1. before \in Seq(Event)
      BY CarriedEvents
    <3>2. CloseMessage \in Seq(Event) /\ CloseReasoning \in Seq(Event)
      BY <1>2, ClosingTypes
    <3>3. QED
      BY <3>1, <3>2
  <2>3. QED
    BY <2>1, <2>2
<1>5. \A e : Append(closing, e) = closing \o <<e>>
  BY <1>4, CarriedEvents
<1>6. closing \in Seq(Event)
  BY <1>4, CarriedEvents
<1>7. Now' \in Moments /\ Now'.sent = Now.sent /\ Now'.sealed = Sealed /\ Sealed' = Sealed
  BY <1>1, NowTypeNext, SentSame, SealedSame, NowFieldsNext DEF upstream, StreamInv
<1>8. ThoughtsFit'
  BY <1>1, <1>3, KeptSame, ThoughtsSame DEF DeliveryInv, upstream
<1>9. FragmentsFit'
  BY <1>1 DEF DeliveryInv, FragmentsFit, upstream
<1>10. {"completed", "incomplete", "failed"} = Wire!Terminals
  BY DEF Wire!Terminals
<1>11. ~ message'.open /\ ~ reasoning'.open
       /\ message'.text = message.text /\ reasoning'.text = reasoning.text
  BY <1>3 DEF NothingOpen
<1>12. /\ FinalResponse.reasoning = [text |-> Joined([b \in Blocks |-> thought[b].text]),
                                   env |-> Sealed]
       /\ FinalResponse.message = message.text
       /\ FinalResponse.status = IF IsIncompleteStop THEN "incomplete" ELSE "completed"
       /\ FinalResponse.tools =
             {[index |-> tools[p].index, status |-> FinalToolStatus(tools[p].kind)] :
                 p \in {q \in DOMAIN tools : ParsesAsJson(tools[q].args)}}
  BY DEF FinalResponse
<1>13. CASE IsIncompleteStop
  <2>1. /\ pending' = closing \o <<Plain("incomplete", "none", 0)>>
        /\ final' = FinalResponse /\ tools' = tools
    BY <1>5, <1>13 DEF Finish
  <2> DEFINE o == Ended(n, "incomplete")
  <2>2. Carries(n, <<Plain("incomplete", "none", 0)>>, o)
    BY <1>3, <1>10, EndedCarries DEF EndAllowed
  <2>3. /\ o.verdict = "incomplete"
        /\ o.started = n.started /\ o.next = n.next /\ o.message = n.message
        /\ o.reasoning = n.reasoning /\ o.tools = n.tools /\ o.sent = n.sent
        /\ o.sealed = n.sealed
    BY <1>3, EndedFields
  <2>4. o \in Moments
    BY <2>2 DEF Carries, Fits
  <2> HIDE DEF o, closing
  <2>5. Carries(Now, pending', o)
    BY <1>4, <2>1, <2>2, CarriesConcat
  <2>6. Now' = o
    <3>1. Now'.verdict = "incomplete"
      BY <1>1, <1>12, <1>13, <2>1 DEF Now
    <3>2. /\ Now'.next = o.next /\ Now'.message = o.message /\ Now'.started = o.started
          /\ Now'.reasoning = o.reasoning /\ Now'.tools = o.tools
      BY <1>1, <1>3, <2>1, <2>3, NowFieldsNext
    <3>3. Now'.sent = o.sent /\ Now'.sealed = o.sealed
      BY <1>3, <1>7, <2>3
    <3>4. QED
      BY <1>7, <2>3, <2>4, <3>1, <3>2, <3>3, SameMoment
  <2>7. pending' # <<>>
    BY <2>3, <2>5, CarriedEvents
  <2>8. FinalFits'
    <3>1. final'.status = "incomplete"
      BY <1>12, <1>13, <2>1
    <3>2. final'.message = message'.text
          /\ final'.reasoning = [text |-> Joined([b \in Blocks |-> thought'[b].text]),
                                 env |-> Sealed']
      BY <1>1, <1>7, <1>11, <1>12, <2>1
    <3>3. QED
      BY <1>1, <1>11, <3>1, <3>2 DEF FinalFits
  <2>9. QED
    BY <1>1, <1>8, <1>9, <2>5, <2>6, <2>7, <2>8, ReceivingStep
<1>14. CASE ~ IsIncompleteStop /\ ToolsReady
  <2>1. /\ pending' = closing \o FinalizeTools \o <<Plain("completed", "none", 0)>>
        /\ final' = FinalResponse
        /\ tools' = [p \in DOMAIN tools |-> [tools[p] EXCEPT !.done = TRUE]]
    BY <1>14 DEF Finish
  <2> DEFINE d == ToolsDone(n)
             o == Ended(d, "completed")
  <2>2. Carries(n, FinalizeTools, d)
    <3>1. FinalizeTools = Finalizing(n)
      BY <1>3 DEF FinalizeTools, Finalizing
    <3>2. QED
      BY <1>2, <1>3, <3>1, FinalizingCarries
  <2>3. /\ d \in Moments
        /\ \A p \in DOMAIN d.tools : d.tools[p].done
        /\ d.started = n.started /\ d.next = n.next /\ d.message = n.message
        /\ d.reasoning = n.reasoning /\ d.sent = n.sent /\ d.sealed = n.sealed
        /\ d.verdict = "none"
    BY <1>3, ToolsDoneFields
  <2>4. d.tools = tools'
    BY <1>3, <2>1 DEF ToolsDone, Moments
  <2>5. Fits(d)
    BY <2>2 DEF Carries
  <2> HIDE DEF d
  <2>6. NothingOpen(d)
    BY <1>3, <2>3 DEF NothingOpen
  <2>7. Carries(d, <<Plain("completed", "none", 0)>>, o)
    BY <1>10, <2>3, <2>5, <2>6, EndedCarries DEF EndAllowed
  <2>8. /\ o.verdict = "completed"
        /\ o.started = d.started /\ o.next = d.next /\ o.message = d.message
        /\ o.reasoning = d.reasoning /\ o.tools = d.tools /\ o.sent = d.sent
        /\ o.sealed = d.sealed
    BY <2>3, EndedFields
  <2>9. o \in Moments
    BY <2>7 DEF Carries, Fits
  <2> HIDE DEF o, closing
  <2>10. Carries(Now, pending', o)
    BY <1>4, <2>1, <2>2, <2>7, CarriesConcat
  <2>11. Now' = o
    <3>1. Now'.verdict = "completed"
      BY <1>1, <1>12, <1>14, <2>1 DEF Now
    <3>2. /\ Now'.next = o.next /\ Now'.message = o.message /\ Now'.started = o.started
          /\ Now'.reasoning = o.reasoning /\ Now'.tools = o.tools
      BY <1>1, <1>3, <2>3, <2>4, <2>8, NowFieldsNext
    <3>3. Now'.sent = o.sent /\ Now'.sealed = o.sealed
      BY <1>3, <1>7, <2>3, <2>8
    <3>4. QED
      BY <1>7, <2>8, <2>9, <3>1, <3>2, <3>3, SameMoment
  <2>12. pending' # <<>>
    BY <2>8, <2>10, CarriedEvents
  <2>13. FinalFits'
    <3>1. final'.status = "completed"
      BY <1>12, <1>14, <2>1
    <3>2. final'.message = message'.text
          /\ final'.reasoning = [text |-> Joined([b \in Blocks |-> thought'[b].text]),
                                 env |-> Sealed']
      BY <1>1, <1>7, <1>11, <1>12, <2>1
    <3>3. /\ DOMAIN tools' = DOMAIN tools
          /\ \A p \in DOMAIN tools : tools'[p].done /\ tools'[p].index = tools[p].index
      <4>1. d = ToolsDone(n) /\ n \in Moments /\ n.tools = tools
        BY <1>3 DEF d
      <4>2. /\ DOMAIN d.tools = DOMAIN n.tools
            /\ \A p \in DOMAIN n.tools : d.tools[p].done = TRUE
                                        /\ d.tools[p].index = n.tools[p].index
        BY <4>1, ToolsDoneFields
      <4>3. QED
        BY <2>4, <4>1, <4>2
    <3>4. {t.index : t \in final'.tools} = {tools'[p].index : p \in DOMAIN tools'}
      <4>1. \A q \in DOMAIN tools : ParsesAsJson(tools[q].args)
        BY <1>14 DEF ToolsReady
      <4>2. final'.tools = {[index |-> tools[p].index,
                             status |-> FinalToolStatus(tools[p].kind)] : p \in DOMAIN tools}
        BY <1>12, <2>1, <4>1
      <4>3. {t.index : t \in final'.tools} = {tools[p].index : p \in DOMAIN tools}
        <5> DEFINE g(p) == [index |-> tools[p].index, status |-> FinalToolStatus(tools[p].kind)]
        <5>1. \A p : g(p).index = tools[p].index
          OBVIOUS
        <5>2. final'.tools = {g(p) : p \in DOMAIN tools}
          BY <4>2
        <5> HIDE DEF g
        <5>3. QED
          BY <5>1, <5>2
      <4>4. QED
        BY <3>3, <4>3
    <3>5. \A p \in DOMAIN tools' : tools'[p].done
      BY <3>3
    <3>6. QED
      BY <1>1, <1>11, <3>1, <3>2, <3>4, <3>5 DEF FinalFits
  <2>14. QED
    BY <1>1, <1>8, <1>9, <2>10, <2>11, <2>12, <2>13, ReceivingStep
<1>15. CASE ~ IsIncompleteStop /\ ~ ToolsReady
  <2>1. /\ pending' = closing \o <<Plain("failed", "none", 0)>>
        /\ final' = final /\ tools' = tools
    BY <1>5, <1>15 DEF Finish
  <2> DEFINE o == Ended(n, "failed")
  <2>2. Carries(n, <<Plain("failed", "none", 0)>>, o)
    BY <1>2, <1>3, <1>10, EndedCarries DEF EndAllowed
  <2>3. /\ o.verdict = "failed"
        /\ o.started = n.started /\ o.next = n.next /\ o.message = n.message
        /\ o.reasoning = n.reasoning /\ o.tools = n.tools /\ o.sent = n.sent
        /\ o.sealed = n.sealed
    BY <1>3, EndedFields
  <2>4. o \in Moments
    BY <2>2 DEF Carries, Fits
  <2> HIDE DEF o, closing
  <2>5. Carries(Now, pending', o)
    BY <1>4, <2>1, <2>2, CarriesConcat
  <2>6. Now' = o
    <3>1. Now'.verdict = "failed"
      BY <1>1, <1>2, <2>1 DEF Now, NoFinal
    <3>2. /\ Now'.next = o.next /\ Now'.message = o.message /\ Now'.started = o.started
          /\ Now'.reasoning = o.reasoning /\ Now'.tools = o.tools
      BY <1>1, <1>3, <2>1, <2>3, NowFieldsNext
    <3>3. Now'.sent = o.sent /\ Now'.sealed = o.sealed
      BY <1>3, <1>7, <2>3
    <3>4. QED
      BY <1>7, <2>3, <2>4, <3>1, <3>2, <3>3, SameMoment
  <2>7. pending' # <<>>
    BY <2>3, <2>5, CarriedEvents
  <2>8. FinalFits'
    <3>1. final'.status = "none"
      BY <1>2, <2>1 DEF NoFinal
    <3>2. QED
      BY <1>1, <1>11, <3>1 DEF FinalFits
  <2>9. QED
    BY <1>1, <1>8, <1>9, <2>5, <2>6, <2>7, <2>8, ReceivingStep
<1>16. QED
  BY <1>13, <1>14, <1>15

\* metadata finishes after ensure_started.
LEMMA MetadataDelivers ==
    ASSUME DeliveryInv, StreamInv', Metadata
    PROVE  DeliveryInv'
BY StartedNowFields, FinishDelivers DEF Metadata

\* The end of the stream finishes without it.
LEMMA UpstreamEofDelivers ==
    ASSUME DeliveryInv, StreamInv', UpstreamEof
    PROVE  DeliveryInv'
<1>1. Receiving /\ Finish(<<>>) /\ started' = started
  BY DEF UpstreamEof
<1>2. Fits(Now) /\ Now.verdict = "none"
  BY <1>1, ReceivingFacts
<1>3. Carries(Now, <<>>, Now)
  BY <1>2, CarriesNothing
<1>4. QED
  BY <1>1, <1>2, <1>3, NowFields, FinishDelivers

-----------------------------------------------------------------------------
(* The driver yields, or is dropped *)

\* Delivering an event is what After says of it.
LEMMA DeliverIsAfter ==
    ASSUME View \in Views, NEW e, Deliver(e)
    PROVE  View' = After(e, View)
<1>1. DOMAIN lastDone = {"message", "reasoning"}
  BY DEF View, Views
<1>2. QED
  BY <1>1 DEF Deliver, After, View

\* What is left when the machine is left alone.
LEMMA MachineSame ==
    ASSUME DeliveryInv, UNCHANGED <<upstream, machine>>
    PROVE  Now' = Now /\ FragmentsFit' /\ ThoughtsFit' /\ FinalFits'
<1>1. Now' = Now /\ Sealed' = Sealed
  BY DEF Now, Sealed, upstream, machine
<1>2. FragmentsFit'
  BY DEF DeliveryInv, FragmentsFit, upstream
<1>3. FinalFits'
  BY <1>1 DEF DeliveryInv, FinalFits, machine
<1>4. ThoughtsFit'
  BY KeptSame, ThoughtsSame DEF DeliveryInv, upstream, machine
<1>5. QED
  BY <1>1, <1>2, <1>3, <1>4

\* The event that is yielded is legal.
LEMMA PendingLeads ==
    ASSUME DeliveryInv, Yield
    PROVE  /\ Leads(Head(pending), View, View')
           /\ View' \in Views
           /\ \E w \in Views : Path(View', Tail(pending), w) /\ Promised(Now, w)
<1>1. driver = "running" /\ pending # <<>> /\ Deliver(Head(pending))
  BY DEF Yield
<1>2. PICK w \in Views : Path(View, pending, w) /\ Promised(Now, w)
  BY <1>1 DEF DeliveryInv, PendingFits
<1>3. PICK v \in Views : Leads(Head(pending), View, v) /\ Path(v, Tail(pending), w)
  BY <1>1, <1>2, PathHead
<1>4. View \in Views
  BY <1>2 DEF Path, StreamInv
<1>5. View' = v
  BY <1>1, <1>3, <1>4, DeliverIsAfter DEF Leads
<1>6. QED
  BY <1>2, <1>3, <1>5

\* One event on its way less.
LEMMA YieldDelivers ==
    ASSUME DeliveryInv, StreamInv', Yield
    PROVE  DeliveryInv'
<1>1. /\ driver = "running" /\ pending' = Tail(pending)
      /\ driver' = IF finalized /\ Tail(pending) = <<>> THEN "ended" ELSE driver
      /\ UNCHANGED <<upstream, machine>> /\ finalized' = finalized
  BY DEF Yield, machine
<1>2. Now' = Now /\ FragmentsFit' /\ ThoughtsFit' /\ FinalFits'
  BY <1>1, MachineSame
<1>3. PICK w \in Views : Path(View', Tail(pending), w) /\ Promised(Now, w)
  BY PendingLeads
<1>4. PendingFits'
  BY <1>1, <1>2, <1>3 DEF PendingFits
<1>5. DriverFits'
  BY <1>1 DEF DriverFits
<1>6. QED
  BY <1>2, <1>4, <1>5 DEF DeliveryInv

\* A client that leaves has seen no terminal event.
LEMMA ClientDropDelivers ==
    ASSUME DeliveryInv, StreamInv', ClientDrop
    PROVE  DeliveryInv'
<1>1. /\ driver = "running" /\ driver' = "dropped"
      /\ UNCHANGED <<upstream, machine, client>>
  BY DEF ClientDrop
<1>2. Now' = Now /\ FragmentsFit' /\ ThoughtsFit' /\ FinalFits'
  BY <1>1, MachineSame
<1>3. PICK w \in Views : Path(View, pending, w) /\ Promised(Now, w)
  BY <1>1 DEF DeliveryInv, PendingFits
<1>4. terminal = "none"
  <2>1. CASE pending = <<>>
    <3>1. View = w /\ ~ finalized
      BY <1>1, <1>3, <2>1, PathEnds DEF DeliveryInv, DriverFits
    <3>2. w.terminal = "none"
      BY <1>3, <3>1, NowFields DEF Promised
    <3>3. QED
      BY <3>1, <3>2 DEF View
  <2>2. CASE pending # <<>>
    <3>1. \E v \in Views : Leads(Head(pending), View, v)
      BY <1>3, <2>2, PathHead
    <3>2. QED
      BY <3>1 DEF Leads, Legal, View
  <2>3. QED
    BY <2>1, <2>2
<1>5. PendingFits' /\ DriverFits'
  BY <1>1, <1>4 DEF PendingFits, DriverFits, client
<1>6. QED
  BY <1>2, <1>5 DEF DeliveryInv

\* The invariant holds at first.
LEMMA DeliveryInvInit == Init => DeliveryInv
<1> SUFFICES ASSUME Init PROVE DeliveryInv
  OBVIOUS
<1>1. StreamInv
  BY StreamInvInit
<1>2. /\ \A b \in Blocks : blk[b].text = {}
      /\ \A b \in Blocks : thought[b].text = <<>> /\ thought[b].seen = "none"
      /\ \A b \in Blocks : blk[b].kind = "text"
      /\ started = FALSE /\ nextIndex = 0 /\ tools = <<>> /\ finalized = FALSE
      /\ message = [open |-> FALSE, index |-> 0, text |-> <<>>]
      /\ reasoning = [open |-> FALSE, index |-> 0, text |-> <<>>]
      /\ final = NoFinal /\ driver = "running" /\ pending = <<>>
  BY DEF Init, UpstreamInit, MachineInit
<1>3. /\ envelope = "none" /\ terminal = "none"
      /\ item = [i \in {} |-> [kind |-> "content", phase |-> "done"]]
      /\ streamed = [i \in {} |-> <<>>]
      /\ lastDone = [message |-> Nothing, reasoning |-> Nothing]
  BY DEF Init, ClientInit, Wire!WireInit
<1>4. Sealed = {} /\ UNION {blk[b].text : b \in Blocks} = {}
  BY <1>2 DEF Sealed
<1>5. Now \in Moments
  BY <1>1, NowType DEF StreamInv
<1>6. Now.sent = {} /\ Now.sealed = {} /\ Now.tools = <<>> /\ Now.started = FALSE
      /\ Now.next = 0 /\ Now.verdict = "none"
      /\ ~ Now.message.open /\ ~ Now.reasoning.open
      /\ Now.message.text = <<>> /\ Now.reasoning.text = <<>>
  BY <1>2, <1>4, NowFields
<1>7. Fits(Now)
  BY <1>5, <1>6 DEF Fits, IndicesFit
<1>8. View \in Views
  <2>1. item \in Shown
    <3>1. item \in [{} -> [kind : Wire!ItemKinds, phase : Wire!Phases]]
      BY <1>3
    <3>2. QED
      BY <3>1 DEF Shown
  <2>2. streamed \in Streams
    <3>1. streamed \in [{} -> Texts]
      BY <1>3
    <3>2. QED
      BY <3>1 DEF Streams
  <2>3. lastDone \in [message : Whole, reasoning : Whole]
    BY <1>3, TextFacts DEF Nothing, Whole
  <2>4. QED
    BY <1>3, <2>1, <2>2, <2>3 DEF View, Views
<1>9. Promised(Now, View)
  <2>1. DOMAIN View.item = {} /\ DOMAIN View.streamed = {}
        /\ View.envelope = "none" /\ View.terminal = "none"
        /\ View.lastDone.message.text = <<>> /\ View.lastDone.reasoning = Nothing
    BY <1>3 DEF View, Nothing
  <2>2. ItemsPromised(Now, View.item)
    BY <1>6, <2>1 DEF ItemsPromised
  <2>3. StreamedPromised(Now.sent, View.streamed)
    BY <1>6, <2>1 DEF StreamedPromised
  <2>4. WholePromised(Now, View.lastDone)
    BY <1>6, <2>1 DEF WholePromised, Nothing
  <2>5. QED
    BY <1>6, <2>1, <2>2, <2>3, <2>4 DEF Promised
<1>10. PendingFits
  BY <1>2, <1>8, <1>9, PathEmpty DEF PendingFits
<1>11. DriverFits /\ FragmentsFit
  BY <1>2 DEF DriverFits, FragmentsFit
<1>12. FinalFits
  BY <1>2 DEF FinalFits, NoFinal
<1>13. ThoughtsFit
  <2> DEFINE f == [b \in Blocks |-> thought[b].text]
  <2>1. f \in [Blocks -> Texts] /\ \A b \in Blocks : f[b] = <<>>
    BY <1>2, TextFacts
  <2> HIDE DEF f
  <2>2. reasoning.text = Joined(f)
    BY <1>2, <2>1, JoinedNothing
  <2>3. \A b \in Blocks : thought[b].text = Among(reasoning.text, FragmentsOf(b))
    BY <1>2, AmongEmpty
  <2>4. QED
    BY <1>2, <2>2, <2>3 DEF ThoughtsFit, f
<1>14. QED
  BY <1>1, <1>7, <1>10, <1>11, <1>12, <1>13 DEF DeliveryInv

\* Every step keeps it.
LEMMA DeliveryInvNext == DeliveryInv /\ [Next]_vars => DeliveryInv'
<1> SUFFICES ASSUME DeliveryInv, [Next]_vars PROVE DeliveryInv'
  OBVIOUS
<1>1. StreamInv'
  BY StreamInvNext DEF DeliveryInv
<1>2. CASE MessageStart
  BY <1>1, <1>2, MessageStartDelivers
<1>3. CASE \E b \in Blocks : ContentBlockStart(b) \/ ToolBlockStart(b)
  BY <1>1, <1>3, ContentBlockStartDelivers, ToolBlockStartDelivers
<1>4. CASE \E b \in Blocks : TextDelta(b) \/ EmptyReasoningText(b) \/ ReasoningText(b)
  BY <1>1, <1>4, TextDeltaDelivers, EmptyReasoningTextDelivers, ReasoningTextDelivers
<1>5. CASE \E b \in Blocks : ReasoningSignature(b) \/ ReasoningRedacted(b) \/ ToolInput(b)
  BY <1>1, <1>5, SealDelivers, ToolInputDelivers DEF ReasoningSignature, ReasoningRedacted
<1>6. CASE \E b \in Blocks : ContentBlockStop(b)
  BY <1>1, <1>6, ContentBlockStopDelivers
<1>7. CASE MessageStop
  BY <1>1, <1>7, MessageStopDelivers
<1>8. CASE Metadata \/ UpstreamEof
  BY <1>1, <1>8, MetadataDelivers, UpstreamEofDelivers
<1>9. CASE UpstreamError \/ IdleTimeout
  BY <1>1, <1>9, FailDelivers DEF UpstreamError, IdleTimeout
<1>10. CASE Yield
  BY <1>1, <1>10, YieldDelivers
<1>11. CASE ClientDrop
  BY <1>1, <1>11, ClientDropDelivers
<1>12. CASE UNCHANGED vars
  <2>1. UNCHANGED <<upstream, machine>> /\ View' = View
        /\ UNCHANGED <<driver, pending, terminal, finalized>>
    BY <1>12 DEF vars, client, View, machine
  <2>2. Now' = Now /\ FragmentsFit' /\ ThoughtsFit' /\ FinalFits'
    BY <2>1, MachineSame
  <2>3. PendingFits' /\ DriverFits'
    BY <2>1, <2>2 DEF DeliveryInv, PendingFits, DriverFits
  <2>4. QED
    BY <1>1, <2>2, <2>3 DEF DeliveryInv
<1>13. QED
  BY <1>2, <1>3, <1>4, <1>5, <1>6, <1>7, <1>8, <1>9, <1>10, <1>11, <1>12
  DEF Next, UpstreamEvent
-----------------------------------------------------------------------------
(* What the client is promised *)

\* An answered client has everything the machine owes it.
LEMMA AnsweredHasAll ==
    ASSUME DeliveryInv, Answered
    PROVE  /\ Promised(Now, View) /\ View \in Views
           /\ final.status = terminal /\ finalized
<1>1. terminal # "none" /\ terminal # "failed"
  BY DEF Answered
<1>2. driver # "dropped"
  BY <1>1 DEF DeliveryInv, PendingFits
<1>3. PICK w \in Views : Path(View, pending, w) /\ Promised(Now, w)
  BY <1>2 DEF DeliveryInv, PendingFits
<1>4. pending = <<>>
  <2>1. SUFFICES ASSUME pending # <<>> PROVE FALSE
    OBVIOUS
  <2>2. \E v \in Views : Leads(Head(pending), View, v)
    BY <1>3, <2>1, PathHead
  <2>3. QED
    BY <1>1, <2>2 DEF Leads, Legal, View
<1>5. View = w
  BY <1>3, <1>4, PathEnds
<1>6. terminal = Now.verdict
  BY <1>3, <1>5 DEF Promised, View
<1>7. finalized /\ final.status = terminal
  BY <1>1, <1>6 DEF Now
<1>8. QED
  BY <1>3, <1>5, <1>7

\* The Response of the terminal event is rebuilt from accumulators of its own
\* (build_final_response).  It has the last message, the sealed envelope of
\* the last reasoning item and, on completion, exactly the calls that are
\* done; its reasoning text is that of the last reasoning item regrouped by
\* block, and the same as it unless the upstream went back to an earlier block.
THEOREM FinalAgrees == Spec => []FinalAgreesWithStream
<1>1. Spec => []DeliveryInv
  BY DeliveryInvInit, DeliveryInvNext, PTL DEF Spec
<1>2. DeliveryInv => FinalAgreesWithStream
  <2> SUFFICES ASSUME DeliveryInv, Answered
               PROVE  /\ lastDone.message.text = final.message
                      /\ lastDone.reasoning.env = final.reasoning.env
                      /\ final.reasoning.text = ByBlock(lastDone.reasoning.text)
                      /\ ~ ReasoningOverlaps =>
                            final.reasoning.text = lastDone.reasoning.text
                      /\ terminal = "completed" =>
                            {i \in DOMAIN item : CallDone(i)} = {t.index : t \in final.tools}
    BY DEF FinalAgreesWithStream
  <2>1. /\ Promised(Now, View) /\ View \in Views
        /\ final.status = terminal /\ final.status # "none"
    BY AnsweredHasAll DEF Answered
  <2>2. /\ ~ message.open /\ ~ reasoning.open
        /\ final.message = message.text
        /\ final.reasoning = [text |-> Joined([b \in Blocks |-> thought[b].text]),
                              env |-> Sealed]
    BY <2>1 DEF DeliveryInv, FinalFits
  <2>3. WholePromised(Now, lastDone) /\ ItemsPromised(Now, item)
    BY <2>1 DEF Promised, View
  <2>4. /\ lastDone.message.text = final.message
        /\ lastDone.reasoning.env = final.reasoning.env
        /\ final.reasoning.text = ByBlock(lastDone.reasoning.text)
        /\ ~ ReasoningOverlaps => final.reasoning.text = lastDone.reasoning.text
    <3>1. lastDone.reasoning = [text |-> reasoning.text, env |-> Sealed]
          /\ lastDone.message.text = message.text
      BY <2>2, <2>3, NowFields DEF WholePromised
    <3>2. ThoughtsFit
      BY DEF DeliveryInv
    <3>3. [b \in Blocks |-> thought[b].text]
             = [b \in Blocks |-> Among(reasoning.text, FragmentsOf(b))]
      BY <3>2 DEF ThoughtsFit
    <3>4. ByBlock(reasoning.text) = Joined([b \in Blocks |-> thought[b].text])
      BY <3>3 DEF ByBlock
    <3>5. QED
      BY <2>2, <3>1, <3>2, <3>4 DEF ThoughtsFit
  <2>5. ASSUME terminal = "completed"
        PROVE  {i \in DOMAIN item : CallDone(i)} = {t.index : t \in final.tools}
    <3>1. /\ \A p \in DOMAIN tools : tools[p].done
          /\ {t.index : t \in final.tools} = {tools[p].index : p \in DOMAIN tools}
      BY <2>1, <2>5 DEF DeliveryInv, FinalFits
    <3>2. \A p \in DOMAIN tools : tools[p].kind \in ToolKinds
      BY ToolType DEF DeliveryInv, StreamInv, Tool
    <3>3. \A p \in DOMAIN tools : /\ tools[p].index \in DOMAIN item
                                  /\ item[tools[p].index] = CallItem(tools[p])
      BY <2>3, <3>1, NowFields DEF ItemsPromised
    <3>4. ASSUME NEW p \in DOMAIN tools PROVE CallDone(tools[p].index)
      <4>1. WireKind(tools[p].kind) \in Wire!CallKinds
        BY <3>2, WireKindFacts, ToolKindsAssumption DEF Wire!CallKinds
      <4>2. CallItem(tools[p]) = [kind |-> WireKind(tools[p].kind), phase |-> "done"]
        BY <3>1 DEF CallItem
      <4>3. item[tools[p].index] = [kind |-> WireKind(tools[p].kind), phase |-> "done"]
        BY <3>3, <4>2
      <4>4. QED
        BY <4>1, <4>3 DEF CallDone, IsCall
    <3>5. ASSUME NEW i \in DOMAIN item, CallDone(i)
          PROVE  \E p \in DOMAIN tools : tools[p].index = i
      <4>1. item[i] # DoneItem
        BY <3>5 DEF DoneItem, CallDone, IsCall, Wire!CallKinds
      <4>2. ToolAt(Now, i) \/ OpenAt(Now.message, i) \/ OpenAt(Now.reasoning, i)
        BY <2>3, <4>1 DEF ItemsPromised
      <4>3. QED
        BY <2>2, <4>2, NowFields DEF ToolAt, OpenAt
    <3>6. {i \in DOMAIN item : CallDone(i)} = {tools[p].index : p \in DOMAIN tools}
      BY <3>3, <3>4, <3>5
    <3>7. QED
      BY <3>1, <3>6
  <2>6. QED
    BY <2>4, <2>5
<1>3. QED
  BY <1>1, <1>2, PTL

\* Every fragment the upstream sent reaches an answered client in the deltas
\* of exactly one item, once and in the order of its block, however often the
\* items were closed and opened again.
THEOREM FragmentsWhole == Spec => []NoFragmentLostOrRepeated
<1>1. Spec => []DeliveryInv
  BY DeliveryInvInit, DeliveryInvNext, PTL DEF Spec
<1>2. DeliveryInv => NoFragmentLostOrRepeated
  <2> SUFFICES ASSUME DeliveryInv, Answered
               PROVE  /\ UNION {Range(streamed[i]) : i \in DOMAIN streamed}
                            = UNION {blk[b].text : b \in Blocks}
                      /\ \A i, j \in DOMAIN streamed :
                            i # j => Range(streamed[i]) \cap Range(streamed[j]) = {}
                      /\ \A i \in DOMAIN streamed : InOrder(streamed[i])
    BY DEF NoFragmentLostOrRepeated
  <2>1. StreamedPromised(Now.sent, streamed)
    BY AnsweredHasAll DEF Promised, View
  <2>2. QED
    BY <2>1, NowFields DEF StreamedPromised
<1>3. QED
  BY <1>1, <1>2, PTL
-----------------------------------------------------------------------------
(* The refinement: a yield is a step of the wire protocol, and nothing else *)
(* reaches the client                                                       *)

\* The type of one item.
LEMMA ShownItem ==
    ASSUME View \in Views, NEW i \in DOMAIN item
    PROVE  /\ i \in Nat /\ item \in [DOMAIN item -> [kind : Wire!ItemKinds, phase : Wire!Phases]]
           /\ item[i] = [kind |-> item[i].kind, phase |-> item[i].phase]
<1>1. item \in Shown
  BY DEF View, Views
<1>2. QED
  BY <1>1 DEF Shown

\* An event that finds its item moves it to the next phase.
LEMMA FoundMoves ==
    ASSUME View \in Views, NEW e, e.type \in DOMAIN PhaseAfter, NEW kinds, NEW ps,
           Finds(e, View, kinds, ps), View' = After(e, View)
    PROVE  /\ Wire!In(e.index, kinds, ps) /\ e.index \in DOMAIN item
           /\ Wire!Move(e.index, PhaseAfter[e.type])
           /\ envelope = "in_progress"
<1> DEFINE i == e.index
<1>1. /\ envelope = "in_progress" /\ i \in DOMAIN item
      /\ item[i].kind = WireKind(e.kind) /\ item[i].kind \in kinds
      /\ item[i].phase \in ps
  BY DEF Finds, View
<1>2. e.type \notin {"Created", "InProgress"} \cup Wire!Terminals
  BY PhaseAfterFacts DEF Wire!Terminals
<1>3. /\ envelope' = envelope /\ terminal' = terminal
      /\ item' = Put(item, i, [kind |-> WireKind(e.kind), phase |-> PhaseAfter[e.type]])
  BY <1>2 DEF After, View
<1>4. item[i] = [kind |-> item[i].kind, phase |-> item[i].phase]
  BY <1>1, ShownItem
<1>5. item \in [DOMAIN item -> [kind : Wire!ItemKinds, phase : Wire!Phases]]
  BY <1>1, ShownItem
<1>6. item' = [item EXCEPT ![i].phase = PhaseAfter[e.type]]
  <2>1. [item EXCEPT ![i].phase = PhaseAfter[e.type]] =
           [j \in DOMAIN item |-> IF j = i THEN [item[i] EXCEPT !.phase = PhaseAfter[e.type]]
                                  ELSE item[j]]
    BY <1>1, <1>5
  <2>2. [item[i] EXCEPT !.phase = PhaseAfter[e.type]] =
           [kind |-> WireKind(e.kind), phase |-> PhaseAfter[e.type]]
    BY <1>1, <1>4
  <2>3. DOMAIN item \cup {i} = DOMAIN item
    BY <1>1
  <2>4. QED
    BY <1>3, <2>1, <2>2, <2>3 DEF Put
<1>7. QED
  BY <1>1, <1>3, <1>6 DEF Wire!In, Wire!Move

\* A legal event is a step of the wire protocol.
LEMMA LegalEventIsWireStep ==
    ASSUME NEW e \in Event, View \in Views, Leads(e, View, View')
    PROVE  Wire!WireNext
<1>1. /\ Legal(e, View) /\ terminal = "none" /\ View' = After(e, View)
      /\ envelope' = After(e, View).envelope /\ item' = After(e, View).item
      /\ terminal' = After(e, View).terminal
  BY DEF Leads, Legal, View
<1>2. e.kind \in EventKinds /\ WireKind(e.kind) \in Wire!ItemKinds
  BY WireKindFacts DEF Event
<1>3. CASE LegalOpening(e, View)
  <2>1. CASE e.type = "Created" /\ envelope = "none"
    <3>1. Wire!Created
      BY <1>1, <2>1, PhaseAfterFacts DEF After, View, Wire!Created, Wire!Terminals
    <3>2. QED
      BY <3>1 DEF Wire!WireNext
  <2>2. CASE e.type = "InProgress" /\ envelope = "created"
    <3>1. Wire!InProgress
      BY <1>1, <2>2, PhaseAfterFacts DEF After, View, Wire!InProgress, Wire!Terminals
    <3>2. QED
      BY <3>1 DEF Wire!WireNext
  <2>3. CASE e.type = "Added" /\ envelope = "in_progress" /\ e.index \notin DOMAIN item
    <3>1. /\ item' = Put(item, e.index, [kind |-> WireKind(e.kind), phase |-> "added"])
          /\ envelope' = envelope /\ terminal' = terminal
      BY <1>1, <2>3, PhaseAfterFacts DEF After, View, Wire!Terminals
    <3>2. Wire!Add(e.index, WireKind(e.kind)) /\ e.index \in DOMAIN item'
      BY <1>1, <2>3, <3>1 DEF Wire!Add, Wire!Live, Put
    <3>3. QED
      BY <1>2, <3>2 DEF Wire!WireNext
  <2>4. QED
    BY <1>3, <2>1, <2>2, <2>3 DEF LegalOpening, View
<1>4. CASE LegalMove(e, View)
  <2>1. CASE e.type = "PartAdded" /\ Finds(e, View, {"content"}, {"added"})
    <3>1. Wire!PartAdded(e.index) /\ e.index \in DOMAIN item
      BY <1>1, <2>1, PhaseAfterFacts, FoundMoves DEF Wire!PartAdded, Wire!Live
    <3>2. QED
      BY <3>1 DEF Wire!WireNext
  <2>2. CASE e.type = "TextDone" /\ Finds(e, View, {"content"}, {"part", "text_done"})
    <3>1. Wire!TextDone(e.index) /\ e.index \in DOMAIN item
      BY <1>1, <2>2, PhaseAfterFacts, FoundMoves DEF Wire!TextDone, Wire!Live
    <3>2. QED
      BY <3>1 DEF Wire!WireNext
  <2>3. CASE e.type = "PartDone" /\ Finds(e, View, {"content"}, {"part", "text_done"})
    <3>1. Wire!PartDone(e.index) /\ e.index \in DOMAIN item
      BY <1>1, <2>3, PhaseAfterFacts, FoundMoves DEF Wire!PartDone, Wire!Live
    <3>2. QED
      BY <3>1 DEF Wire!WireNext
  <2>4. CASE e.type = "ArgsDone" /\ Finds(e, View, {"call"}, {"added"})
    <3>1. Wire!ArgsDone(e.index) /\ e.index \in DOMAIN item
      BY <1>1, <2>4, PhaseAfterFacts, FoundMoves DEF Wire!ArgsDone, Wire!Live
    <3>2. QED
      BY <3>1 DEF Wire!WireNext
  <2>5. CASE e.type = "ItemDone" /\ \/ Finds(e, View, {"content"}, {"part_done"})
                                    \/ Finds(e, View, {"call"}, {"args_done"})
                                    \/ Finds(e, View, {"late_call"}, {"added"})
    <3>1. Wire!ItemDone(e.index) /\ e.index \in DOMAIN item
      BY <1>1, <2>5, PhaseAfterFacts, FoundMoves DEF Wire!ItemDone, Wire!Live
    <3>2. QED
      BY <3>1 DEF Wire!WireNext
  <2>6. QED
    BY <1>4, <2>1, <2>2, <2>3, <2>4, <2>5 DEF LegalMove
<1>5. CASE LegalDelta(e, View)
  <2>1. e.type = "Delta" /\ e.index \in DOMAIN item /\ envelope = "in_progress"
        /\ (Wire!In(e.index, {"content"}, {"part"}) \/ Wire!In(e.index, {"call"}, {"added"}))
    BY <1>5 DEF LegalDelta, Finds, View, Wire!In
  <2>2. UNCHANGED Wire!wireVars
    BY <1>1, <2>1, PhaseAfterFacts DEF After, View, Wire!wireVars, Wire!Terminals
  <2>3. Wire!Delta(e.index)
    BY <1>1, <2>1, <2>2 DEF Wire!Delta, Wire!Live
  <2>4. QED
    BY <2>1, <2>3 DEF Wire!WireNext
<1>6. CASE LegalEnd(e, View)
  <2>1. e.type \in Wire!Terminals /\ envelope # "created"
    BY <1>6 DEF LegalEnd, View, Wire!Terminals
  <2>2. terminal' = e.type /\ UNCHANGED <<envelope, item>>
    BY <1>1, <2>1, PhaseAfterFacts DEF After, View, Wire!Terminals
  <2>3. e.type = "completed" => \A i \in DOMAIN item : item[i].phase = "done"
    BY <1>6 DEF LegalEnd, View
  <2>4. e.type = "incomplete" => \A i \in DOMAIN item :
                                    item[i].phase = "done" \/ Wire!In(i, {"call"}, {"added"})
    BY <1>6 DEF LegalEnd, View, Wire!In
  <2>5. e.type = "failed" => \A i \in DOMAIN item :
                                ~ Wire!In(i, Wire!CallKinds, {"args_done", "done"})
    BY <1>6 DEF LegalEnd, View, Wire!In
  <2>6. Wire!Terminate(e.type)
    BY <1>1, <2>1, <2>2, <2>3, <2>4, <2>5 DEF Wire!Terminate
  <2>7. QED
    BY <2>1, <2>6 DEF Wire!WireNext
<1>7. QED
  BY <1>1, <1>3, <1>4, <1>5, <1>6 DEF Legal

\* The stream implements the documented lifecycle: what the gateway delivers,
\* event by event, is a behaviour of ResponsesWire.
THEOREM LifecycleImplemented == Spec => LifecycleHolds
<1>1. Spec => []DeliveryInv
  BY DeliveryInvInit, DeliveryInvNext, PTL DEF Spec
<1>2. Init => Wire!WireInit
  BY DEF Init, ClientInit
<1>3. DeliveryInv /\ [Next]_vars => [Wire!WireNext]_(Wire!wireVars)
  <2> SUFFICES ASSUME DeliveryInv, [Next]_vars PROVE [Wire!WireNext]_(Wire!wireVars)
    OBVIOUS
  <2>1. CASE Yield
    <3>1. Leads(Head(pending), View, View') /\ View \in Views
      BY SMTT(40), <2>1, PendingLeads DEF DeliveryInv, PendingFits, Path, Yield
    <3>2. Head(pending) \in Event
      BY <2>1 DEF Yield, DeliveryInv, StreamInv, TypeOK
    <3>3. QED
      BY <3>1, <3>2, LegalEventIsWireStep
  <2>2. CASE ~ Yield
    <3>1. UNCHANGED client
      BY ZenonT(30), <2>2 DEF Next, UpstreamEvent, MessageStart, ContentBlockStart, Opened,
                  ToolBlockStart, TextDelta, EmptyReasoningText, ReasoningText,
                  OpenReasoning, ReasoningSignature, ReasoningRedacted, Seal, ToolInput,
                  ContentBlockStop, MessageStop, Metadata, UpstreamEof, Finish,
                  UpstreamError, IdleTimeout, Fail, ClientDrop, vars
    <3>2. QED
      BY <3>1 DEF client, Wire!wireVars
  <2>3. QED
    BY <2>1, <2>2
<1>4. QED
  BY <1>1, <1>2, <1>3, PTL DEF Spec, LifecycleHolds, Wire!WireSpec
=============================================================================
