-------------------------- MODULE ChatStream_proofs --------------------------
(***************************************************************************)
(* Proofs about ChatStream, for every finite set of blocks and any number  *)
(* of fragments in each.                                                   *)
(***************************************************************************)
EXTENDS ChatStream, FiniteSetTheorems, TLAPS

\* Whatever the client was shown is a finite set of fragments.
LEMMA FragmentsFinite ==
    ASSUME NEW S \in SUBSET Fragments
    PROVE  IsFiniteSet(S) /\ Cardinality(S) \in Nat
<1>1. IsFiniteSet(1 .. MaxFragments)
  BY MaxFragmentsAssumption, FS_Interval
<1>2. IsFiniteSet(Fragments)
  BY <1>1, BlocksAssumption, FS_Product DEF Fragments
<1>3. IsFiniteSet(S)
  BY <1>2, FS_Subset
<1>4. QED
  BY <1>3, FS_CardinalityType
-----------------------------------------------------------------------------
(* Chunks *)

\* The chunks the machine builds are chunks, and carry what they were given.
LEMMA ChunkFacts ==
    /\ Blank \in Chunk /\ Failure \in Chunk /\ Empty \in Chunk
    /\ Blank.kind = "role" /\ Failure.kind = "failure" /\ Empty.kind = "empty"
    /\ ~ Empty.opens /\ ~ Empty.closes /\ ~ Empty.stop /\ Empty.text = {}
    /\ ~ Failure.opens /\ ~ Failure.closes /\ ~ Failure.stop /\ Failure.text = {}
    /\ ~ Blank.opens /\ ~ Blank.closes /\ ~ Blank.stop /\ Blank.text = {}
BY DEF Blank, Failure, Empty, Chunk, Kinds, Unknown

\* Slot holds an ordinary chunk of the given kind, with the given parts.
Carries(kind, opens, closes, txt) ==
    /\ slot' \in Chunk /\ slot'.kind = kind
    /\ slot'.opens = opens /\ slot'.closes = closes /\ slot'.text = txt
    /\ slot'.stop = (kind = "stop")
    /\ UNCHANGED <<driver, router, client, capsule>>

LEMMA OpeningChunkFacts ==
    ASSUME NEW o \in BOOLEAN, NEW txt \in SUBSET Fragments,
           Emit([Blank EXCEPT !.kind = "content", !.opens = o, !.text = txt])
    PROVE  Carries("content", o, FALSE, txt)
BY DEF Emit, Carries, Blank, Chunk, Kinds, Unknown

LEMMA ClosingChunkFacts ==
    ASSUME NEW c \in BOOLEAN, NEW txt \in SUBSET Fragments,
           Emit([Blank EXCEPT !.kind = "content", !.closes = c, !.text = txt])
    PROVE  Carries("content", FALSE, c, txt)
BY DEF Emit, Carries, Blank, Chunk, Kinds, Unknown

LEMMA SignatureChunkFacts ==
    ASSUME Emit([Blank EXCEPT !.kind = "content", !.closes = TRUE])
    PROVE  Carries("content", FALSE, TRUE, {})
BY DEF Emit, Carries, Blank, Chunk, Kinds, Unknown

LEMMA CallChunkFacts ==
    ASSUME NEW b \in Blocks, NEW X \in SUBSET Sealed, ToolIndexFor(b) \in Nat,
           Emit(CallChunk(b, X))
    PROVE  /\ Carries("call", FALSE, FALSE, {})
           /\ slot'.index = ToolIndexFor(b) /\ slot'.block = b /\ slot'.capsule = X
BY DEF Emit, CallChunk, Carries, Blank, Chunk, Kinds, Unknown

LEMMA ArgsChunkFacts ==
    ASSUME NEW n \in Nat, NEW txt \in SUBSET Fragments,
           Emit([Blank EXCEPT !.kind = "args", !.index = n, !.text = txt])
    PROVE  Carries("args", FALSE, FALSE, txt) /\ slot'.index = n
BY DEF Emit, Carries, Blank, Chunk, Kinds, Unknown

LEMMA StopChunkFacts ==
    ASSUME NEW c \in BOOLEAN,
           Emit([Blank EXCEPT !.kind = "stop", !.closes = c, !.stop = TRUE])
    PROVE  Carries("stop", FALSE, c, {})
BY DEF Emit, Carries, Blank, Chunk, Kinds, Unknown

LEMMA UsageChunkFacts ==
    ASSUME NEW n \in Nat,
           Emit([Blank EXCEPT !.kind = "usage", !.tokens = n])
    PROVE  Carries("usage", FALSE, FALSE, {}) /\ slot'.tokens = n
BY DEF Emit, Carries, Blank, Chunk, Kinds, Unknown
-----------------------------------------------------------------------------
(* What the helpers do to their variables *)

\* A fragment is added to its block and to no other.
LEMMA SentFacts ==
    ASSUME TypeOK, NEW b \in Blocks, NEW txt \in TextOf(b) \cup {{<<b, blk[b].sent + 1>>}},
           blk[b].sent < MaxFragments, Sent(b, txt)
    PROVE  /\ blk' \in [Blocks -> Block] /\ txt \in SUBSET Fragments
           /\ blk'[b].kind = blk[b].kind /\ blk'[b].stage = blk[b].stage
           /\ blk'[b].seal = blk[b].seal /\ blk'[b].sent = blk[b].sent + 1
           /\ blk'[b].text = blk[b].text \cup txt
           /\ \A c \in Blocks \ {b} : blk'[c] = blk[c]
           /\ \A c \in Blocks : blk'[c].kind = blk[c].kind
<1>1. blk \in [Blocks -> Block] /\ blk[b] \in Block
  BY DEF TypeOK
<1>2. blk[b].sent \in Nat /\ blk[b].sent + 1 \in 1 .. MaxFragments
  BY <1>1, MaxFragmentsAssumption DEF Block
<1>3. txt \in SUBSET Fragments
  BY <1>2 DEF TextOf, Fragments
<1>4. blk' = [blk EXCEPT ![b] = [blk[b] EXCEPT !.sent = @ + 1, !.text = @ \cup txt]]
  BY DEF Sent
<1>5. [blk[b] EXCEPT !.sent = @ + 1, !.text = @ \cup txt] \in Block
  <2>1. blk[b].sent + 1 \in 0 .. MaxFragments
    BY <1>2, MaxFragmentsAssumption
  <2>2. blk[b].text \cup txt \in SUBSET Fragments
    BY <1>1, <1>3 DEF Block
  <2>3. QED
    BY <1>1, <2>1, <2>2 DEF Block
<1>6. blk' \in [Blocks -> Block] /\ \A c \in Blocks \ {b} : blk'[c] = blk[c]
  BY <1>1, <1>4, <1>5
<1>7. blk'[b] = [blk[b] EXCEPT !.sent = @ + 1, !.text = @ \cup txt]
  BY <1>1, <1>4
<1>8. /\ blk'[b].kind = blk[b].kind /\ blk'[b].stage = blk[b].stage
      /\ blk'[b].seal = blk[b].seal /\ blk'[b].sent = blk[b].sent + 1
      /\ blk'[b].text = blk[b].text \cup txt
  BY <1>1, <1>7 DEF Block
<1>9. QED
  BY <1>3, <1>6, <1>8

\* A block that starts was untouched.
LEMMA OpenedFacts ==
    ASSUME TypeOK, BlocksFit, NEW b \in Blocks,
           NEW k \in {"text", "reasoning", "tool"}, Opened(b, k)
    PROVE  /\ blk' \in [Blocks -> Block]
           /\ blk[b].kind = "text" /\ blk[b].text = {} /\ blk[b].sent = 0
           /\ blk[b].seal = "none" /\ toolMeta[b] = Unknown
           /\ blk'[b].kind = k /\ blk'[b].stage = "open" /\ blk'[b].text = {}
           /\ blk'[b].sent = 0 /\ blk'[b].seal = "none"
           /\ \A c \in Blocks \ {b} : blk'[c] = blk[c]
<1>1. blk \in [Blocks -> Block] /\ blk[b] \in Block
  BY DEF TypeOK
<1>2. /\ blk[b].kind = "text" /\ blk[b].sent = 0 /\ blk[b].seal = "none"
      /\ toolMeta[b] = Unknown
  BY DEF Opened, BlocksFit
<1>3. blk[b].text \subseteq {b} \X (1 .. 0)
  BY <1>2 DEF BlocksFit
<1>4. blk[b].text = {}
  BY <1>3
<1>5. blk' = [blk EXCEPT ![b] = [blk[b] EXCEPT !.stage = "open", !.kind = k]]
  BY DEF Opened
<1>6. [blk[b] EXCEPT !.stage = "open", !.kind = k] \in Block
  BY <1>1 DEF Block
<1>7. blk' \in [Blocks -> Block] /\ \A c \in Blocks \ {b} : blk'[c] = blk[c]
  BY <1>1, <1>5, <1>6
<1>8. blk'[b] = [blk[b] EXCEPT !.stage = "open", !.kind = k]
  BY <1>1, <1>5
<1>9. /\ blk'[b].kind = k /\ blk'[b].stage = "open" /\ blk'[b].text = blk[b].text
      /\ blk'[b].sent = blk[b].sent /\ blk'[b].seal = blk[b].seal
  BY <1>1, <1>8 DEF Block
<1>10. QED
  BY <1>2, <1>4, <1>7, <1>9

\* A tool block keeps the index it has, and a new one gets the next.
LEMMA AllocateFacts ==
    ASSUME TypeOK, NEW b \in Blocks, Allocate(b)
    PROVE  /\ toolMeta' \in [Blocks -> Nat \cup {Unknown}]
           /\ ToolIndexFor(b) \in Nat /\ toolMeta'[b] = ToolIndexFor(b)
           /\ \A c \in Blocks \ {b} : toolMeta'[c] = toolMeta[c]
           /\ nextToolIndex' = Cardinality(ToolBlocks')
           /\ {toolMeta'[c] : c \in ToolBlocks'} = 0 .. nextToolIndex' - 1
           /\ toolMeta[b] # Unknown =>
                 toolMeta' = toolMeta /\ nextToolIndex' = nextToolIndex
           /\ toolMeta[b] = Unknown =>
                 ToolIndexFor(b) = nextToolIndex /\ nextToolIndex' = nextToolIndex + 1
<1>1. toolMeta \in [Blocks -> Nat \cup {Unknown}]
  BY DEF TypeOK
<1>2. IsFiniteSet(ToolBlocks)
  BY BlocksAssumption, FS_Subset DEF ToolBlocks
<1>3. nextToolIndex \in Nat
  BY <1>2, FS_CardinalityType DEF TypeOK
<1>4. ToolIndexFor(b) \in Nat
  BY <1>1, <1>3 DEF ToolIndexFor
<1>5. /\ toolMeta' \in [Blocks -> Nat \cup {Unknown}]
      /\ toolMeta'[b] = ToolIndexFor(b)
      /\ \A c \in Blocks \ {b} : toolMeta'[c] = toolMeta[c]
  BY <1>1, <1>4 DEF Allocate
<1>6. CASE toolMeta[b] # Unknown
  <2>1. toolMeta' = toolMeta /\ nextToolIndex' = nextToolIndex
    BY <1>1, <1>6 DEF Allocate, ToolIndexFor
  <2>2. QED
    BY <1>4, <1>5, <1>6, <2>1 DEF ToolBlocks, TypeOK
<1>7. CASE toolMeta[b] = Unknown
  <2>1. ToolIndexFor(b) = nextToolIndex /\ nextToolIndex' = nextToolIndex + 1
    BY <1>7 DEF Allocate, ToolIndexFor
  <2>2. ToolBlocks' = ToolBlocks \cup {b} /\ b \notin ToolBlocks
    BY <1>3, <1>5, <1>7, <2>1 DEF ToolBlocks, Unknown
  <2>3. Cardinality(ToolBlocks') = nextToolIndex + 1
    BY <1>2, <2>2, FS_AddElement DEF TypeOK
  <2>4. \A c \in ToolBlocks : toolMeta'[c] = toolMeta[c]
    BY <1>5, <2>2 DEF ToolBlocks
  <2>5. {toolMeta'[c] : c \in ToolBlocks'} = {toolMeta[c] : c \in ToolBlocks} \cup {nextToolIndex}
    BY <1>5, <2>1, <2>2, <2>4
  <2>6. {toolMeta'[c] : c \in ToolBlocks'} = 0 .. nextToolIndex' - 1
    <3>1. (0 .. nextToolIndex - 1) \cup {nextToolIndex} = 0 .. nextToolIndex
      BY <1>3
    <3>2. {toolMeta[c] : c \in ToolBlocks} = 0 .. nextToolIndex - 1
      BY DEF TypeOK
    <3>3. QED
      BY <1>3, <2>1, <2>5, <3>1, <3>2
  <2>7. QED
    BY <1>4, <1>5, <1>7, <2>1, <2>3, <2>6
<1>8. QED
  BY <1>6, <1>7

\* Finalizing keeps the types.
LEMMA FinalizeType ==
    ASSUME TypeOK, NEW S \in SUBSET Blocks, Finalize(S)
    PROVE  /\ accum' \in [Blocks -> Accum] /\ incomplete' \in BOOLEAN
           /\ reasoningBlocks' \in SUBSET Sealed
<1>1. Absent \in Accum
  BY DEF Absent, Accum, Seals
<1>2. accum' \in [Blocks -> Accum]
  BY <1>1 DEF Finalize, TypeOK
<1>3. \A b \in Completed(S) :
         [block |-> b, text |-> accum[b].text, seal |-> accum[b].seal] \in Sealed
  BY DEF Completed, TypeOK, Accum, Sealed
<1>4. reasoningBlocks' \in SUBSET Sealed
  BY <1>3 DEF Finalize, TypeOK
<1>5. incomplete' \in BOOLEAN
  BY DEF Finalize, TypeOK
<1>6. QED
  BY <1>2, <1>4, <1>5
-----------------------------------------------------------------------------
(* Types *)

\* What the client makes of a chunk has its type: arguments are taken only for
\* a call that was announced.
LEMMA ReadType ==
    ASSUME StreamInv, Forward
    PROVE  /\ inThink' \in BOOLEAN /\ finish' \in BOOLEAN
           /\ inside' \subseteq Fragments /\ outside' \subseteq Fragments
           /\ DOMAIN calls' \subseteq Nat /\ calls' \in [DOMAIN calls' -> ClientCall]
           /\ usage' \in Nat \cup {Unknown}
           /\ UNCHANGED provider /\ slot' = Empty
<1> USE DEF StreamInv
<1>1. slot \in Chunk /\ Read(slot) /\ slot' = Empty /\ UNCHANGED provider
  BY DEF Forward, TypeOK
<1>2. /\ slot.opens \in BOOLEAN /\ slot.closes \in BOOLEAN /\ slot.stop \in BOOLEAN
      /\ slot.text \in SUBSET Fragments /\ slot.tokens \in Nat
      /\ slot.capsule \in SUBSET Sealed
  BY <1>1 DEF Chunk
<1>3. /\ inThink' \in BOOLEAN /\ finish' \in BOOLEAN
      /\ inside' \subseteq Fragments /\ outside' \subseteq Fragments
      /\ usage' \in Nat \cup {Unknown}
  BY <1>1, <1>2 DEF Read, TypeOK
<1>4. DOMAIN calls' \subseteq Nat /\ calls' \in [DOMAIN calls' -> ClientCall]
  <2>1. calls \in [DOMAIN calls -> ClientCall] /\ DOMAIN calls \subseteq Nat
    BY DEF TypeOK
  <2>2. CASE slot.kind = "call"
    <3> DEFINE new == [announced |-> TRUE, block |-> slot.block,
                       capsule |-> slot.capsule, args |-> {}]
    <3>1. slot.block \in Blocks /\ slot.index = toolMeta[slot.block]
      BY <2>2 DEF SlotFits
    <3>2. slot.index \in Nat
      BY <2>2, <3>1 DEF SlotFits, BlocksFit, TypeOK
    <3>3. new \in ClientCall
      BY <1>2, <3>1 DEF ClientCall
    <3>4. calls' = WithCall(slot.index, new)
      BY <1>1, <2>2 DEF Read
    <3> HIDE DEF new
    <3>5. QED
      BY <2>1, <3>2, <3>3, <3>4 DEF WithCall
  <2>3. CASE slot.kind = "args"
    <3>1. slot.index \in DOMAIN calls
      <4>1. slot.kind # "failure" /\ slot.kind # "empty" /\ slot.kind # "call"
        BY <2>3
      <4>2. DOMAIN calls = 0 .. nextToolIndex - 1
        BY <4>1 DEF CallsFit, Healthy, Forward
      <4>3. PICK b \in Blocks : toolMeta[b] = slot.index /\ slot.index # Unknown
        BY <2>3 DEF SlotFits
      <4>4. b \in ToolBlocks
        BY <4>3 DEF ToolBlocks
      <4>5. QED
        BY <4>2, <4>3, <4>4 DEF TypeOK
    <3>2. calls[slot.index] \in ClientCall /\ Call(slot.index) = calls[slot.index]
      BY <2>1, <3>1 DEF Call
    <3>3. [Call(slot.index) EXCEPT !.args = @ \cup slot.text] \in ClientCall
      BY <1>2, <3>2 DEF ClientCall
    <3>4. calls' = WithCall(slot.index, [Call(slot.index) EXCEPT !.args = @ \cup slot.text])
      BY <1>1, <2>3 DEF Read
    <3>5. QED
      BY <2>1, <3>1, <3>3, <3>4 DEF WithCall
  <2>4. CASE slot.kind \notin {"call", "args"}
    BY <1>1, <2>1, <2>4 DEF Read
  <2>5. QED
    BY <2>2, <2>3, <2>4
<1>5. QED
  BY <1>1, <1>3, <1>4

LEMMA TypeStep ==
    ASSUME StreamInv, Next
    PROVE  TypeOK'
<1> USE DEF StreamInv, upstream, thinking, client
<1>1. CASE MessageStart
  BY <1>1, ChunkFacts DEF TypeOK, ToolBlocks, MessageStart, Emit
<1>2. ASSUME NEW b \in Blocks, ContentBlockStart(b) PROVE TypeOK'
  <2>1. blk' \in [Blocks -> Block]
    BY <1>2, OpenedFacts DEF ContentBlockStart
  <2>2. QED
    BY <1>2, <2>1 DEF TypeOK, ToolBlocks, ContentBlockStart, Quiet
<1>3. ASSUME NEW b \in Blocks, ToolUseStart(b) PROVE TypeOK'
  <2>1. Opened(b, "tool") /\ Allocate(b)
    BY <1>3 DEF ToolUseStart
  <2>2. blk' \in [Blocks -> Block]
    BY <2>1, OpenedFacts
  <2>3. /\ toolMeta' \in [Blocks -> Nat \cup {Unknown}]
        /\ nextToolIndex' = Cardinality(ToolBlocks')
        /\ {toolMeta'[c] : c \in ToolBlocks'} = 0 .. nextToolIndex' - 1
        /\ ToolIndexFor(b) \in Nat
    BY <2>1, AllocateFacts
  <2>4. Pending \in SUBSET Blocks
    BY DEF Pending
  <2>5. /\ accum' \in [Blocks -> Accum] /\ incomplete' \in BOOLEAN
        /\ reasoningBlocks' \in SUBSET Sealed /\ toolUseSeen' \in BOOLEAN
    BY <1>3, <2>4, FinalizeType DEF ToolUseStart, TypeOK
  <2>6. slot' \in Chunk /\ driver' \in {"running", "ended"} /\ UNCHANGED <<router, client, capsule>>
    <3>1. CASE Fail
      BY <3>1, ChunkFacts DEF Fail
    <3>2. ASSUME NEW X \in SUBSET Sealed, Emit(CallChunk(b, X))
          PROVE  slot' \in Chunk /\ UNCHANGED <<driver, router, client, capsule>>
      BY <2>3, <3>2, CallChunkFacts DEF Carries
    <3>3. QED
      BY <1>3, <2>5, <3>1, <3>2 DEF ToolUseStart, TypeOK
  <2>7. QED
    BY <1>3, <2>2, <2>3, <2>5, <2>6 DEF ToolUseStart, TypeOK
<1>4. ASSUME NEW b \in Blocks, TextDelta(b) PROVE TypeOK'
  <2>1. PICK txt \in TextOf(b) :
           /\ Fragment(b, "text") /\ Sent(b, txt)
           /\ Emit([Blank EXCEPT !.kind = "content", !.closes = thinkEmitted, !.text = txt])
           /\ thinkEmitted' = FALSE
           /\ UNCHANGED <<phase, toolMeta, nextToolIndex, reasoningTokens,
                          thinking, toolUseSeen>>
    BY <1>4 DEF TextDelta
  <2>2. blk' \in [Blocks -> Block] /\ txt \in SUBSET Fragments
    BY <2>1, SentFacts DEF Fragment
  <2>3. Carries("content", FALSE, thinkEmitted, txt)
    BY <2>1, <2>2, ClosingChunkFacts DEF TypeOK
  <2>4. slot' \in Chunk /\ UNCHANGED <<driver, router, client, capsule>>
    BY <2>3 DEF Carries
  <2>5. thinkEmitted' \in BOOLEAN /\ UNCHANGED accum
    BY <2>1 DEF thinking
  <2>6. UNCHANGED <<phase, toolMeta, nextToolIndex, reasoningTokens, reasoningBlocks,
                    incomplete, toolUseSeen>>
    BY <2>1 DEF thinking
  <2>7. QED
    BY <2>2, <2>4, <2>5, <2>6 DEF TypeOK, ToolBlocks
<1>5. ASSUME NEW b \in Blocks, ReasoningText(b) PROVE TypeOK'
  <2>1. PICK txt \in TextOf(b) :
           /\ Fragment(b, "reasoning") /\ Sent(b, txt)
           /\ Accumulate(b, [text |-> accum[b].text \cup txt, textSeen |-> TRUE,
                             seal |-> accum[b].seal])
           /\ reasoningTokens' = reasoningTokens + CountTokens(txt)
           /\ Emit([Blank EXCEPT !.kind = "content", !.opens = ~ thinkEmitted, !.text = txt])
           /\ thinkEmitted' = TRUE
           /\ UNCHANGED <<phase, toolMeta, nextToolIndex, toolUseSeen>>
    BY <1>5 DEF ReasoningText
  <2>2. blk' \in [Blocks -> Block] /\ txt \in SUBSET Fragments
    BY <2>1, SentFacts DEF Fragment
  <2>3. Carries("content", ~ thinkEmitted, FALSE, txt)
    BY <2>1, <2>2, OpeningChunkFacts DEF TypeOK
  <2>4. CountTokens(txt) \in Nat
    BY <2>2, FragmentsFinite DEF CountTokens
  <2>5. accum' \in [Blocks -> Accum]
    <3>1. accum[b] \in Accum
      BY DEF TypeOK
    <3>2. [text |-> accum[b].text \cup txt, textSeen |-> TRUE, seal |-> accum[b].seal] \in Accum
      BY <2>2, <3>1 DEF Accum
    <3>3. QED
      BY <2>1, <3>2 DEF Accumulate, TypeOK
  <2>6. slot' \in Chunk /\ UNCHANGED <<driver, router, client, capsule>>
    BY <2>3 DEF Carries
  <2>7. reasoningTokens' \in Nat /\ thinkEmitted' \in BOOLEAN
    BY <2>1, <2>4 DEF TypeOK
  <2>8. UNCHANGED <<phase, toolMeta, nextToolIndex, reasoningBlocks, incomplete, toolUseSeen>>
    BY <2>1 DEF Accumulate
  <2>9. QED
    BY <2>2, <2>5, <2>6, <2>7, <2>8 DEF TypeOK, ToolBlocks
<1>6. ASSUME NEW b \in Blocks, InterleavedReasoning(b) PROVE TypeOK'
  <2>1. blk' \in [Blocks -> Block]
    <3>1. CASE blk[b].sent < MaxFragments /\ \E txt \in TextOf(b) : Sent(b, txt)
      BY <3>1, SentFacts
    <3>2. ASSUME NEW seal \in {"signature", "redacted"}, blk' = [blk EXCEPT ![b].seal = seal]
          PROVE  blk' \in [Blocks -> Block]
      <4>1. [blk[b] EXCEPT !.seal = seal] \in Block
        BY DEF TypeOK, Block, Seals
      <4>2. QED
        BY <3>2, <4>1 DEF TypeOK
    <3>3. QED
      BY <1>6, <3>1, <3>2 DEF InterleavedReasoning
  <2>2. slot' \in Chunk /\ driver' = "ended" /\ UNCHANGED <<router, client, capsule>>
    BY <1>6, ChunkFacts DEF InterleavedReasoning, Fail
  <2>3. UNCHANGED <<phase, thinkEmitted, toolMeta, nextToolIndex, reasoningTokens, thinking,
                    toolUseSeen>>
    BY <1>6 DEF InterleavedReasoning
  <2>4. QED
    BY <2>1, <2>2, <2>3 DEF TypeOK, ToolBlocks, thinking
<1>7. ASSUME NEW b \in Blocks, NEW seal \in {"signature", "redacted"}, ReasoningSeal(b, seal)
      PROVE  TypeOK'
  <2>1. blk' \in [Blocks -> Block]
    <3>1. blk' = [blk EXCEPT ![b].seal = seal]
      BY <1>7 DEF ReasoningSeal
    <3>2. [blk[b] EXCEPT !.seal = seal] \in Block
      BY DEF TypeOK, Block, Seals
    <3>3. QED
      BY <3>1, <3>2 DEF TypeOK
  <2>2. accum' \in [Blocks -> Accum]
    <3>1. accum[b] \in Accum
      BY DEF TypeOK
    <3>2. [accum[b] EXCEPT !.seal = seal] \in Accum
      BY <3>1 DEF Accum, Seals
    <3>3. QED
      BY <1>7, <3>2 DEF ReasoningSeal, Accumulate, TypeOK
  <2>3. slot' \in Chunk /\ UNCHANGED <<driver, router, client, capsule>>
    BY <1>7, SignatureChunkFacts DEF ReasoningSeal, Carries, Quiet, TypeOK
  <2>4. /\ thinkEmitted' \in BOOLEAN
        /\ UNCHANGED <<phase, toolMeta, nextToolIndex, reasoningTokens, toolUseSeen,
                       reasoningBlocks, incomplete>>
    BY <1>7 DEF TypeOK, ReasoningSeal, Accumulate
  <2>5. QED
    BY <2>1, <2>2, <2>3, <2>4 DEF TypeOK, ToolBlocks
<1>8. ASSUME NEW b \in Blocks, ToolInput(b) PROVE TypeOK'
  <2> DEFINE txt == {<<b, blk[b].sent + 1>>}
  <2>1. blk' \in [Blocks -> Block] /\ txt \in SUBSET Fragments
    BY <1>8, SentFacts DEF ToolInput, Fragment
  <2>2. /\ toolMeta' \in [Blocks -> Nat \cup {Unknown}]
        /\ nextToolIndex' = Cardinality(ToolBlocks')
        /\ {toolMeta'[c] : c \in ToolBlocks'} = 0 .. nextToolIndex' - 1
        /\ ToolIndexFor(b) \in Nat
    BY <1>8, AllocateFacts DEF ToolInput
  <2>3. Emit([Blank EXCEPT !.kind = "args", !.index = ToolIndexFor(b), !.text = txt])
    BY <1>8 DEF ToolInput
  <2> HIDE DEF txt
  <2>4. Carries("args", FALSE, FALSE, txt)
    BY <2>1, <2>2, <2>3, ArgsChunkFacts
  <2>5. QED
    BY <1>8, <2>1, <2>2, <2>4 DEF TypeOK, ToolInput, Carries
<1>9. ASSUME NEW b \in Blocks, ContentBlockStop(b) PROVE TypeOK'
  <2>1. blk' \in [Blocks -> Block]
    BY <1>9 DEF ContentBlockStop, TypeOK, Block
  <2>2. /\ accum' \in [Blocks -> Accum] /\ incomplete' \in BOOLEAN
        /\ reasoningBlocks' \in SUBSET Sealed
    <3>1. {b} \cap Pending \in SUBSET Blocks
      OBVIOUS
    <3>2. QED
      BY <1>9, <3>1, FinalizeType DEF ContentBlockStop, TypeOK
  <2>3. QED
    BY <1>9, <2>1, <2>2 DEF TypeOK, ToolBlocks, ContentBlockStop, Quiet
<1>10. CASE MessageStop
  <2>1. slot' \in Chunk /\ UNCHANGED <<driver, router, client, capsule>>
    BY <1>10, StopChunkFacts DEF MessageStop, TypeOK, Carries
  <2>2. /\ phase' = "stopped" /\ thinkEmitted' = FALSE
        /\ UNCHANGED <<blk, toolMeta, nextToolIndex, reasoningTokens, thinking, toolUseSeen>>
    BY <1>10 DEF MessageStop
  <2>3. QED
    BY <2>1, <2>2 DEF TypeOK, ToolBlocks
<1>11. CASE Metadata
  <2>1. slot' \in Chunk /\ UNCHANGED <<driver, router, client, capsule>>
    BY <1>11, UsageChunkFacts DEF Metadata, Quiet, TypeOK, Carries
  <2>2. /\ phase' = "metered"
        /\ UNCHANGED <<blk, thinkEmitted, toolMeta, nextToolIndex, reasoningTokens, thinking,
                       toolUseSeen>>
    BY <1>11 DEF Metadata
  <2>3. QED
    BY <2>1, <2>2 DEF TypeOK, ToolBlocks, thinking
<1>12. CASE UpstreamEof
  BY <1>12 DEF TypeOK, ToolBlocks, UpstreamEof
<1>13. CASE UpstreamError
  BY <1>13, ChunkFacts DEF TypeOK, ToolBlocks, UpstreamError, Fail
<1>14. CASE Forward
  BY <1>14, ReadType, ChunkFacts DEF TypeOK, ToolBlocks, Forward, provider
<1>15. CASE ForwardError \/ SendDone \/ ClientDrop
  <2>1. UNCHANGED <<provider, client>> /\ slot' \in Chunk
    BY <1>15, ChunkFacts DEF TypeOK, ForwardError, SendDone, ClientDrop
  <2>2. router' \in {"forwarding", "failed", "done", "dropped"}
    BY <1>15 DEF ForwardError, SendDone, ClientDrop
  <2>3. QED
    BY <2>1, <2>2 DEF TypeOK, ToolBlocks, provider
<1>16. QED
  BY <1>1, <1>2, <1>3, <1>4, <1>5, <1>6, <1>7, <1>8, <1>9, <1>10, <1>11,
     <1>12, <1>13, <1>14, <1>15 DEF Next
-----------------------------------------------------------------------------
(* What the invariant says while the provider stream is polled *)

LEMMA WhileReceiving ==
    ASSUME StreamInv, Receiving
    PROVE  /\ slot = Empty /\ slot.kind = "empty" /\ Healthy
           /\ router = "forwarding" /\ driver = "running"
           /\ inThink = thinkEmitted
           /\ Shown("reasoning") = inside /\ Shown("text") = outside
           /\ reasoningTokens = Cardinality(inside)
           /\ DOMAIN calls = 0 .. nextToolIndex - 1
           /\ \A i \in DOMAIN calls : blk[calls[i].block].text = calls[i].args
<1> USE DEF StreamInv
<1>1. slot = Empty /\ router = "forwarding" /\ driver = "running"
  BY DEF Receiving
<1>2. slot.kind = "empty" /\ Healthy
  BY <1>1, ChunkFacts DEF Healthy
<1>3. inThink = thinkEmitted
  BY <1>1, <1>2, ChunkFacts DEF ThinkFits, TypeOK
<1>4. Arriving = {}
  BY <1>2 DEF Arriving
<1>5. Shown("reasoning") = inside /\ Shown("text") = outside
  BY <1>2, <1>4 DEF TextFits
<1>6. reasoningTokens = Cardinality(inside)
  BY <1>2, <1>5 DEF TokensFit
<1>7. DOMAIN calls = 0 .. nextToolIndex - 1
  BY <1>2 DEF CallsFit
<1>8. \A i \in DOMAIN calls : blk[calls[i].block].text = calls[i].args
  BY <1>2 DEF CallsFit
<1>9. QED
  BY <1>1, <1>2, <1>3, <1>5, <1>6, <1>7, <1>8

\* The slot after a chunk was emitted, or nothing was.
LEMMA SlotAfter ==
    ASSUME NEW k \in {"content", "args", "call", "stop", "usage"}, NEW o, NEW c, NEW t,
           Carries(k, o, c, t)
    PROVE  slot' # Empty /\ slot' # Failure /\ slot'.kind = k
BY ChunkFacts DEF Carries
-----------------------------------------------------------------------------
(* A step that changes no block: what was said of the blocks stays *)

LEMMA BlocksFrame ==
    ASSUME BlocksFit, UNCHANGED <<blk, toolMeta, accum>>
    PROVE  BlocksFit'
BY DEF BlocksFit, IsPending

LEMMA ShownFrame ==
    ASSUME NEW kind, UNCHANGED blk
    PROVE  Shown(kind)' = Shown(kind)
BY DEF Shown

\* The capsule invariant looks at the reasoning blocks only.
LEMMA ReasonedFrame ==
    ASSUME \A c \in Blocks :
              \/ /\ blk'[c].kind = blk[c].kind /\ blk'[c].sent = blk[c].sent
                 /\ blk'[c].text = blk[c].text /\ blk'[c].seal = blk[c].seal
              \/ /\ blk[c].kind # "reasoning" \/ (blk[c].sent = 0 /\ blk[c].seal = "none")
                 /\ blk'[c].kind # "reasoning" \/ (blk'[c].sent = 0 /\ blk'[c].seal = "none")
    PROVE  Reasoned' = Reasoned
<1> DEFINE R == {c \in Blocks : /\ blk[c].kind = "reasoning"
                                /\ blk[c].sent > 0 \/ blk[c].seal # "none"}
<1>0. \A c \in Blocks : blk[c].sent = 0 => ~ (blk[c].sent > 0)
  OBVIOUS
<1>00. \A c \in Blocks : blk'[c].sent = 0 => ~ (blk'[c].sent > 0)
  OBVIOUS
<1>1. R' = R
  BY <1>0, <1>00
<1>2. \A c \in R : blk'[c].text = blk[c].text /\ blk'[c].seal = blk[c].seal
  BY <1>0
<1>3. Reasoned = {[block |-> c, text |-> blk[c].text, seal |-> blk[c].seal] : c \in R}
  BY DEF Reasoned
<1>4. Reasoned' = {[block |-> c, text |-> blk'[c].text, seal |-> blk'[c].seal] : c \in R'}
  BY DEF Reasoned
<1> HIDE DEF R
<1>5. QED
  BY <1>1, <1>2, <1>3, <1>4

\* A step that leaves the blocks, the calls and the accumulation alone.
LEMMA CapsuleFrame ==
    ASSUME CapsuleFits, Reasoned' = Reasoned, capsule' = capsule,
           Healthy' => Healthy,
           UNCHANGED <<toolUseSeen, incomplete, accum, reasoningBlocks, calls>>,
           slot'.kind # "call",
           \A c \in Pending :
              /\ blk'[c].kind = blk[c].kind /\ blk'[c].sent = blk[c].sent
              /\ blk'[c].text = blk[c].text /\ blk'[c].seal = blk[c].seal
    PROVE  CapsuleFits'
<1>1. Pending' = Pending
  BY DEF Pending, IsPending
<1>2. QED
  BY <1>1 DEF CapsuleFits

\* A failure ends what the stream promises; what the client has stays.
Grows ==
    \A c \in Blocks : /\ blk[c].text \subseteq blk'[c].text
                      /\ blk[c].text # {} => blk'[c].kind = blk[c].kind

Rest == SlotFits /\ PhaseFits /\ ThinkFits /\ TextFits /\ TokensFit /\ CallsFit /\ CapsuleFits

LEMMA ShownGrows ==
    ASSUME NEW kind, Grows
    PROVE  Shown(kind) \subseteq Shown(kind)'
BY DEF Shown, Grows

LEMMA FailStep ==
    ASSUME StreamInv, Receiving, Fail, Grows, phase' = phase,
           \A c \in ToolBlocks : toolMeta'[c] = toolMeta[c]
    PROVE  Rest'
<1> USE DEF StreamInv, client
<1>1. slot' = Failure /\ driver' = "ended" /\ router' = "forwarding"
  BY DEF Fail, Receiving
<1>2. slot'.kind = "failure" /\ ~ Healthy' /\ slot' # Empty
  BY <1>1, ChunkFacts DEF Healthy
<1>3. SlotFits'
  BY <1>1, <1>2, ChunkFacts DEF SlotFits
<1>4. PhaseFits'
  BY <1>1, <1>2 DEF PhaseFits, Fail
<1>5. ThinkFits' /\ CapsuleFits'
  BY <1>2 DEF ThinkFits, CapsuleFits
<1>6. TextFits'
  BY <1>2, ShownGrows DEF TextFits, Fail
<1>7. TokensFit'
  BY <1>2 DEF TokensFit, Fail
<1>8. CallsFit'
  <2>1. calls' = calls
    BY DEF Fail
  <2>2. ASSUME NEW i \in DOMAIN calls
        PROVE  /\ calls[i].announced /\ toolMeta'[calls[i].block] = i
               /\ calls[i].args \subseteq blk'[calls[i].block].text
    <3>1. calls[i].block \in Blocks /\ i \in Nat
      BY DEF TypeOK, ClientCall
    <3>2. calls[i].block \in ToolBlocks
      BY <3>1 DEF CallsFit, ToolBlocks, Unknown
    <3>3. QED
      BY <3>1, <3>2 DEF CallsFit, Grows
  <2>3. QED
    BY <1>2, <2>1, <2>2 DEF CallsFit
<1>9. QED
  BY <1>3, <1>4, <1>5, <1>6, <1>7, <1>8 DEF Rest
-----------------------------------------------------------------------------
(* Text on its way *)

\* Block b sent the fragment txt, if any.
Grew(b, txt) ==
    /\ txt = {} \/ txt = {<<b, blk[b].sent + 1>>}
    /\ txt \in SUBSET Fragments
    /\ blk'[b].kind = blk[b].kind /\ blk'[b].stage = blk[b].stage
    /\ blk'[b].seal = blk[b].seal /\ blk'[b].sent = blk[b].sent + 1
    /\ blk'[b].text = blk[b].text \cup txt
    /\ \A c \in Blocks \ {b} : blk'[c] = blk[c]

LEMMA GrewFacts ==
    ASSUME TypeOK, NEW b \in Blocks, NEW txt \in TextOf(b) \cup {{<<b, blk[b].sent + 1>>}},
           blk[b].sent < MaxFragments, Sent(b, txt)
    PROVE  Grew(b, txt)
BY SentFacts DEF Grew, TextOf

\* A fragment that is sent was not sent before.
LEMMA FragmentFresh ==
    ASSUME TypeOK, BlocksFit, NEW b \in Blocks, NEW c \in Blocks
    PROVE  <<b, blk[b].sent + 1>> \notin blk[c].text
<1>1. blk[b].sent \in Nat
  BY MaxFragmentsAssumption DEF TypeOK, Block
<1>2. CASE c = b
  <2>1. blk[b].sent + 1 \notin 1 .. blk[b].sent
    BY <1>1
  <2>2. blk[b].text \subseteq {b} \X (1 .. blk[b].sent)
    BY DEF BlocksFit
  <2>3. QED
    BY <1>2, <2>1, <2>2
<1>3. CASE c # b
  <2>1. blk[c].text \subseteq {c} \X (1 .. blk[c].sent)
    BY DEF BlocksFit
  <2>2. QED
    BY <1>3, <2>1
<1>4. QED
  BY <1>2, <1>3

LEMMA GrewBlocks ==
    ASSUME TypeOK, BlocksFit, NEW b \in Blocks, NEW txt, Grew(b, txt), blk[b].stage # "idle",
           \A c \in Blocks : toolMeta'[c] # Unknown <=> toolMeta[c] # Unknown,
           \A c \in Blocks : accum'[c].text = {} \/ IsPending(c)'
    PROVE  BlocksFit' /\ Grows
<1>1. ASSUME NEW c \in Blocks PROVE blk'[c].text \subseteq {c} \X (1 .. blk'[c].sent)
  <2>1. CASE c # b
    BY <2>1 DEF Grew, BlocksFit
  <2>2. CASE c = b
    <3>1. blk[b].sent \in Nat
      BY MaxFragmentsAssumption DEF TypeOK, Block
    <3>2. blk[b].text \subseteq {b} \X (1 .. blk[b].sent)
      BY DEF BlocksFit
    <3>3. (1 .. blk[b].sent) \subseteq 1 .. (blk[b].sent + 1)
      BY <3>1
    <3>4. blk[b].sent + 1 \in 1 .. (blk[b].sent + 1)
      BY <3>1
    <3>5. QED
      BY <2>2, <3>2, <3>3, <3>4 DEF Grew
  <2>3. QED
    BY <2>1, <2>2
<1>2. ASSUME NEW c \in Blocks
      PROVE  /\ blk'[c].stage = "idle" =>
                    blk'[c].kind = "text" /\ blk'[c].sent = 0 /\ blk'[c].seal = "none"
             /\ toolMeta'[c] # Unknown <=> blk'[c].kind = "tool"
  BY DEF Grew, BlocksFit
<1>3. BlocksFit'
  BY <1>1, <1>2 DEF BlocksFit
<1>4. Grows
  BY DEF Grew, Grows
<1>5. QED
  BY <1>3, <1>4

LEMMA ShownGrew ==
    ASSUME NEW b \in Blocks, NEW txt, Grew(b, txt), NEW kind
    PROVE  Shown(kind)' = Shown(kind) \cup (IF blk[b].kind = kind THEN txt ELSE {})
<1>1. \A c \in Blocks : blk'[c].kind = blk[c].kind
  BY DEF Grew
<1>2. \A c \in Blocks : blk'[c].text = IF c = b THEN blk[c].text \cup txt ELSE blk[c].text
  BY DEF Grew
<1>3. QED
  <2>1. {c \in Blocks : blk'[c].kind = kind} = {c \in Blocks : blk[c].kind = kind}
    BY <1>1
  <2>2. CASE blk[b].kind = kind
    <3> DEFINE S == {d \in Blocks : blk[d].kind = kind}
    <3>1. /\ Shown(kind) = UNION {blk[c].text : c \in S}
          /\ Shown(kind)' = UNION {blk'[c].text : c \in S}
      BY <2>1 DEF Shown
    <3>2. b \in S /\ \A c \in S : blk'[c].text = IF c = b THEN blk[c].text \cup txt ELSE blk[c].text
      BY <1>2, <2>2
    <3> HIDE DEF S
    <3>3. ASSUME NEW x \in Shown(kind)' PROVE x \in Shown(kind) \cup txt
      <4>1. PICK c \in S : x \in blk'[c].text
        BY <3>1, <3>3
      <4>2. x \in blk[c].text \cup txt
        BY <3>2, <4>1
      <4>3. blk[c].text \subseteq Shown(kind)
        BY <3>1
      <4>4. QED
        BY <4>2, <4>3
    <3>4. ASSUME NEW x \in Shown(kind) PROVE x \in Shown(kind)'
      <4>1. PICK c \in S : x \in blk[c].text
        BY <3>1, <3>4
      <4>2. x \in blk'[c].text
        BY <3>2, <4>1
      <4>3. QED
        BY <3>1, <4>2
    <3>5. txt \subseteq Shown(kind)'
      BY <3>1, <3>2
    <3>6. QED
      BY <2>2, <3>3, <3>4, <3>5
  <2>3. CASE blk[b].kind # kind
    <3>1. \A c \in {d \in Blocks : blk[d].kind = kind} : blk'[c].text = blk[c].text
      BY <1>2, <2>3
    <3>2. {blk'[c].text : c \in {d \in Blocks : blk[d].kind = kind}}
             = {blk[c].text : c \in {d \in Blocks : blk[d].kind = kind}}
      BY <3>1
    <3>3. QED
      BY <2>1, <2>3, <3>2 DEF Shown
  <2>4. QED
    BY <2>2, <2>3

LEMMA ShownSame ==
    ASSUME NEW kind,
           \A c \in Blocks : /\ blk'[c].text = blk[c].text
                             /\ blk[c].text # {} => blk'[c].kind = blk[c].kind
    PROVE  Shown(kind)' = Shown(kind)
BY DEF Shown

\* What the client was told is settled by a chunk of the body.
LEMMA ChunkStep ==
    ASSUME StreamInv, Receiving, phase = "body", phase' = phase,
           NEW k \in {"content", "args", "call"}, NEW o \in BOOLEAN, NEW c \in BOOLEAN,
           NEW txt, Carries(k, o, c, txt), thinkEmitted' \in BOOLEAN,
           (o \/ (~ c /\ thinkEmitted)) = thinkEmitted',
           Shown("reasoning")' =
               Shown("reasoning") \cup (IF k = "content" /\ thinkEmitted' THEN txt ELSE {}),
           Shown("text")' =
               Shown("text") \cup (IF k = "content" /\ ~ thinkEmitted' THEN txt ELSE {}),
           reasoningTokens' = Cardinality(Shown("reasoning")')
    PROVE  PhaseFits' /\ ThinkFits' /\ TextFits' /\ TokensFit' /\ Healthy'
<1> USE DEF StreamInv, client
<1>1. slot'.kind = k /\ slot'.opens = o /\ slot'.closes = c /\ slot'.text = txt
      /\ UNCHANGED <<driver, router, client, capsule>>
  BY DEF Carries
<1>2. /\ slot.kind = "empty" /\ Healthy /\ router = "forwarding" /\ inThink = thinkEmitted
      /\ Shown("reasoning") = inside /\ Shown("text") = outside
  BY WhileReceiving
<1>3. Healthy'
  BY <1>1, <1>2 DEF Healthy
<1>4. PhaseFits'
  BY <1>1 DEF PhaseFits
<1>5. ThinkFits'
  BY <1>1, <1>2 DEF ThinkFits
<1>6. TextFits'
  BY <1>1, <1>2 DEF TextFits, Arriving
<1>7. TokensFit'
  BY <1>1 DEF TokensFit, PhaseFits
<1>8. QED
  BY <1>3, <1>4, <1>5, <1>6, <1>7

\* A chunk of content concerns no call.
LEMMA ContentStep ==
    ASSUME StreamInv, Receiving, NEW o \in BOOLEAN, NEW c \in BOOLEAN, NEW txt,
           Carries("content", o, c, txt),
           UNCHANGED <<toolMeta, nextToolIndex>>,
           \A b \in ToolBlocks : blk'[b].text = blk[b].text
    PROVE  SlotFits' /\ CallsFit'
<1> USE DEF StreamInv, client
<1>1. slot'.kind = "content" /\ UNCHANGED <<driver, router, client, capsule>>
      /\ ~ slot'.stop /\ slot' # Empty /\ slot' # Failure
  BY SlotAfter DEF Carries
<1>2. router = "forwarding" /\ Healthy /\ slot.kind = "empty"
  BY WhileReceiving
<1>3. SlotFits'
  BY <1>1, <1>2 DEF SlotFits
<1>4. CallsFit'
  <2>1. \A i \in DOMAIN calls : calls[i].block \in ToolBlocks
    BY DEF CallsFit, TypeOK, ClientCall, ToolBlocks, Unknown
  <2>2. QED
    BY <1>1, <1>2, <2>1 DEF CallsFit
<1>5. QED
  BY <1>3, <1>4

\* A step that emits nothing and changes nothing of what was sent.
LEMMA QuietStep ==
    ASSUME StreamInv, Receiving, Quiet,
           UNCHANGED <<phase, thinkEmitted, toolMeta, nextToolIndex, reasoningTokens>>,
           \A c \in Blocks : /\ blk'[c].text = blk[c].text
                             /\ blk[c].text # {} => blk'[c].kind = blk[c].kind
    PROVE  SlotFits' /\ PhaseFits' /\ ThinkFits' /\ TextFits' /\ TokensFit' /\ CallsFit'
<1> USE DEF StreamInv, client
<1>1. slot.kind = "empty" /\ Healthy
  BY WhileReceiving
<1>2. UNCHANGED <<slot, driver, router, client, capsule>>
  BY DEF Quiet
<1>3. Shown("reasoning")' = Shown("reasoning") /\ Shown("text")' = Shown("text")
  BY ShownSame
<1>4. SlotFits' /\ PhaseFits' /\ ThinkFits'
  BY <1>1, <1>2 DEF SlotFits, PhaseFits, ThinkFits, Healthy
<1>5. TextFits' /\ TokensFit'
  BY <1>1, <1>2, <1>3 DEF TextFits, TokensFit, Healthy, Arriving
<1>6. CallsFit'
  <2>1. \A i \in DOMAIN calls : calls[i].block \in Blocks
    BY DEF TypeOK, ClientCall
  <2>2. QED
    BY <1>1, <1>2, <2>1 DEF CallsFit, Healthy
<1>7. QED
  BY <1>4, <1>5, <1>6
-----------------------------------------------------------------------------
(* One lemma for each kind of step *)

LEMMA MessageStartStep ==
    ASSUME StreamInv, MessageStart
    PROVE  BlocksFit' /\ Rest'
<1> USE DEF StreamInv, client, thinking
<1>1. Receiving /\ phase = "init" /\ phase' = "body" /\ slot' = Blank
      /\ UNCHANGED <<driver, router, client, capsule, blk, thinkEmitted, toolMeta,
                     nextToolIndex, reasoningTokens, thinking, toolUseSeen>>
  BY DEF MessageStart, Emit
<1>2. slot.kind = "empty" /\ Healthy /\ router = "forwarding" /\ inThink = thinkEmitted
  BY <1>1, WhileReceiving
<1>3. slot'.kind = "role" /\ slot' # Empty /\ slot' # Failure
      /\ ~ slot'.opens /\ ~ slot'.closes /\ ~ slot'.stop
  BY <1>1, ChunkFacts
<1>4. BlocksFit'
  BY <1>1, BlocksFrame
<1>5. Shown("reasoning")' = Shown("reasoning") /\ Shown("text")' = Shown("text")
  BY <1>1, ShownFrame
<1>6. SlotFits' /\ PhaseFits' /\ ThinkFits'
  BY <1>1, <1>2, <1>3 DEF SlotFits, PhaseFits, ThinkFits, Healthy
<1>7. TextFits' /\ TokensFit'
  BY <1>1, <1>2, <1>3, <1>5 DEF TextFits, TokensFit, Healthy, Arriving, PhaseFits
<1>8. CallsFit'
  BY <1>1, <1>2, <1>3 DEF CallsFit, Healthy
<1>9. CapsuleFits'
  BY <1>1, <1>2, <1>3, ReasonedFrame, CapsuleFrame
<1>10. QED
  BY <1>4, <1>6, <1>7, <1>8, <1>9 DEF Rest

LEMMA BlockStartStep ==
    ASSUME StreamInv, NEW b \in Blocks, ContentBlockStart(b)
    PROVE  BlocksFit' /\ Rest'
<1> USE DEF StreamInv, client, thinking
<1>1. PICK k \in {"text", "reasoning"} : Opened(b, k)
  BY DEF ContentBlockStart
<1>2. /\ Receiving /\ Quiet
      /\ UNCHANGED <<phase, thinkEmitted, toolMeta, nextToolIndex, reasoningTokens,
                     thinking, toolUseSeen>>
  BY DEF ContentBlockStart, Opened, Body
<1>3. /\ blk[b].kind = "text" /\ blk[b].text = {} /\ blk[b].sent = 0
      /\ blk[b].seal = "none" /\ toolMeta[b] = Unknown
      /\ blk'[b].kind = k /\ blk'[b].stage = "open" /\ blk'[b].text = {}
      /\ blk'[b].sent = 0 /\ blk'[b].seal = "none"
      /\ \A c \in Blocks \ {b} : blk'[c] = blk[c]
  BY <1>1, OpenedFacts
<1>4. BlocksFit'
  <2>1. \A c \in Blocks : IsPending(c)' = IsPending(c)
    BY <1>2 DEF IsPending
  <2>2. QED
    BY <1>2, <1>3, <2>1 DEF BlocksFit
<1>5. SlotFits' /\ PhaseFits' /\ ThinkFits' /\ TextFits' /\ TokensFit' /\ CallsFit'
  BY <1>2, <1>3, QuietStep
<1>6. CapsuleFits'
  <2>1. slot.kind = "empty" /\ Healthy
    BY <1>2, WhileReceiving
  <2>2. Reasoned' = Reasoned
    BY <1>3, ReasonedFrame
  <2>3. CASE capsule /\ ~ incomplete
    <3>1. b \notin Pending
      BY <1>3, <2>1, <2>3 DEF CapsuleFits
    <3>2. \A c \in Pending : blk'[c] = blk[c]
      BY <1>3, <3>1 DEF Pending
    <3>3. QED
      BY <1>2, <2>1, <2>2, <3>2, CapsuleFrame DEF Quiet
  <2>4. CASE ~ (capsule /\ ~ incomplete)
    <3>1. UNCHANGED <<capsule, incomplete, slot, router, toolUseSeen, calls,
                      reasoningBlocks>> /\ Pending' = Pending
      BY <1>2 DEF Quiet, Pending, IsPending
    <3>2. QED
      BY <2>1, <2>4, <3>1 DEF CapsuleFits, Healthy, TypeOK
  <2>5. QED
    BY <2>3, <2>4
<1>7. QED
  BY <1>4, <1>5, <1>6 DEF Rest

LEMMA TextDeltaStep ==
    ASSUME StreamInv, NEW b \in Blocks, TextDelta(b)
    PROVE  BlocksFit' /\ Rest'
<1> USE DEF StreamInv, thinking
<1>1. PICK txt \in TextOf(b) :
         /\ Fragment(b, "text") /\ Sent(b, txt)
         /\ Emit([Blank EXCEPT !.kind = "content", !.closes = thinkEmitted, !.text = txt])
         /\ thinkEmitted' = FALSE
         /\ UNCHANGED <<phase, toolMeta, nextToolIndex, reasoningTokens,
                        thinking, toolUseSeen>>
  BY DEF TextDelta
<1>2. /\ Receiving /\ phase = "body" /\ blk[b].kind = "text" /\ blk[b].stage = "open"
      /\ blk[b].sent < MaxFragments
  BY <1>1 DEF Fragment, Open, Body
<1>3. Grew(b, txt)
  BY <1>1, <1>2, GrewFacts
<1>4. txt \in SUBSET Fragments /\ thinkEmitted \in BOOLEAN
  BY <1>3 DEF Grew, TypeOK
<1>5. Carries("content", FALSE, thinkEmitted, txt)
  BY <1>1, <1>4, ClosingChunkFacts
<1>6. BlocksFit'
  <2>1. \A c \in Blocks : accum'[c].text = {} \/ IsPending(c)'
    BY <1>1 DEF BlocksFit, IsPending
  <2>2. QED
    BY <1>1, <1>2, <1>3, <2>1, GrewBlocks
<1>7. Shown("reasoning")' = Shown("reasoning") /\ Shown("text")' = Shown("text") \cup txt
  <2>1. \A kind : Shown(kind)' = Shown(kind) \cup (IF blk[b].kind = kind THEN txt ELSE {})
    BY <1>3, ShownGrew
  <2>2. Shown("reasoning")' = Shown("reasoning") \cup (IF blk[b].kind = "reasoning" THEN txt ELSE {})
    BY <2>1
  <2>3. Shown("text")' = Shown("text") \cup (IF blk[b].kind = "text" THEN txt ELSE {})
    BY <2>1
  <2>4. QED
    BY <1>2, <2>2, <2>3
<1>8. reasoningTokens' = Cardinality(Shown("reasoning")')
  BY <1>1, <1>2, <1>7, WhileReceiving
<1>9. PhaseFits' /\ ThinkFits' /\ TextFits' /\ TokensFit' /\ Healthy'
  BY <1>1, <1>2, <1>4, <1>5, <1>7, <1>8, ChunkStep
<1>10. SlotFits' /\ CallsFit'
  <2>1. b \notin ToolBlocks
    BY <1>2 DEF BlocksFit, ToolBlocks
  <2>2. \A c \in ToolBlocks : blk'[c].text = blk[c].text
    BY <1>3, <2>1 DEF Grew, ToolBlocks
  <2>3. QED
    BY <1>1, <1>2, <1>4, <1>5, <2>2, ContentStep
<1>11. CapsuleFits'
  <2>1. Healthy /\ slot'.kind = "content" /\ UNCHANGED <<capsule, calls>>
    BY <1>2, <1>5, WhileReceiving DEF Carries, client
  <2>2. Reasoned' = Reasoned
    BY <1>2, <1>3, ReasonedFrame DEF Grew
  <2>3. CASE capsule /\ ~ incomplete
    <3>1. b \notin Pending
      BY <1>2, <2>1, <2>3 DEF CapsuleFits
    <3>2. \A c \in Pending : blk'[c] = blk[c]
      BY <1>3, <3>1 DEF Pending, Grew
    <3>3. QED
      BY <1>1, <2>1, <2>2, <3>2, CapsuleFrame
  <2>4. CASE ~ (capsule /\ ~ incomplete)
    <3>1. Pending' = Pending
      BY <1>1 DEF Pending, IsPending
    <3>2. QED
      BY <1>1, <2>1, <2>4, <3>1 DEF CapsuleFits, TypeOK
  <2>5. QED
    BY <2>3, <2>4
<1>12. QED
  BY <1>6, <1>9, <1>10, <1>11 DEF Rest

\* A fragment of reasoning is new, so that counting it keeps the count.
LEMMA CountGrows ==
    ASSUME TypeOK, BlocksFit, NEW b \in Blocks, NEW txt, Grew(b, txt)
    PROVE  Cardinality(Shown("reasoning") \cup txt)
               = Cardinality(Shown("reasoning")) + Cardinality(txt)
<1>1. Shown("reasoning") \in SUBSET Fragments
  BY DEF Shown, TypeOK, Block
<1>2. IsFiniteSet(Shown("reasoning")) /\ Cardinality(Shown("reasoning")) \in Nat
  BY <1>1, FragmentsFinite
<1>3. CASE txt = {}
  <2>1. Shown("reasoning") \cup txt = Shown("reasoning") /\ Cardinality(txt) = 0
    BY <1>3, FS_EmptySet
  <2>2. Cardinality(Shown("reasoning") \cup txt) = Cardinality(Shown("reasoning"))
    BY <2>1
  <2>3. QED
    BY <1>2, <2>1, <2>2
<1>4. CASE txt = {<<b, blk[b].sent + 1>>}
  <2>1. <<b, blk[b].sent + 1>> \notin Shown("reasoning")
    BY FragmentFresh DEF Shown
  <2>2. Cardinality(Shown("reasoning") \cup {<<b, blk[b].sent + 1>>})
           = Cardinality(Shown("reasoning")) + 1
    BY <1>2, <2>1, FS_AddElement
  <2>3. Cardinality(txt) = 1
    BY <1>4, FS_Singleton
  <2>4. QED
    BY <1>4, <2>2, <2>3
<1>5. QED
  BY <1>3, <1>4 DEF Grew

LEMMA ReasoningTextStep ==
    ASSUME StreamInv, NEW b \in Blocks, ReasoningText(b)
    PROVE  BlocksFit' /\ Rest'
<1> USE DEF StreamInv
<1>1. PICK txt \in TextOf(b) :
         /\ ~ Interleaved /\ Fragment(b, "reasoning") /\ Sent(b, txt)
         /\ Accumulate(b, [text |-> accum[b].text \cup txt, textSeen |-> TRUE,
                           seal |-> accum[b].seal])
         /\ reasoningTokens' = reasoningTokens + CountTokens(txt)
         /\ Emit([Blank EXCEPT !.kind = "content", !.opens = ~ thinkEmitted, !.text = txt])
         /\ thinkEmitted' = TRUE
         /\ UNCHANGED <<phase, toolMeta, nextToolIndex, toolUseSeen>>
  BY DEF ReasoningText
<1>2. /\ Receiving /\ phase = "body" /\ blk[b].kind = "reasoning" /\ blk[b].stage = "open"
      /\ blk[b].seal = "none" /\ blk[b].sent < MaxFragments
  BY <1>1 DEF Fragment, Open, Body
<1>3. Grew(b, txt)
  BY <1>1, <1>2, GrewFacts
<1>4. txt \in SUBSET Fragments /\ thinkEmitted \in BOOLEAN /\ (~ thinkEmitted) \in BOOLEAN
  BY <1>3 DEF Grew, TypeOK
<1>5. Carries("content", ~ thinkEmitted, FALSE, txt)
  BY <1>1, <1>4, OpeningChunkFacts
<1>6. /\ UNCHANGED <<reasoningBlocks, incomplete>>
      /\ \A c \in Blocks \ {b} : accum'[c] = accum[c]
      /\ accum'[b] = IF capsule THEN [text |-> accum[b].text \cup txt, textSeen |-> TRUE,
                                      seal |-> accum[b].seal]
                     ELSE accum[b]
  BY <1>1 DEF Accumulate, TypeOK
<1>7. BlocksFit'
  <2>1. \A c \in Blocks : accum'[c].text = {} \/ IsPending(c)'
    BY <1>6 DEF BlocksFit, IsPending
  <2>2. QED
    BY <1>1, <1>2, <1>3, <2>1, GrewBlocks
<1>8. Shown("reasoning")' = Shown("reasoning") \cup txt /\ Shown("text")' = Shown("text")
  <2>1. \A kind : Shown(kind)' = Shown(kind) \cup (IF blk[b].kind = kind THEN txt ELSE {})
    BY <1>3, ShownGrew
  <2>2. Shown("reasoning")' = Shown("reasoning") \cup (IF blk[b].kind = "reasoning" THEN txt ELSE {})
    BY <2>1
  <2>3. Shown("text")' = Shown("text") \cup (IF blk[b].kind = "text" THEN txt ELSE {})
    BY <2>1
  <2>4. QED
    BY <1>2, <2>2, <2>3
<1>9. reasoningTokens' = Cardinality(Shown("reasoning")')
  BY <1>1, <1>2, <1>3, <1>8, WhileReceiving, CountGrows DEF CountTokens
<1>10. PhaseFits' /\ ThinkFits' /\ TextFits' /\ TokensFit' /\ Healthy'
  BY <1>1, <1>2, <1>4, <1>5, <1>8, <1>9, ChunkStep
<1>11. SlotFits' /\ CallsFit'
  <2>1. b \notin ToolBlocks
    BY <1>2 DEF BlocksFit, ToolBlocks
  <2>2. \A c \in ToolBlocks : blk'[c].text = blk[c].text
    BY <1>3, <2>1 DEF Grew, ToolBlocks
  <2>3. QED
    BY <1>1, <1>2, <1>4, <1>5, <2>2, ContentStep
<1>12. CapsuleFits'
  <2>1. Healthy /\ slot'.kind = "content" /\ UNCHANGED <<capsule, calls>>
    BY <1>2, <1>5, WhileReceiving DEF Carries, client
  <2>2. SUFFICES ASSUME capsule PROVE CapsuleFits'
    BY <2>1 DEF CapsuleFits
  <2>3. ~ toolUseSeen /\ ~ toolUseSeen' /\ DOMAIN calls = {}
    BY <1>1, <2>1, <2>2 DEF Interleaved, CapsuleFits
  <2>4. CASE incomplete
    BY <1>6, <2>1, <2>3, <2>4 DEF CapsuleFits
  <2>5. CASE ~ incomplete
    <3>1. /\ \A c \in Pending :
                /\ blk[c].kind = "reasoning" /\ accum[c].text = blk[c].text
                /\ accum[c].textSeen = (blk[c].sent > 0)
                /\ accum[c].seal = blk[c].seal
          /\ reasoningBlocks = {r \in Reasoned : r.block \notin Pending}
      BY <2>1, <2>2, <2>5 DEF CapsuleFits
    <3>2. Pending' = Pending \cup {b} /\ accum'[b].textSeen
      BY <1>6, <2>2 DEF Pending, IsPending
    <3>3. blk[b].sent \in Nat /\ blk'[b].sent > 0
      BY <1>3, MaxFragmentsAssumption DEF Grew, TypeOK, Block
    <3>4. accum[b].text = blk[b].text /\ accum[b].seal = "none"
      <4>1. CASE b \in Pending
        BY <1>2, <3>1, <4>1
      <4>2. CASE b \notin Pending
        <5>1. accum[b].text = {} /\ accum[b].seal = "none"
          BY <4>2 DEF Pending, IsPending, BlocksFit
        <5>2. ~ (blk[b].sent > 0)
          <6>1. SUFFICES ASSUME blk[b].sent > 0 PROVE FALSE
            OBVIOUS
          <6>2. [block |-> b, text |-> blk[b].text, seal |-> blk[b].seal] \in Reasoned
            BY <1>2, <6>1 DEF Reasoned
          <6>3. [block |-> b, text |-> blk[b].text, seal |-> blk[b].seal] \in reasoningBlocks
            BY <3>1, <4>2, <6>2
          <6>4. blk[b].seal # "none"
            BY <6>3 DEF TypeOK, Sealed
          <6>5. QED
            BY <1>2, <6>4
        <5>3. blk[b].text \subseteq {b} \X (1 .. 0)
          BY <3>3, <5>2 DEF BlocksFit, TypeOK, Block
        <5>4. QED
          BY <5>1, <5>3
      <4>3. QED
        BY <4>1, <4>2
    <3>5. \A c \in Pending' :
             /\ blk'[c].kind = "reasoning" /\ accum'[c].text = blk'[c].text
             /\ accum'[c].textSeen = (blk'[c].sent > 0)
             /\ accum'[c].seal = blk'[c].seal
      <4>1. ASSUME NEW c \in Pending, c # b
            PROVE  /\ blk'[c].kind = "reasoning" /\ accum'[c].text = blk'[c].text
                   /\ accum'[c].textSeen = (blk'[c].sent > 0)
                   /\ accum'[c].seal = blk'[c].seal
        <5>1. c \in Blocks \ {b}
          BY <4>1 DEF Pending
        <5>2. QED
          BY <1>3, <1>6, <3>1, <5>1 DEF Grew
      <4>2. /\ blk'[b].kind = "reasoning" /\ accum'[b].text = blk'[b].text
            /\ accum'[b].textSeen = (blk'[b].sent > 0)
            /\ accum'[b].seal = blk'[b].seal
        <5>1. blk'[b].kind = "reasoning" /\ blk'[b].text = blk[b].text \cup txt
              /\ blk'[b].seal = "none"
          BY <1>2, <1>3 DEF Grew
        <5>2. accum'[b].text = accum[b].text \cup txt /\ accum'[b].textSeen = TRUE
              /\ accum'[b].seal = accum[b].seal
          BY <1>6, <2>2
        <5>3. (blk'[b].sent > 0) = TRUE
          BY <3>3
        <5>4. QED
          BY <3>4, <5>1, <5>2, <5>3
      <4>3. QED
        BY <3>2, <4>1, <4>2
    <3>6. {r \in Reasoned' : r.block \notin Pending'} = reasoningBlocks
      <4>1. \A r \in reasoningBlocks : r.block # b
        <5>1. SUFFICES ASSUME NEW r \in reasoningBlocks, r.block = b PROVE FALSE
          OBVIOUS
        <5>2. r.seal # "none"
          BY DEF TypeOK, Sealed
        <5>3. r.seal = blk[b].seal
          BY <3>1, <5>1 DEF Reasoned
        <5>4. QED
          BY <1>2, <5>2, <5>3
      <4>2. ASSUME NEW c \in Blocks, c # b
            PROVE  blk'[c] = blk[c]
        BY <1>3, <4>2 DEF Grew
      <4>3. \A r : (r \in Reasoned' /\ r.block # b) <=> (r \in Reasoned /\ r.block # b)
        BY <4>2 DEF Reasoned
      <4>4. QED
        BY <3>1, <3>2, <4>1, <4>3
    <3>7. QED
      BY <1>6, <2>1, <2>3, <3>5, <3>6 DEF CapsuleFits
  <2>6. QED
    BY <2>4, <2>5
<1>13. QED
  BY <1>7, <1>10, <1>11, <1>12 DEF Rest

LEMMA InterleavedStep ==
    ASSUME StreamInv, NEW b \in Blocks, InterleavedReasoning(b)
    PROVE  BlocksFit' /\ Rest'
<1> USE DEF StreamInv, thinking
<1>1. /\ Receiving /\ blk[b].stage = "open" /\ Fail
      /\ UNCHANGED <<phase, toolMeta, thinking>>
  BY DEF InterleavedReasoning, Open, Body
<1>2. \A c \in Blocks : accum'[c].text = {} \/ IsPending(c)'
  BY <1>1 DEF BlocksFit, IsPending
<1>3. ASSUME NEW txt \in TextOf(b), Sent(b, txt), blk[b].sent < MaxFragments
      PROVE  BlocksFit' /\ Grows
  <2>1. Grew(b, txt)
    BY <1>3, GrewFacts
  <2>2. QED
    BY <1>1, <1>2, <2>1, GrewBlocks
<1>4. ASSUME NEW seal, blk' = [blk EXCEPT ![b].seal = seal]
      PROVE  BlocksFit' /\ Grows
  <2>1. \A c \in Blocks :
           /\ blk'[c].kind = blk[c].kind /\ blk'[c].text = blk[c].text
           /\ blk'[c].sent = blk[c].sent /\ blk'[c].stage = blk[c].stage
           /\ c # b => blk'[c].seal = blk[c].seal
    BY <1>4 DEF TypeOK, Block
  <2>2. BlocksFit'
    BY <1>1, <1>2, <2>1 DEF BlocksFit
  <2>3. QED
    BY <2>1, <2>2 DEF Grows
<1>5. QED
  BY <1>1, <1>3, <1>4, FailStep DEF InterleavedReasoning

\* No two tool blocks share an index: there are as many of one as of the other.
LEMMA IndicesDiffer ==
    ASSUME TypeOK, NEW b \in ToolBlocks, NEW c \in ToolBlocks, toolMeta[b] = toolMeta[c]
    PROVE  b = c
<1> DEFINE T == 0 .. nextToolIndex - 1
           f == [a \in ToolBlocks |-> toolMeta[a]]
<1>1. IsFiniteSet(ToolBlocks)
  BY BlocksAssumption, FS_Subset DEF ToolBlocks
<1>2. nextToolIndex \in Nat /\ nextToolIndex = Cardinality(ToolBlocks)
  BY <1>1, FS_CardinalityType DEF TypeOK
<1>3. Cardinality(T) = Cardinality(ToolBlocks)
  BY <1>2, FS_Interval
<1>4. {toolMeta[a] : a \in ToolBlocks} = T
  BY DEF TypeOK
<1>5. f \in Surjection(ToolBlocks, T)
  BY <1>4 DEF Surjection
<1> HIDE DEF f, T
<1>6. f \in Injection(ToolBlocks, T)
  BY <1>1, <1>3, <1>5, FS_SurjSameCardinalityImpliesInj
<1>7. f[b] = f[c]
  BY DEF f
<1>8. QED
  BY <1>6, <1>7 DEF Injection, IsInjective

LEMMA ReasoningSealStep ==
    ASSUME StreamInv, NEW b \in Blocks, NEW seal \in {"signature", "redacted"},
           ReasoningSeal(b, seal)
    PROVE  BlocksFit' /\ Rest'
<1> USE DEF StreamInv
<1>1. /\ Receiving /\ phase = "body" /\ blk[b].kind = "reasoning" /\ blk[b].stage = "open"
      /\ blk[b].seal = "none" /\ ~ Interleaved
      /\ blk' = [blk EXCEPT ![b].seal = seal]
      /\ Accumulate(b, [accum[b] EXCEPT !.seal = seal])
      /\ UNCHANGED <<phase, toolMeta, nextToolIndex, reasoningTokens, toolUseSeen>>
  BY DEF ReasoningSeal, Open, Body
<1>2. /\ \A c \in Blocks \ {b} : blk'[c] = blk[c]
      /\ \A c \in Blocks : /\ blk'[c].kind = blk[c].kind /\ blk'[c].text = blk[c].text
                           /\ blk'[c].sent = blk[c].sent /\ blk'[c].stage = blk[c].stage
      /\ blk'[b].seal = seal
  BY <1>1 DEF TypeOK, Block
<1>3. /\ UNCHANGED <<reasoningBlocks, incomplete>>
      /\ \A c \in Blocks \ {b} : accum'[c] = accum[c]
      /\ ~ capsule => accum'[b] = accum[b]
      /\ capsule => /\ accum'[b].seal = seal /\ accum'[b].text = accum[b].text
                    /\ accum'[b].textSeen = accum[b].textSeen
  BY <1>1 DEF Accumulate, TypeOK, Accum
<1>4. BlocksFit'
  <2>1. \A c \in Blocks : IsPending(c) => IsPending(c)'
    BY <1>3 DEF IsPending
  <2>2. \A c \in Blocks : accum'[c].text = accum[c].text
    BY <1>3
  <2>3. QED
    BY <1>1, <1>2, <2>1, <2>2 DEF BlocksFit
<1>5. Shown("reasoning")' = Shown("reasoning") /\ Shown("text")' = Shown("text")
  BY <1>2, ShownSame
<1>6. /\ SlotFits' /\ PhaseFits' /\ ThinkFits' /\ TextFits' /\ TokensFit' /\ CallsFit'
      /\ UNCHANGED <<capsule, calls>> /\ slot'.kind # "call"
  <2>1. CASE seal = "signature" /\ thinkEmitted
    <3>1. Emit([Blank EXCEPT !.kind = "content", !.closes = TRUE]) /\ thinkEmitted' = FALSE
      BY <2>1 DEF ReasoningSeal
    <3>2. Carries("content", FALSE, TRUE, {})
      BY <3>1, SignatureChunkFacts
    <3>3. reasoningTokens' = Cardinality(Shown("reasoning")')
      BY <1>1, <1>5, WhileReceiving
    <3>4. PhaseFits' /\ ThinkFits' /\ TextFits' /\ TokensFit'
      BY <1>1, <1>5, <3>1, <3>2, <3>3, ChunkStep
    <3>5. SlotFits' /\ CallsFit'
      BY <1>1, <1>2, <3>2, ContentStep DEF ToolBlocks
    <3>6. QED
      BY <3>2, <3>4, <3>5 DEF Carries, client
  <2>2. CASE ~ (seal = "signature" /\ thinkEmitted)
    <3>1. Quiet /\ thinkEmitted' = thinkEmitted
      BY <2>2 DEF ReasoningSeal
    <3>2. QED
      BY <1>1, <1>2, <3>1, QuietStep, WhileReceiving DEF Quiet, client
  <2>3. QED
    BY <2>1, <2>2
<1>7. CapsuleFits'
  <2>1. Healthy
    BY <1>1, WhileReceiving
  <2>2. SUFFICES ASSUME capsule PROVE CapsuleFits'
    BY <1>6 DEF CapsuleFits
  <2>3. ~ toolUseSeen /\ ~ toolUseSeen' /\ DOMAIN calls = {}
    BY <1>1, <2>1, <2>2 DEF Interleaved, CapsuleFits
  <2>4. CASE incomplete
    BY <1>3, <1>6, <2>1, <2>3, <2>4 DEF CapsuleFits
  <2>5. CASE ~ incomplete
    <3>1. /\ \A c \in Pending :
                /\ blk[c].kind = "reasoning" /\ accum[c].text = blk[c].text
                /\ accum[c].textSeen = (blk[c].sent > 0)
                /\ accum[c].seal = blk[c].seal
          /\ reasoningBlocks = {r \in Reasoned : r.block \notin Pending}
      BY <2>1, <2>2, <2>5 DEF CapsuleFits
    <3>2. Pending' = Pending \cup {b}
      BY <1>3, <2>2 DEF Pending, IsPending
    <3>3. blk[b].sent \in Nat /\ accum[b].textSeen \in BOOLEAN
      BY MaxFragmentsAssumption DEF TypeOK, Block, Accum
    <3>4. accum[b].text = blk[b].text /\ accum[b].textSeen = (blk[b].sent > 0)
      <4>1. CASE b \in Pending
        BY <3>1, <4>1
      <4>2. CASE b \notin Pending
        <5>1. accum[b].text = {} /\ accum[b].seal = "none" /\ ~ accum[b].textSeen
          BY <4>2 DEF Pending, IsPending, BlocksFit
        <5>2. ~ (blk[b].sent > 0)
          <6>1. SUFFICES ASSUME blk[b].sent > 0 PROVE FALSE
            OBVIOUS
          <6>2. [block |-> b, text |-> blk[b].text, seal |-> blk[b].seal] \in Reasoned
            BY <1>1, <6>1 DEF Reasoned
          <6>3. [block |-> b, text |-> blk[b].text, seal |-> blk[b].seal] \in reasoningBlocks
            BY <3>1, <4>2, <6>2
          <6>4. blk[b].seal # "none"
            BY <6>3 DEF TypeOK, Sealed
          <6>5. QED
            BY <1>1, <6>4
        <5>3. blk[b].text \subseteq {b} \X (1 .. 0)
          BY <3>3, <5>2 DEF BlocksFit
        <5>4. blk[b].text = {}
          BY <5>3
        <5>5. QED
          BY <3>3, <5>1, <5>2, <5>4
      <4>3. QED
        BY <4>1, <4>2
    <3>5. \A c \in Pending' :
             /\ blk'[c].kind = "reasoning" /\ accum'[c].text = blk'[c].text
             /\ accum'[c].textSeen = (blk'[c].sent > 0)
             /\ accum'[c].seal = blk'[c].seal
      <4>1. ASSUME NEW c \in Pending, c # b
            PROVE  /\ blk'[c].kind = "reasoning" /\ accum'[c].text = blk'[c].text
                   /\ accum'[c].textSeen = (blk'[c].sent > 0)
                   /\ accum'[c].seal = blk'[c].seal
        <5>1. c \in Blocks \ {b}
          BY <4>1 DEF Pending
        <5>2. QED
          BY <1>2, <1>3, <3>1, <5>1
      <4>2. /\ blk'[b].kind = "reasoning" /\ accum'[b].text = blk'[b].text
            /\ accum'[b].textSeen = (blk'[b].sent > 0)
            /\ accum'[b].seal = blk'[b].seal
        BY <1>1, <1>2, <1>3, <2>2, <3>4
      <4>3. QED
        BY <3>2, <4>1, <4>2
    <3>6. {r \in Reasoned' : r.block \notin Pending'} = reasoningBlocks
      <4>1. \A r \in reasoningBlocks : r.block # b
        <5>1. SUFFICES ASSUME NEW r \in reasoningBlocks, r.block = b PROVE FALSE
          OBVIOUS
        <5>2. r.seal # "none"
          BY DEF TypeOK, Sealed
        <5>3. r.seal = blk[b].seal
          BY <3>1, <5>1 DEF Reasoned
        <5>4. QED
          BY <1>1, <5>2, <5>3
      <4>2. \A r : (r \in Reasoned' /\ r.block # b) <=> (r \in Reasoned /\ r.block # b)
        BY <1>2 DEF Reasoned
      <4>3. QED
        BY <3>1, <3>2, <4>1, <4>2
    <3>7. QED
      BY <1>3, <1>6, <2>1, <2>3, <3>5, <3>6 DEF CapsuleFits
  <2>6. QED
    BY <2>4, <2>5
<1>8. QED
  BY <1>4, <1>6, <1>7 DEF Rest

LEMMA ToolInputStep ==
    ASSUME StreamInv, NEW b \in Blocks, ToolInput(b)
    PROVE  BlocksFit' /\ Rest'
<1> USE DEF StreamInv, thinking
<1> DEFINE txt == {<<b, blk[b].sent + 1>>}
<1>1. /\ Receiving /\ phase = "body" /\ blk[b].kind = "tool" /\ blk[b].stage = "open"
      /\ blk[b].sent < MaxFragments /\ Sent(b, txt) /\ Allocate(b)
      /\ Emit([Blank EXCEPT !.kind = "args", !.index = ToolIndexFor(b), !.text = txt])
      /\ UNCHANGED <<phase, thinkEmitted, reasoningTokens, thinking, toolUseSeen>>
  BY DEF ToolInput, Fragment, Open, Body
<1>2. toolMeta[b] # Unknown
  BY <1>1 DEF BlocksFit
<1>3. /\ ToolIndexFor(b) \in Nat /\ ToolIndexFor(b) = toolMeta[b]
      /\ UNCHANGED <<toolMeta, nextToolIndex>>
  BY <1>1, <1>2, AllocateFacts DEF ToolIndexFor
<1>4. Grew(b, txt)
  BY <1>1, GrewFacts
<1>5. txt \in SUBSET Fragments
  BY <1>4 DEF Grew
<1> HIDE DEF txt
<1>6. Carries("args", FALSE, FALSE, txt) /\ slot'.index = toolMeta[b]
  BY <1>1, <1>3, <1>5, ArgsChunkFacts
<1>7. BlocksFit'
  <2>1. \A c \in Blocks : accum'[c].text = {} \/ IsPending(c)'
    BY <1>1 DEF BlocksFit, IsPending
  <2>2. QED
    BY <1>1, <1>3, <1>4, <2>1, GrewBlocks
<1>8. Shown("reasoning")' = Shown("reasoning") /\ Shown("text")' = Shown("text")
  <2>1. \A kind : Shown(kind)' = Shown(kind) \cup (IF blk[b].kind = kind THEN txt ELSE {})
    BY <1>4, ShownGrew
  <2>2. Shown("reasoning")' = Shown("reasoning") \cup (IF blk[b].kind = "reasoning" THEN txt ELSE {})
    BY <2>1
  <2>3. Shown("text")' = Shown("text") \cup (IF blk[b].kind = "text" THEN txt ELSE {})
    BY <2>1
  <2>4. QED
    BY <1>1, <2>2, <2>3
<1>9. reasoningTokens' = Cardinality(Shown("reasoning")')
  BY <1>1, <1>8, WhileReceiving
<1>10. PhaseFits' /\ ThinkFits' /\ TextFits' /\ TokensFit' /\ Healthy'
  <2>1. thinkEmitted' = thinkEmitted /\ thinkEmitted \in BOOLEAN
    BY <1>1 DEF TypeOK
  <2>2. QED
    BY <1>1, <1>6, <1>8, <1>9, <2>1, ChunkStep
<1>11. /\ slot'.kind = "args" /\ slot' # Empty /\ slot' # Failure /\ ~ slot'.opens
       /\ ~ slot'.closes /\ ~ slot'.stop /\ slot'.text = txt
       /\ UNCHANGED <<driver, router, calls, capsule>>
  BY <1>6, SlotAfter DEF Carries, client
<1>12. router = "forwarding" /\ Healthy /\ slot.kind = "empty"
  BY <1>1, WhileReceiving
<1>13. SlotFits'
  <2>1. txt = {<<b, blk'[b].sent>>}
    BY <1>4 DEF txt, Grew
  <2>2. \E c \in Blocks : /\ toolMeta'[c] = slot'.index /\ slot'.index # Unknown
                          /\ slot'.text = {<<c, blk'[c].sent>>}
    BY <1>2, <1>3, <1>6, <1>11, <2>1
  <2>3. QED
    BY <1>11, <1>12, <2>2 DEF SlotFits
<1>14. CallsFit'
  <2>1. ASSUME NEW i \in DOMAIN calls
        PROVE  /\ calls[i].args \subseteq blk'[calls[i].block].text
               /\ blk'[calls[i].block].text =
                    calls[i].args \cup (IF slot'.index = i THEN txt ELSE {})
               /\ txt \cap calls[i].args = {}
    <3>0. txt \cap calls[i].args = {}
      <4>1. calls[i].block \in Blocks
        BY DEF TypeOK, ClientCall
      <4>2. blk[calls[i].block].text = calls[i].args
        BY <1>1, WhileReceiving
      <4>3. <<b, blk[b].sent + 1>> \notin blk[calls[i].block].text
        BY <4>1, FragmentFresh
      <4>4. QED
        BY <4>2, <4>3 DEF txt
    <3>1. calls[i].block \in Blocks /\ toolMeta[calls[i].block] = i
      BY DEF CallsFit, TypeOK, ClientCall
    <3>2. blk[calls[i].block].text = calls[i].args
      BY <1>1, WhileReceiving
    <3>3. CASE calls[i].block = b
      BY <1>4, <1>6, <3>0, <3>1, <3>2, <3>3 DEF Grew
    <3>4. CASE calls[i].block # b
      <4>1. blk'[calls[i].block] = blk[calls[i].block]
        BY <1>4, <3>1, <3>4 DEF Grew
      <4>2. slot'.index # i
        <5>1. toolMeta[b] # toolMeta[calls[i].block]
          BY <1>2, <3>1, <3>4, IndicesDiffer DEF ToolBlocks
        <5>2. QED
          BY <1>6, <3>1, <5>1
      <4>3. QED
        BY <3>0, <3>2, <4>1, <4>2
    <3>5. QED
      BY <3>3, <3>4
  <2>2. QED
    BY <1>3, <1>11, <1>12, <2>1 DEF CallsFit
<1>15. CapsuleFits'
  <2>1. Reasoned' = Reasoned
    BY <1>1, <1>4, ReasonedFrame DEF Grew
  <2>2. CASE capsule /\ ~ incomplete
    <3>1. b \notin Pending
      BY <1>1, <1>12, <2>2 DEF CapsuleFits
    <3>2. \A c \in Pending : blk'[c] = blk[c]
      BY <1>4, <3>1 DEF Pending, Grew
    <3>3. QED
      BY <1>1, <1>11, <1>12, <2>1, <3>2, CapsuleFrame
  <2>3. CASE ~ (capsule /\ ~ incomplete)
    <3>1. Pending' = Pending
      BY <1>1 DEF Pending, IsPending
    <3>2. QED
      BY <1>1, <1>11, <1>12, <2>3, <3>1 DEF CapsuleFits, TypeOK
  <2>4. QED
    BY <2>2, <2>3
<1>16. QED
  BY <1>7, <1>10, <1>13, <1>14, <1>15 DEF Rest

\* Finalizing sealed blocks moves them from the accumulator to the sealed ones.
LEMMA FinalizeSeals ==
    ASSUME StreamInv, Healthy, capsule, NEW S \in SUBSET Pending, Finalize(S), ~ incomplete'
    PROVE  /\ ~ incomplete /\ Pending' = Pending \ S
           /\ \A c \in Pending' : accum'[c] = accum[c]
           /\ reasoningBlocks' = {r \in Reasoned : r.block \notin Pending \ S}
<1> USE DEF StreamInv
<1>1. ~ incomplete /\ S = Completed(S)
  BY DEF Finalize
<1>2. S \subseteq Blocks /\ Pending \subseteq Blocks
  BY DEF Pending
<1>3. \A c \in Blocks : accum'[c] = IF c \in S THEN Absent ELSE accum[c]
  BY DEF Finalize
<1>4. Pending' = Pending \ S
  BY <1>2, <1>3 DEF Pending, IsPending, Absent
<1>5. \A c \in Pending' : accum'[c] = accum[c]
  BY <1>2, <1>3, <1>4
<1>6. reasoningBlocks = {r \in Reasoned : r.block \notin Pending}
  BY <1>1 DEF CapsuleFits
<1>7. \A c \in S : /\ blk[c].kind = "reasoning" /\ blk[c].seal # "none"
                   /\ accum[c].text = blk[c].text /\ accum[c].seal = blk[c].seal
  BY <1>1 DEF CapsuleFits, Completed
<1>8. {[block |-> c, text |-> accum[c].text, seal |-> accum[c].seal] : c \in S}
         = {r \in Reasoned : r.block \in S}
  BY <1>2, <1>7 DEF Reasoned
<1>9. reasoningBlocks' = {r \in Reasoned : r.block \notin Pending}
                            \cup {r \in Reasoned : r.block \in S}
  BY <1>1, <1>6, <1>8 DEF Finalize
<1>10. QED
  BY <1>1, <1>4, <1>5, <1>9

LEMMA FinalizeBlocks ==
    ASSUME BlocksFit, NEW S \in SUBSET Blocks, Finalize(S), NEW c \in Blocks
    PROVE  ~ IsPending(c)' => accum'[c].text = {}
BY DEF Finalize, BlocksFit, IsPending, Absent

LEMMA BlockStopStep ==
    ASSUME StreamInv, NEW b \in Blocks, ContentBlockStop(b)
    PROVE  BlocksFit' /\ Rest'
<1> USE DEF StreamInv
<1>1. /\ Receiving /\ Quiet /\ blk[b].stage = "open"
      /\ blk' = [blk EXCEPT ![b].stage = "stopped"]
      /\ IF capsule THEN Finalize({b} \cap Pending) ELSE UNCHANGED thinking
      /\ UNCHANGED <<phase, thinkEmitted, toolMeta, nextToolIndex, reasoningTokens, toolUseSeen>>
  BY DEF ContentBlockStop, Body
<1>2. /\ \A c \in Blocks : /\ blk'[c].kind = blk[c].kind /\ blk'[c].text = blk[c].text
                           /\ blk'[c].sent = blk[c].sent /\ blk'[c].seal = blk[c].seal
      /\ blk'[b].stage = "stopped" /\ \A c \in Blocks \ {b} : blk'[c] = blk[c]
  BY <1>1 DEF TypeOK, Block
<1>3. BlocksFit'
  <2>1. \A c \in Blocks : ~ IsPending(c)' => accum'[c].text = {}
    <3>1. CASE capsule
      <4>1. Finalize({b} \cap Pending) /\ {b} \cap Pending \in SUBSET Blocks
        BY <1>1, <3>1
      <4>2. QED
        BY <4>1, FinalizeBlocks
    <3>2. CASE ~ capsule
      BY <1>1, <3>2 DEF BlocksFit, IsPending, thinking
    <3>3. QED
      BY <3>1, <3>2
  <2>2. ASSUME NEW c \in Blocks
        PROVE  blk'[c].stage = "idle" =>
                  blk'[c].kind = "text" /\ blk'[c].sent = 0 /\ blk'[c].seal = "none"
    <3>1. blk'[c].stage = "idle" => blk[c].stage = "idle"
      BY <1>2
    <3>2. QED
      BY <1>2, <3>1 DEF BlocksFit
  <2>3. QED
    BY <1>1, <1>2, <2>1, <2>2 DEF BlocksFit
<1>4. SlotFits' /\ PhaseFits' /\ ThinkFits' /\ TextFits' /\ TokensFit' /\ CallsFit'
  BY <1>1, <1>2, QuietStep
<1>5. CapsuleFits'
  <2>1. Healthy /\ slot.kind = "empty" /\ UNCHANGED <<slot, router, calls, capsule>>
    BY <1>1, WhileReceiving DEF Quiet, client
  <2>2. SUFFICES ASSUME capsule PROVE CapsuleFits'
    BY <2>1 DEF CapsuleFits
  <2> DEFINE S == {b} \cap Pending
  <2>3. Finalize(S) /\ S \in SUBSET Pending
    BY <1>1, <2>2
  <2>4. Reasoned' = Reasoned
    BY <1>2, ReasonedFrame
  <2>5. CASE toolUseSeen
    <3>1. Pending = {} /\ ~ incomplete
      BY <2>1, <2>2, <2>5 DEF CapsuleFits
    <3>2. S = {}
      BY <3>1
    <3>3. accum' = [c \in Blocks |-> accum[c]] /\ incomplete' = incomplete
          /\ reasoningBlocks' = reasoningBlocks
      BY <2>3, <3>2 DEF Finalize, Completed, TypeOK
    <3>4. Pending' = {}
      BY <3>1, <3>3 DEF Pending, IsPending
    <3>5. QED
      BY <1>1, <2>1, <2>4, <2>5, <3>1, <3>3, <3>4 DEF CapsuleFits
  <2>6. CASE ~ toolUseSeen
    <3>1. DOMAIN calls = {} /\ ~ toolUseSeen'
      BY <1>1, <2>1, <2>2, <2>6 DEF CapsuleFits
    <3>2. CASE incomplete'
      BY <2>1, <3>1, <3>2 DEF CapsuleFits
    <3>3. CASE ~ incomplete'
      <4>1. /\ ~ incomplete /\ Pending' = Pending \ S
            /\ \A c \in Pending' : accum'[c] = accum[c]
            /\ reasoningBlocks' = {r \in Reasoned : r.block \notin Pending \ S}
        BY <2>1, <2>2, <2>3, <3>3, FinalizeSeals
      <4>2. \A c \in Pending' :
               /\ blk'[c].kind = "reasoning" /\ accum'[c].text = blk'[c].text
               /\ accum'[c].textSeen = (blk'[c].sent > 0)
               /\ accum'[c].seal = blk'[c].seal
        <5>1. Pending' \subseteq Pending /\ Pending \subseteq Blocks
          BY <4>1 DEF Pending
        <5>2. QED
          BY <1>2, <2>1, <2>2, <4>1, <5>1 DEF CapsuleFits
      <4> HIDE DEF S
      <4>3. reasoningBlocks' = {r \in Reasoned' : r.block \notin Pending'}
        BY <2>4, <4>1
      <4>4. QED
        BY <2>1, <3>1, <4>2, <4>3 DEF CapsuleFits
    <3>4. QED
      BY <3>2, <3>3
  <2>7. QED
    BY <2>5, <2>6
<1>6. QED
  BY <1>3, <1>4, <1>5 DEF Rest

LEMMA StopStep ==
    ASSUME StreamInv, MessageStop
    PROVE  BlocksFit' /\ Rest'
<1> USE DEF StreamInv, thinking, client
<1>1. /\ Receiving /\ phase = "body" /\ phase' = "stopped" /\ thinkEmitted' = FALSE
      /\ UNCHANGED <<blk, toolMeta, nextToolIndex, reasoningTokens, thinking, toolUseSeen>>
  BY DEF MessageStop, Body
<1>2. /\ slot'.kind = "stop" /\ slot'.stop /\ ~ slot'.opens /\ slot'.closes = thinkEmitted
      /\ slot' # Empty /\ slot' # Failure
      /\ UNCHANGED <<driver, router, client, capsule>>
  <2>1. Carries("stop", FALSE, thinkEmitted, {})
    BY StopChunkFacts DEF MessageStop, TypeOK
  <2>2. QED
    BY <2>1, SlotAfter DEF Carries
<1>3. slot.kind = "empty" /\ Healthy /\ router = "forwarding" /\ inThink = thinkEmitted
  BY <1>1, WhileReceiving
<1>4. BlocksFit'
  BY <1>1, BlocksFrame
<1>5. Shown("reasoning")' = Shown("reasoning") /\ Shown("text")' = Shown("text")
  BY <1>1, ShownFrame
<1>6. SlotFits' /\ ThinkFits'
  BY <1>1, <1>2, <1>3 DEF SlotFits, ThinkFits, Healthy
<1>7. PhaseFits'
  BY <1>1, <1>2, <1>3 DEF PhaseFits
<1>8. TextFits' /\ TokensFit'
  BY <1>1, <1>2, <1>3, <1>5 DEF TextFits, TokensFit, Healthy, Arriving, PhaseFits
<1>9. CallsFit'
  BY <1>1, <1>2, <1>3 DEF CallsFit, Healthy
<1>10. CapsuleFits'
  BY <1>1, <1>2, <1>3, ReasonedFrame, CapsuleFrame
<1>11. QED
  BY <1>4, <1>6, <1>7, <1>8, <1>9, <1>10 DEF Rest

LEMMA MetadataStep ==
    ASSUME StreamInv, Metadata
    PROVE  BlocksFit' /\ Rest'
<1> USE DEF StreamInv, thinking, client
<1>1. /\ Receiving /\ phase = "stopped" /\ phase' = "metered"
      /\ UNCHANGED <<blk, thinkEmitted, toolMeta, nextToolIndex, reasoningTokens,
                     thinking, toolUseSeen>>
  BY DEF Metadata
<1>2. /\ slot.kind = "empty" /\ slot = Empty /\ Healthy /\ router = "forwarding"
      /\ inThink = thinkEmitted /\ reasoningTokens = Cardinality(inside) /\ finish
      /\ usage = Unknown
  BY <1>1, WhileReceiving DEF PhaseFits
<1>3. /\ slot'.kind = "usage" \/ slot' = Empty
      /\ slot'.kind = "usage" => slot' # Empty /\ slot'.tokens = reasoningTokens
      /\ slot'.kind \in {"usage", "empty"}
      /\ slot' # Failure /\ ~ slot'.opens /\ ~ slot'.closes /\ ~ slot'.stop
      /\ UNCHANGED <<driver, router, client, capsule>>
  <2>1. CASE Emit([Blank EXCEPT !.kind = "usage", !.tokens = reasoningTokens])
    <3>1. Carries("usage", FALSE, FALSE, {}) /\ slot'.tokens = reasoningTokens
      BY <2>1, UsageChunkFacts DEF TypeOK
    <3>2. QED
      BY <3>1, SlotAfter DEF Carries
  <2>2. CASE Quiet
    BY <1>2, <2>2, ChunkFacts DEF Quiet
  <2>3. QED
    BY <2>1, <2>2 DEF Metadata
<1>4. BlocksFit'
  BY <1>1, BlocksFrame
<1>5. Shown("reasoning")' = Shown("reasoning") /\ Shown("text")' = Shown("text")
  BY <1>1, ShownFrame
<1>6. SlotFits' /\ ThinkFits'
  BY <1>1, <1>2, <1>3, ChunkFacts DEF SlotFits, ThinkFits, Healthy
<1>7. PhaseFits'
  BY <1>1, <1>2, <1>3 DEF PhaseFits
<1>8. TextFits' /\ TokensFit'
  BY <1>1, <1>2, <1>3, <1>5 DEF TextFits, TokensFit, Healthy, Arriving
<1>9. CallsFit'
  BY <1>1, <1>2, <1>3 DEF CallsFit, Healthy
<1>10. CapsuleFits'
  BY <1>1, <1>2, <1>3, ReasonedFrame, CapsuleFrame
<1>11. QED
  BY <1>4, <1>6, <1>7, <1>8, <1>9, <1>10 DEF Rest

LEMMA UpstreamEndStep ==
    ASSUME StreamInv, UpstreamEof \/ UpstreamError
    PROVE  BlocksFit' /\ Rest'
<1> USE DEF StreamInv, thinking, upstream
<1>1. CASE UpstreamError
  <2>1. BlocksFit' /\ Grows
    BY <1>1, BlocksFrame DEF UpstreamError, Grows
  <2>2. QED
    BY <1>1, <2>1, FailStep DEF UpstreamError
<1>2. CASE UpstreamEof
  <2>1. /\ Receiving /\ driver' = "ended"
        /\ UNCHANGED <<capsule, upstream, thinkEmitted, toolMeta, nextToolIndex,
                       reasoningTokens, thinking, toolUseSeen, slot, router, client>>
    BY <1>2 DEF UpstreamEof
  <2>2. slot.kind = "empty" /\ Healthy /\ router = "forwarding"
    BY <2>1, WhileReceiving
  <2>3. BlocksFit'
    BY <2>1, BlocksFrame
  <2>4. Shown("reasoning")' = Shown("reasoning") /\ Shown("text")' = Shown("text")
    BY <2>1, ShownFrame
  <2>5. SlotFits' /\ PhaseFits' /\ ThinkFits'
    BY <2>1, <2>2 DEF SlotFits, PhaseFits, ThinkFits, Healthy, client
  <2>6. TextFits' /\ TokensFit' /\ CallsFit'
    BY <2>1, <2>2, <2>4 DEF TextFits, TokensFit, CallsFit, Healthy, Arriving, client
  <2>7. CapsuleFits'
    <3>1. Healthy' => Healthy
      BY <2>2
    <3>2. UNCHANGED calls /\ slot'.kind # "call"
      BY <2>1, <2>2 DEF client
    <3>3. QED
      BY <2>1, <3>1, <3>2, ReasonedFrame, CapsuleFrame
  <2>8. QED
    BY <2>3, <2>5, <2>6, <2>7 DEF Rest
<1>3. QED
  BY <1>1, <1>2

LEMMA ToolUseStartStep ==
    ASSUME StreamInv, NEW b \in Blocks, ToolUseStart(b)
    PROVE  BlocksFit' /\ Rest'
<1> USE DEF StreamInv
<1>1. /\ Receiving /\ phase = "body" /\ Opened(b, "tool") /\ Allocate(b)
      /\ UNCHANGED <<phase, thinkEmitted, reasoningTokens>>
  BY DEF ToolUseStart, Opened, Body
<1>2. /\ blk[b].kind = "text" /\ blk[b].text = {} /\ blk[b].sent = 0
      /\ blk[b].seal = "none" /\ toolMeta[b] = Unknown
      /\ blk'[b].kind = "tool" /\ blk'[b].stage = "open" /\ blk'[b].text = {}
      /\ blk'[b].sent = 0 /\ blk'[b].seal = "none"
      /\ \A c \in Blocks \ {b} : blk'[c] = blk[c]
  BY <1>1, OpenedFacts
<1>3. /\ ToolIndexFor(b) \in Nat /\ toolMeta'[b] = ToolIndexFor(b)
      /\ \A c \in Blocks \ {b} : toolMeta'[c] = toolMeta[c]
      /\ ToolIndexFor(b) = nextToolIndex /\ nextToolIndex' = nextToolIndex + 1
  BY <1>1, <1>2, AllocateFacts
<1>4. toolMeta'[b] # Unknown
  BY <1>3 DEF Unknown
<1>5. \/ ~ capsule /\ UNCHANGED <<thinking, toolUseSeen>> /\ Emit(CallChunk(b, {}))
      \/ capsule /\ Finalize(Pending) /\ Fail
      \/ /\ capsule /\ Finalize(Pending) /\ ~ incomplete' /\ toolUseSeen'
         /\ Emit(CallChunk(b, reasoningBlocks'))
  BY DEF ToolUseStart
<1>6. BlocksFit'
  <2>1. \A c \in Blocks : ~ IsPending(c)' => accum'[c].text = {}
    <3>1. CASE Finalize(Pending)
      BY <3>1, FinalizeBlocks DEF Pending
    <3>2. CASE UNCHANGED thinking
      BY <3>2 DEF BlocksFit, IsPending, thinking
    <3>3. QED
      BY <1>5, <3>1, <3>2
  <2>2. QED
    BY <1>2, <1>3, <1>4, <2>1 DEF BlocksFit
<1>7. Grows /\ \A c \in ToolBlocks : toolMeta'[c] = toolMeta[c]
  BY <1>2, <1>3 DEF Grows, ToolBlocks
<1>8. CASE Fail
  BY <1>1, <1>6, <1>7, <1>8, FailStep
<1>9. CASE ~ Fail
  <2>1. PICK X \in SUBSET Sealed :
           /\ Emit(CallChunk(b, X))
           /\ \/ ~ capsule /\ UNCHANGED <<thinking, toolUseSeen>>
              \/ /\ capsule /\ Finalize(Pending) /\ ~ incomplete' /\ toolUseSeen'
                 /\ X = reasoningBlocks'
    <3>1. Finalize(Pending) => reasoningBlocks' \in SUBSET Sealed
      BY FinalizeType DEF Pending
    <3>2. QED
      BY <1>5, <1>9, <3>1
  <2>2. /\ Carries("call", FALSE, FALSE, {})
        /\ slot'.index = nextToolIndex /\ slot'.block = b /\ slot'.capsule = X
    BY <1>3, <2>1, CallChunkFacts
  <2>3. /\ slot'.kind = "call" /\ slot' # Empty /\ slot' # Failure /\ ~ slot'.opens
        /\ ~ slot'.closes /\ ~ slot'.stop
        /\ UNCHANGED <<driver, router, calls, capsule>>
    BY <2>2, SlotAfter DEF Carries, client
  <2>4. router = "forwarding" /\ Healthy /\ slot.kind = "empty"
        /\ DOMAIN calls = 0 .. nextToolIndex - 1
    BY <1>1, WhileReceiving
  <2>5. Shown("reasoning")' = Shown("reasoning") /\ Shown("text")' = Shown("text")
    <3>1. \A c \in Blocks : /\ blk'[c].text = blk[c].text
                            /\ blk[c].text # {} => blk'[c].kind = blk[c].kind
      BY <1>2
    <3>2. QED
      BY <3>1, ShownSame
  <2>6. PhaseFits' /\ ThinkFits' /\ TextFits' /\ TokensFit' /\ Healthy'
    <3>1. thinkEmitted' = thinkEmitted /\ thinkEmitted \in BOOLEAN
      BY <1>1 DEF TypeOK
    <3>2. reasoningTokens' = Cardinality(Shown("reasoning")')
      BY <1>1, <2>5, WhileReceiving
    <3>3. QED
      BY <1>1, <2>2, <2>5, <3>1, <3>2, ChunkStep
  <2>7. nextToolIndex \in Nat /\ nextToolIndex' - 1 = nextToolIndex
        /\ nextToolIndex' - 2 = nextToolIndex - 1
    BY <1>3
  <2>8. SlotFits'
    BY <1>2, <1>3, <1>4, <2>2, <2>3, <2>4, <2>7 DEF SlotFits
  <2>9. CallsFit'
    <3>1. ASSUME NEW i \in DOMAIN calls
          PROVE  /\ toolMeta'[calls[i].block] = i
                 /\ blk'[calls[i].block].text = calls[i].args
      <4>1. calls[i].block \in ToolBlocks /\ i \in Nat
        BY DEF CallsFit, TypeOK, ClientCall, ToolBlocks, Unknown
      <4>2. calls[i].block \in Blocks \ {b}
        BY <1>2, <4>1 DEF ToolBlocks
      <4>3. blk[calls[i].block].text = calls[i].args
        BY <1>1, WhileReceiving
      <4>4. QED
        BY <1>2, <1>3, <4>2, <4>3 DEF CallsFit
    <3>2. QED
      BY <2>3, <2>4, <2>6, <2>7, <3>1 DEF CallsFit
  <2>10. CapsuleFits'
    <3>1. SUFFICES ASSUME capsule PROVE CapsuleFits'
      BY <2>3 DEF CapsuleFits
    <3>2. Finalize(Pending) /\ ~ incomplete' /\ toolUseSeen' /\ X = reasoningBlocks'
      BY <2>1, <3>1
    <3>3. /\ ~ incomplete /\ Pending' = {}
          /\ reasoningBlocks' = {r \in Reasoned : r.block \notin {}}
      <4>1. Pending \ Pending = {}
        OBVIOUS
      <4>2. QED
        BY <2>4, <3>1, <3>2, <4>1, FinalizeSeals
    <3>4. Reasoned' = Reasoned
      BY <1>2, ReasonedFrame
    <3>5. ASSUME NEW i \in DOMAIN calls PROVE calls[i].capsule = reasoningBlocks'
      <4>1. toolUseSeen
        BY <2>4, <3>1 DEF CapsuleFits
      <4>2. Pending = {} /\ calls[i].capsule = reasoningBlocks
            /\ reasoningBlocks = {r \in Reasoned : r.block \notin Pending}
        BY <2>4, <3>1, <3>3, <4>1 DEF CapsuleFits
      <4>3. QED
        BY <3>3, <4>2
    <3>6. reasoningBlocks' = {r \in Reasoned' : r.block \notin Pending'}
      BY <3>3, <3>4
    <3>7. QED
      BY <2>2, <2>3, <2>6, <3>2, <3>3, <3>5, <3>6 DEF CapsuleFits
  <2>11. QED
    BY <1>6, <2>6, <2>8, <2>9, <2>10 DEF Rest
<1>10. QED
  BY <1>8, <1>9
-----------------------------------------------------------------------------
(* The router and the client *)

\* The client reads a call: it is the next one.
LEMMA ReadCall ==
    ASSUME StreamInv, Forward, slot.kind = "call"
    PROVE  /\ slot.index \in Nat /\ slot.index = nextToolIndex - 1
           /\ DOMAIN calls = 0 .. slot.index - 1
           /\ slot.index = Cardinality(DOMAIN calls)
           /\ DOMAIN calls' = 0 .. slot.index
           /\ calls'[slot.index] = [announced |-> TRUE, block |-> slot.block,
                                    capsule |-> slot.capsule, args |-> {}]
           /\ \A i \in DOMAIN calls : calls'[i] = calls[i]
<1> USE DEF StreamInv
<1>1. /\ slot.index = nextToolIndex - 1 /\ slot.index # Unknown
      /\ slot.block \in Blocks /\ toolMeta[slot.block] = slot.index
  BY DEF SlotFits
<1>2. slot.index \in Nat
  BY <1>1 DEF TypeOK
<1>3. IsFiniteSet(ToolBlocks)
  BY BlocksAssumption, FS_Subset DEF ToolBlocks
<1>4. nextToolIndex \in Nat
  BY <1>3, FS_CardinalityType DEF TypeOK
<1>5. DOMAIN calls = 0 .. slot.index - 1
  <2>1. DOMAIN calls = 0 .. nextToolIndex - 2
    BY DEF CallsFit, Healthy, Forward
  <2>2. nextToolIndex - 2 = slot.index - 1
    BY <1>1, <1>4
  <2>3. QED
    BY <2>1, <2>2
<1>6. slot.index = Cardinality(DOMAIN calls)
  BY <1>2, <1>5, FS_Interval
<1>7. calls' = WithCall(slot.index, [announced |-> TRUE, block |-> slot.block,
                                     capsule |-> slot.capsule, args |-> {}])
  BY DEF Forward, Read
<1>8. (0 .. slot.index - 1) \cup {slot.index} = 0 .. slot.index
  BY <1>2
<1>9. slot.index \notin DOMAIN calls
  BY <1>2, <1>5
<1>10. QED
  BY <1>1, <1>2, <1>5, <1>6, <1>7, <1>8, <1>9 DEF WithCall

\* The client reads a fragment of arguments: it is of a call it knows, and new.
LEMMA ReadArgs ==
    ASSUME StreamInv, Forward, slot.kind = "args"
    PROVE  /\ slot.index \in DOMAIN calls /\ DOMAIN calls' = DOMAIN calls
           /\ calls'[slot.index] = [calls[slot.index] EXCEPT !.args = @ \cup slot.text]
           /\ \A i \in DOMAIN calls \ {slot.index} : calls'[i] = calls[i]
<1> USE DEF StreamInv
<1>1. PICK b \in Blocks : toolMeta[b] = slot.index /\ slot.index # Unknown
  BY DEF SlotFits
<1>2. slot.index \in 0 .. nextToolIndex - 1
  BY <1>1 DEF TypeOK, ToolBlocks
<1>3. DOMAIN calls = 0 .. nextToolIndex - 1
  BY DEF CallsFit, Healthy, Forward
<1>4. calls' = WithCall(slot.index, [calls[slot.index] EXCEPT !.args = @ \cup slot.text])
  BY <1>2, <1>3 DEF Forward, Read, Call
<1>5. QED
  BY <1>2, <1>3, <1>4 DEF WithCall

LEMMA ForwardStep ==
    ASSUME StreamInv, Forward
    PROVE  BlocksFit' /\ Rest'
<1> USE DEF StreamInv, thinking, upstream
<1>1. /\ router = "forwarding" /\ slot # Empty /\ slot # Failure /\ Read(slot)
      /\ slot' = Empty /\ router' = router
      /\ UNCHANGED <<capsule, blk, phase, thinkEmitted, toolMeta, nextToolIndex,
                     reasoningTokens, accum, reasoningBlocks, incomplete, toolUseSeen, driver>>
  BY DEF Forward, provider
<1>2. /\ slot'.kind = "empty" /\ ~ slot'.opens /\ ~ slot'.closes /\ ~ slot'.stop
      /\ slot' # Failure
  BY <1>1, ChunkFacts
<1>3. Healthy /\ Healthy' /\ slot.kind # "empty"
  BY <1>1, <1>2 DEF Healthy, SlotFits
<1>4. BlocksFit'
  BY <1>1, BlocksFrame
<1>5. SlotFits'
  BY <1>1, <1>2 DEF SlotFits
<1>6. PhaseFits'
  BY <1>1, <1>2, <1>3 DEF PhaseFits, SlotFits, Read
<1>7. inThink' = (slot.opens \/ (~ slot.closes /\ inThink))
  BY <1>1 DEF Read, TypeOK
<1>8. inThink' = thinkEmitted
  BY <1>3, <1>7 DEF ThinkFits
<1>9. ThinkFits'
  BY <1>1, <1>2, <1>8 DEF ThinkFits, TypeOK
<1>10. /\ inside' = inside \cup (IF thinkEmitted THEN Arriving ELSE {})
       /\ outside' = outside \cup (IF thinkEmitted THEN {} ELSE Arriving)
  <2>1. (IF slot.opens THEN TRUE ELSE IF slot.closes THEN FALSE ELSE inThink) = thinkEmitted
    BY <1>1, <1>8 DEF Read
  <2>2. QED
    BY <1>1, <2>1 DEF Read, Arriving
<1>11. Shown("reasoning")' = Shown("reasoning") /\ Shown("text")' = Shown("text")
  BY <1>1, ShownFrame
<1>12. inside' = Shown("reasoning") /\ outside' = Shown("text")
  BY <1>3, <1>10 DEF TextFits
<1>13. TextFits'
  BY <1>2, <1>11, <1>12 DEF TextFits, Arriving
<1>14. TokensFit'
  <2>1. reasoningTokens' = Cardinality(Shown("reasoning")')
    BY <1>1, <1>3, <1>11 DEF TokensFit
  <2>2. CASE slot.kind = "usage"
    <3>1. inside' = inside /\ usage' = slot.tokens
      BY <1>1, <1>10, <2>2 DEF Arriving, Read
    <3>2. phase = "metered"
      BY <2>2, TypeOK DEF PhaseFits, TypeOK
    <3>3. QED
      BY <1>1, <1>2, <2>1, <2>2, <3>1, <3>2 DEF TokensFit
  <2>3. CASE slot.kind # "usage"
    <3>1. usage' = usage
      BY <1>1, <2>3 DEF Read
    <3>2. CASE usage # Unknown
      <4>1. phase = "metered"
        BY <3>2 DEF TokensFit
      <4>2. QED
        BY <1>3, <2>3, <4>1 DEF PhaseFits, Healthy
    <3>3. CASE usage = Unknown
      BY <1>2, <2>1, <3>1, <3>3 DEF TokensFit
    <3>4. QED
      BY <3>2, <3>3
  <2>4. QED
    BY <2>2, <2>3
<1>15. CallsFit' /\ CapsuleFits'
  <2>1. Pending' = Pending /\ Reasoned' = Reasoned
    BY <1>1, ReasonedFrame DEF Pending, IsPending
  <2>2. CASE slot.kind = "call"
    <3>1. /\ slot.index \in Nat /\ slot.index = nextToolIndex - 1
          /\ DOMAIN calls = 0 .. slot.index - 1
          /\ DOMAIN calls' = 0 .. slot.index
          /\ calls'[slot.index] = [announced |-> TRUE, block |-> slot.block,
                                   capsule |-> slot.capsule, args |-> {}]
          /\ \A i \in DOMAIN calls : calls'[i] = calls[i]
      BY <2>2, ReadCall
    <3>2. DOMAIN calls' = 0 .. Cardinality(DOMAIN calls') - 1
      <4>1. Cardinality(0 .. slot.index) = slot.index + 1
        BY <3>1, FS_Interval
      <4>2. slot.index + 1 - 1 = slot.index
        BY <3>1
      <4>3. QED
        BY <3>1, <4>1, <4>2
    <3>3. \A i \in DOMAIN calls' : i \in DOMAIN calls \/ i = slot.index
      BY <3>1
    <3>4. slot.block \in Blocks /\ blk[slot.block].text = {} /\ toolMeta[slot.block] = slot.index
      BY <2>2 DEF SlotFits
    <3>5. ASSUME NEW i \in DOMAIN calls'
          PROVE  /\ calls'[i].announced /\ toolMeta[calls'[i].block] = i
                 /\ blk[calls'[i].block].text = calls'[i].args
      <4>1. CASE i = slot.index
        <5>1. /\ calls'[i].announced /\ calls'[i].block = slot.block
              /\ calls'[i].args = {}
          BY <3>1, <4>1
        <5>2. QED
          BY <3>4, <4>1, <5>1
      <4>2. CASE i \in DOMAIN calls
        BY <1>3, <2>2, <3>1, <4>2 DEF CallsFit
      <4>3. QED
        BY <3>3, <4>1, <4>2
    <3>6. CallsFit'
      BY <1>1, <1>2, <3>1, <3>2, <3>5 DEF CallsFit
    <3>7. CapsuleFits'
      <4>1. capsule =>
              /\ toolUseSeen /\ ~ incomplete
              /\ \A i \in DOMAIN calls' : calls'[i].capsule = reasoningBlocks
        BY <1>3, <2>2, <3>1, <3>3 DEF CapsuleFits, TypeOK
      <4>2. QED
        BY <1>1, <1>2, <1>3, <2>1, <4>1 DEF CapsuleFits
    <3>8. QED
      BY <3>6, <3>7
  <2>3. CASE slot.kind = "args"
    <3>1. /\ slot.index \in DOMAIN calls /\ DOMAIN calls' = DOMAIN calls
          /\ calls'[slot.index] = [calls[slot.index] EXCEPT !.args = @ \cup slot.text]
          /\ \A i \in DOMAIN calls \ {slot.index} : calls'[i] = calls[i]
      BY <2>3, ReadArgs
    <3>2. calls[slot.index] \in ClientCall
      BY <3>1 DEF TypeOK
    <3>3. /\ calls'[slot.index].announced = calls[slot.index].announced
          /\ calls'[slot.index].block = calls[slot.index].block
          /\ calls'[slot.index].capsule = calls[slot.index].capsule
          /\ calls'[slot.index].args = calls[slot.index].args \cup slot.text
      BY <3>1, <3>2 DEF ClientCall
    <3>4. ASSUME NEW i \in DOMAIN calls'
          PROVE  /\ calls'[i].announced /\ toolMeta[calls'[i].block] = i
                 /\ blk[calls'[i].block].text = calls'[i].args
                 /\ calls'[i].capsule = calls[i].capsule
      <4>1. /\ calls[i].announced /\ toolMeta[calls[i].block] = i
            /\ blk[calls[i].block].text =
                  calls[i].args \cup (IF slot.index = i THEN slot.text ELSE {})
        BY <1>3, <2>3, <3>1 DEF CallsFit
      <4>2. CASE i = slot.index
        BY <3>3, <4>1, <4>2
      <4>3. CASE i # slot.index
        <5>1. calls'[i] = calls[i]
          BY <3>1, <4>3
        <5>2. QED
          BY <4>1, <4>3, <5>1
      <4>4. QED
        BY <4>2, <4>3
    <3>5. CallsFit'
      BY <1>1, <1>2, <1>3, <2>3, <3>1, <3>4 DEF CallsFit
    <3>6. CapsuleFits'
      BY <1>1, <1>2, <1>3, <2>1, <2>3, <3>1, <3>4 DEF CapsuleFits
    <3>7. QED
      BY <3>5, <3>6
  <2>4. CASE slot.kind \notin {"call", "args"}
    <3>1. calls' = calls
      BY <1>1, <2>4 DEF Read
    <3>2. CallsFit'
      BY <1>1, <1>2, <1>3, <2>4, <3>1 DEF CallsFit
    <3>3. CapsuleFits'
      BY <1>1, <1>2, <1>3, <2>1, <2>4, <3>1 DEF CapsuleFits
    <3>4. QED
      BY <3>2, <3>3
  <2>5. QED
    BY <2>2, <2>3, <2>4
<1>16. QED
  BY <1>4, <1>5, <1>6, <1>9, <1>13, <1>14, <1>15 DEF Rest

\* The client is left alone, and nothing is on its way any more.
LEMMA LeaveStep ==
    ASSUME StreamInv, ForwardError \/ SendDone \/ ClientDrop
    PROVE  BlocksFit' /\ Rest'
<1> USE DEF StreamInv, thinking, upstream
<1>1. /\ slot' = Empty /\ router' \in {"failed", "done", "dropped"}
      /\ router' = "failed" => slot = Failure
      /\ UNCHANGED <<provider, client>>
  BY DEF ForwardError, SendDone, ClientDrop
<1>2. UNCHANGED <<capsule, blk, phase, thinkEmitted, toolMeta, nextToolIndex,
                  reasoningTokens, accum, reasoningBlocks, incomplete, toolUseSeen, driver,
                  inThink, inside, outside, calls, finish, usage>>
  BY <1>1 DEF provider, client
<1>3. /\ slot'.kind = "empty" /\ ~ slot'.opens /\ ~ slot'.closes /\ ~ slot'.stop
      /\ slot' # Failure /\ ~ Healthy'
  BY <1>1, ChunkFacts DEF Healthy
<1>4. BlocksFit'
  BY <1>2, BlocksFrame
<1>5. SlotFits'
  BY <1>1, <1>2, <1>3, ChunkFacts DEF SlotFits
<1>6. PhaseFits'
  BY <1>2, <1>3 DEF PhaseFits
<1>7. ThinkFits' /\ CapsuleFits'
  BY <1>3 DEF ThinkFits, CapsuleFits
<1>8. TextFits'
  BY <1>2, <1>3, ShownFrame DEF TextFits
<1>9. TokensFit' /\ CallsFit'
  BY <1>2, <1>3 DEF TokensFit, CallsFit
<1>10. QED
  BY <1>4, <1>5, <1>6, <1>7, <1>8, <1>9 DEF Rest
-----------------------------------------------------------------------------
(* The inductive invariant *)

LEMMA StreamInvInit == Init => StreamInv
<1> SUFFICES ASSUME Init PROVE StreamInv
  OBVIOUS
<1> USE DEF Init
<1>1. TypeOK
  <2>1. ToolBlocks = {}
    BY DEF ToolBlocks
  <2>2. nextToolIndex = Cardinality(ToolBlocks)
    BY <2>1, FS_EmptySet
  <2>3. {toolMeta[b] : b \in ToolBlocks} = 0 .. nextToolIndex - 1
    BY <2>1
  <2>4. blk \in [Blocks -> Block]
    BY MaxFragmentsAssumption DEF Block, Seals
  <2>5. accum \in [Blocks -> Accum] /\ toolMeta \in [Blocks -> Nat \cup {Unknown}]
    BY DEF Absent, Accum, Seals
  <2>6. DOMAIN calls \subseteq Nat /\ calls \in [DOMAIN calls -> ClientCall]
    BY DEF NoCall
  <2>7. QED
    BY <2>2, <2>3, <2>4, <2>5, <2>6, ChunkFacts DEF TypeOK
<1>2. slot = Empty /\ slot.kind = "empty" /\ slot # Failure
      /\ ~ slot.opens /\ ~ slot.closes /\ ~ slot.stop
  BY ChunkFacts
<1>3. \A b \in Blocks : /\ blk[b].text = {} /\ blk[b].kind = "text" /\ blk[b].sent = 0
                        /\ blk[b].seal = "none" /\ accum[b] = Absent
  OBVIOUS
<1>4. BlocksFit
  BY <1>3 DEF BlocksFit, Absent
<1>5. SlotFits /\ PhaseFits /\ ThinkFits
  BY <1>2 DEF SlotFits, PhaseFits, ThinkFits
<1>6. Shown("reasoning") = {} /\ Shown("text") = {}
  BY <1>3 DEF Shown
<1>7. TextFits
  BY <1>2, <1>6 DEF TextFits, Arriving
<1>8. TokensFit
  BY <1>2, <1>6, FS_EmptySet DEF TokensFit
<1>9. CallsFit
  <2>1. DOMAIN calls = {} /\ Cardinality({}) = 0 /\ 0 .. 0 - 1 = {}
    BY FS_EmptySet
  <2>2. QED
    BY <1>2, <2>1 DEF CallsFit
<1>10. CapsuleFits
  <2>1. Pending = {}
    BY <1>3 DEF Pending, IsPending, Absent
  <2>2. Reasoned = {}
    BY <1>3 DEF Reasoned
  <2>3. DOMAIN calls = {}
    OBVIOUS
  <2>4. QED
    BY <1>2, <2>1, <2>2, <2>3 DEF CapsuleFits
<1>11. QED
  BY <1>1, <1>4, <1>5, <1>7, <1>8, <1>9, <1>10 DEF StreamInv

LEMMA StreamInvStep ==
    ASSUME StreamInv, Next
    PROVE  StreamInv'
<1>1. TypeOK'
  BY TypeStep
<1>2. BlocksFit' /\ Rest'
  BY MessageStartStep, BlockStartStep, ToolUseStartStep, TextDeltaStep, ReasoningTextStep,
     InterleavedStep, ReasoningSealStep, ToolInputStep, BlockStopStep, StopStep, MetadataStep,
     UpstreamEndStep, ForwardStep, LeaveStep
  DEF Next
<1>3. QED
  BY <1>1, <1>2 DEF StreamInv, Rest

LEMMA StreamInvStutter ==
    ASSUME StreamInv, UNCHANGED vars
    PROVE  StreamInv'
<1> USE DEF StreamInv, vars, upstream, thinking, client
<1>1. UNCHANGED <<ToolBlocks, Pending, Reasoned, Shown("reasoning"), Shown("text"),
                  Healthy, Arriving>>
  BY DEF ToolBlocks, Pending, IsPending, Reasoned, Shown, Healthy, Arriving
<1>2. TypeOK'
  BY <1>1 DEF TypeOK
<1>3. BlocksFit'
  BY BlocksFrame
<1>4. SlotFits' /\ PhaseFits' /\ ThinkFits'
  BY <1>1 DEF SlotFits, PhaseFits, ThinkFits
<1>5. TextFits' /\ TokensFit'
  BY <1>1 DEF TextFits, TokensFit
<1>6. CallsFit'
  BY <1>1 DEF CallsFit
<1>7. CapsuleFits'
  BY <1>1 DEF CapsuleFits
<1>8. QED
  BY <1>2, <1>3, <1>4, <1>5, <1>6, <1>7

\* What StreamInv says holds of every reachable state.
THEOREM StreamInvariant == Spec => []StreamInv
<1>1. StreamInv /\ [Next]_vars => StreamInv'
  BY StreamInvStep, StreamInvStutter
<1>2. QED
  BY StreamInvInit, <1>1, PTL DEF Spec

\* Every variable keeps its type, and map_event hands out the contiguous tool
\* indices 0, 1, 2, ..., one to each block, whatever the upstream sends.
THEOREM TypeCorrect == Spec => []TypeOK
<1>1. StreamInv => TypeOK
  BY DEF StreamInv
<1>2. QED
  BY StreamInvariant, <1>1, PTL

\* Reasoning is read inside of the <think> tags and the answer outside, and
\* whenever the provider stream is polled again the client has all of both.
THEOREM TagsSeparate == Spec => []TagsSeparateReasoning
<1>1. StreamInv => TagsSeparateReasoning
  <2>1. SUFFICES ASSUME StreamInv PROVE TagsSeparateReasoning
    OBVIOUS
  <2>2. Receiving => inside = Shown("reasoning") /\ outside = Shown("text")
    BY <2>1, WhileReceiving
  <2>3. QED
    BY <2>1, <2>2 DEF StreamInv, TextFits, TagsSeparateReasoning
<1>2. QED
  BY StreamInvariant, <1>1, PTL

\* The calls a client assembles by index are the tool blocks of the upstream:
\* announced before their input, at contiguous indices, each with its own input.
THEOREM CallsAssembled == Spec => []CallsReassemble
<1>1. StreamInv => CallsReassemble
  <2>1. SUFFICES ASSUME StreamInv PROVE CallsReassemble
    OBVIOUS
  <2>2. Receiving => \A i \in DOMAIN calls : blk[calls[i].block].text = calls[i].args
    BY <2>1, WhileReceiving
  <2>3. CallsFit
    BY <2>1 DEF StreamInv
  <2>4. ASSUME NEW i \in DOMAIN calls, NEW j \in DOMAIN calls,
               calls[i].block = calls[j].block
        PROVE  i = j
    <3>1. toolMeta[calls[i].block] = i /\ toolMeta[calls[j].block] = j
      BY <2>3 DEF CallsFit
    <3>2. QED
      BY <2>4, <3>1
  <2>5. ASSUME NEW i \in DOMAIN calls
        PROVE  /\ calls[i].announced /\ i \in 0 .. Cardinality(DOMAIN calls) - 1
               /\ calls[i].args \subseteq blk[calls[i].block].text
               /\ Receiving => calls[i].args = blk[calls[i].block].text
    BY <2>2, <2>3 DEF CallsFit
  <2>6. QED
    BY <2>4, <2>5 DEF CallsReassemble
<1>2. QED
  BY StreamInvariant, <1>1, PTL

\* The id of every call the client holds carries all the reasoning of the turn,
\* sealed, until the stream fails.
THEOREM CapsuleComplete == Spec => []CapsuleCarriesReasoning
<1>1. StreamInv => CapsuleCarriesReasoning
  <2>1. SUFFICES ASSUME StreamInv, capsule, router = "forwarding", ~ FailedStream,
                        NEW i \in DOMAIN calls
                 PROVE  calls[i].capsule = Reasoned
    BY DEF CapsuleCarriesReasoning
  <2>2. Healthy
    BY <2>1 DEF FailedStream, StreamInv, SlotFits, Healthy
  <2>3. toolUseSeen
    BY <2>1, <2>2 DEF StreamInv, CapsuleFits
  <2>4. /\ Pending = {} /\ calls[i].capsule = reasoningBlocks
        /\ reasoningBlocks = {r \in Reasoned : r.block \notin Pending}
    BY <2>1, <2>2, <2>3 DEF StreamInv, CapsuleFits
  <2>5. QED
    BY <2>4
<1>2. QED
  BY StreamInvariant, <1>1, PTL

\* The usage chunk bills the reasoning the client was shown.
THEOREM UsageMatches == Spec => []UsageCountsReasoning
<1>1. StreamInv => UsageCountsReasoning
  BY DEF StreamInv, TokensFit, UsageCountsReasoning
<1>2. QED
  BY StreamInvariant, <1>1, PTL
-----------------------------------------------------------------------------
(* The Converse lane implements the chat wire *)

\* A step that leaves the client and the stage leaves the wire.
LEMMA WireStutter ==
    ASSUME UNCHANGED client, Stage' = Stage
    PROVE  UNCHANGED Wire!wire
<1>1. inThink' = inThink /\ Delivered' = Delivered /\ Argued' = Argued
  BY DEF client, Delivered, Argued
<1>2. QED
  BY <1>1 DEF Wire!wire

LEMMA WireInit ==
    ASSUME Init
    PROVE  Wire!Init
<1> USE DEF Init
<1>1. Stage = "new"
  BY DEF Stage
<1>2. Delivered = 0
  BY FS_EmptySet DEF Delivered
<1>3. Argued = [i \in {} |-> 0]
  BY DEF Argued
<1>4. QED
  BY <1>1, <1>2, <1>3 DEF Wire!Init

\* Once the body began, no step of the provider stream brings the role again.
LEMMA RoleComesFirst ==
    ASSUME StreamInv, phase # "init",
           \/ MessageStart
           \/ \E b \in Blocks :
                 \/ ContentBlockStart(b) \/ ToolUseStart(b)
                 \/ TextDelta(b) \/ ReasoningText(b) \/ InterleavedReasoning(b)
                 \/ ReasoningSeal(b, "signature") \/ ReasoningSeal(b, "redacted")
                 \/ ToolInput(b) \/ ContentBlockStop(b)
           \/ MessageStop \/ Metadata \/ UpstreamEof \/ UpstreamError
    PROVE  phase' # "init" /\ slot'.kind # "role"
<1>1. Receiving => slot.kind = "empty"
  BY WhileReceiving
<1>2. Fail => slot'.kind # "role"
  BY ChunkFacts DEF Fail
<1>3. Quiet /\ Receiving => slot'.kind # "role"
  BY <1>1 DEF Quiet
<1>4. ASSUME NEW b \in Blocks, ContentBlockStart(b) \/ ContentBlockStop(b)
      PROVE  phase' # "init" /\ slot'.kind # "role"
  BY <1>3, <1>4 DEF ContentBlockStart, ContentBlockStop, Opened, Body
<1>5. ASSUME NEW b \in Blocks, ToolUseStart(b)
      PROVE  phase' # "init" /\ slot'.kind # "role"
  <2>1. \A X : Emit(CallChunk(b, X)) => slot'.kind # "role"
    BY DEF Emit, CallChunk, Blank
  <2>2. QED
    BY <1>2, <1>5, <2>1 DEF ToolUseStart
<1>6. ASSUME NEW b \in Blocks, TextDelta(b) \/ ReasoningText(b)
      PROVE  phase' # "init" /\ slot'.kind # "role"
  BY <1>6 DEF TextDelta, ReasoningText, Emit, Blank
<1>7. ASSUME NEW b \in Blocks, InterleavedReasoning(b)
      PROVE  phase' # "init" /\ slot'.kind # "role"
  BY <1>2, <1>7 DEF InterleavedReasoning
<1>8. ASSUME NEW b \in Blocks, NEW seal \in {"signature", "redacted"}, ReasoningSeal(b, seal)
      PROVE  phase' # "init" /\ slot'.kind # "role"
  <2>1. Emit([Blank EXCEPT !.kind = "content", !.closes = TRUE]) => slot'.kind # "role"
    BY DEF Emit, Blank
  <2>2. QED
    BY <1>3, <1>8, <2>1 DEF ReasoningSeal, Open, Body
<1>9. ASSUME NEW b \in Blocks, ToolInput(b)
      PROVE  phase' # "init" /\ slot'.kind # "role"
  BY <1>9 DEF ToolInput, Emit, Blank
<1>10. CASE MessageStop \/ Metadata
  <2>1. phase' # "init"
    BY <1>10 DEF MessageStop, Metadata
  <2>2. \A c : Emit([Blank EXCEPT !.kind = "stop", !.closes = c, !.stop = TRUE])
                 => slot'.kind # "role"
    BY DEF Emit, Blank
  <2>3. \A n : Emit([Blank EXCEPT !.kind = "usage", !.tokens = n]) => slot'.kind # "role"
    BY DEF Emit, Blank
  <2>4. QED
    BY <1>3, <1>10, <2>1, <2>2, <2>3 DEF MessageStop, Metadata
<1>11. CASE UpstreamEof \/ UpstreamError
  BY <1>1, <1>2, <1>11 DEF UpstreamEof, UpstreamError, upstream
<1>12. QED
  BY <1>4, <1>5, <1>6, <1>7, <1>8, <1>9, <1>10, <1>11 DEF MessageStart

\* Nothing of what the upstream sends is seen before the router forwards it.
LEMMA WireProvider ==
    ASSUME StreamInv,
           \/ MessageStart
           \/ \E b \in Blocks :
                 \/ ContentBlockStart(b) \/ ToolUseStart(b)
                 \/ TextDelta(b) \/ ReasoningText(b) \/ InterleavedReasoning(b)
                 \/ ReasoningSeal(b, "signature") \/ ReasoningSeal(b, "redacted")
                 \/ ToolInput(b) \/ ContentBlockStop(b)
           \/ MessageStop \/ Metadata \/ UpstreamEof \/ UpstreamError
    PROVE  UNCHANGED Wire!wire
<1>1. Receiving /\ UNCHANGED <<router, client>>
  <2>1. \A chunk : Emit(chunk) => UNCHANGED <<router, client>>
    BY DEF Emit
  <2>2. (Quiet \/ Fail) => UNCHANGED <<router, client>>
    BY DEF Quiet, Fail
  <2>3. CASE MessageStart \/ MessageStop \/ Metadata \/ UpstreamEof \/ UpstreamError
    <3>1. CASE MessageStart
      BY <2>1, <3>1 DEF MessageStart
    <3>2. CASE MessageStop
      BY <2>1, <3>2 DEF MessageStop, Body
    <3>3. CASE Metadata
      BY <2>1, <2>2, <3>3 DEF Metadata
    <3>4. CASE UpstreamEof \/ UpstreamError
      BY <2>2, <3>4 DEF UpstreamEof, UpstreamError
    <3>5. QED
      BY <2>3, <3>1, <3>2, <3>3, <3>4
  <2>4. ASSUME NEW b \in Blocks,
               \/ ContentBlockStart(b) \/ ToolUseStart(b)
               \/ ToolInput(b) \/ ContentBlockStop(b)
        PROVE  Receiving /\ UNCHANGED <<router, client>>
    BY <2>1, <2>2, <2>4 DEF ContentBlockStart, ToolUseStart, ToolInput, ContentBlockStop,
                            Opened, Fragment, Open, Body
  <2>5. ASSUME NEW b \in Blocks,
               TextDelta(b) \/ ReasoningText(b) \/ InterleavedReasoning(b)
        PROVE  Receiving /\ UNCHANGED <<router, client>>
    BY <2>1, <2>2, <2>5 DEF TextDelta, ReasoningText, InterleavedReasoning, Fragment, Open,
                            Body
  <2>6. ASSUME NEW b \in Blocks, NEW seal, ReasoningSeal(b, seal)
        PROVE  Receiving /\ UNCHANGED <<router, client>>
    BY <2>1, <2>2, <2>6 DEF ReasoningSeal, Open, Body
  <2>7. QED
    BY <2>3, <2>4, <2>5, <2>6
<1>2. slot.kind = "empty" /\ router = "forwarding"
  BY <1>1, WhileReceiving
<1>3. (phase' = "init" \/ slot'.kind = "role") = (phase = "init")
  <2>1. CASE phase = "init"
    <3>1. MessageStart \/ UpstreamEof \/ UpstreamError
      BY <2>1, SMTT(30) DEF ContentBlockStart, ToolUseStart, TextDelta, ReasoningText,
           InterleavedReasoning, ReasoningSeal, ToolInput, ContentBlockStop, MessageStop,
           Metadata, Opened, Fragment, Open, Body
    <3>2. QED
      BY <2>1, <3>1, ChunkFacts DEF MessageStart, UpstreamEof, UpstreamError, Emit, Fail, upstream
  <2>2. CASE phase # "init"
    <3>1. phase' # "init" /\ slot'.kind # "role"
      BY <1>2, <2>2, RoleComesFirst
    <3>2. QED
      BY <2>2, <3>1
  <2>3. QED
    BY <2>1, <2>2
<1>4. Stage' = Stage
  BY <1>1, <1>2, <1>3 DEF Stage, client
<1>5. QED
  BY <1>1, <1>4, WireStutter

\* Each chunk the router forwards is a step of the wire.
LEMMA WireForward ==
    ASSUME StreamInv, Forward
    PROVE  Wire!Next
<1> USE DEF StreamInv
<1>1. /\ router = "forwarding" /\ router' = "forwarding" /\ Read(slot) /\ slot' = Empty
      /\ phase' = phase /\ slot.kind # "failure" /\ slot.kind # "empty"
      /\ slot'.kind = "empty" /\ slot.kind \in Kinds
  BY ChunkFacts DEF Forward, provider, upstream, SlotFits, TypeOK, Chunk
<1>2. inThink' \in BOOLEAN /\ inThink' = thinkEmitted
  <2>1. Rest'
    BY ForwardStep
  <2>2. Healthy' /\ ~ slot'.opens /\ ~ slot'.closes /\ thinkEmitted' = thinkEmitted
    BY <1>1, ChunkFacts DEF Healthy, Forward, provider
  <2>3. inThink' \in BOOLEAN
    BY ReadType
  <2>4. QED
    BY <2>1, <2>2, <2>3 DEF Rest, ThinkFits, TypeOK
<1>3. phase \in {"init", "body", "stopped", "metered"}
  BY DEF TypeOK
<1>4. /\ Delivered \in Nat /\ Delivered' \in Nat /\ Delivered' >= Delivered
  <2>1. /\ inside \in SUBSET Fragments /\ outside \in SUBSET Fragments
        /\ inside' \in SUBSET Fragments /\ outside' \in SUBSET Fragments
    BY ReadType DEF TypeOK
  <2>2. inside \in SUBSET (inside') /\ outside \in SUBSET (outside')
    BY <1>1 DEF Read
  <2>3. /\ IsFiniteSet(inside') /\ IsFiniteSet(outside')
        /\ Cardinality(inside') \in Nat /\ Cardinality(outside') \in Nat
        /\ Cardinality(inside) \in Nat /\ Cardinality(outside) \in Nat
    BY <2>1, FragmentsFinite
  <2>4. /\ Cardinality(inside) <= Cardinality(inside')
        /\ Cardinality(outside) <= Cardinality(outside')
    BY <2>2, <2>3, FS_Subset
  <2>5. QED
    BY <2>3, <2>4 DEF Delivered
<1>5. slot.kind \in {"role", "content", "call", "args"} => ~ finish /\ usage = Unknown /\ phase # "init"
  BY <1>3 DEF PhaseFits
<1>6. slot.kind # "content" => UNCHANGED <<inside, outside>>
  BY <1>1 DEF Read
<1>7. slot.kind \notin {"content", "stop"} => inThink' = inThink
  BY <1>1 DEF Read, SlotFits
<1>8. slot.kind \notin {"call", "args"} => calls' = calls
  BY <1>1 DEF Read
<1>9. slot.kind # "usage" => usage' = usage
  BY <1>1 DEF Read
<1>10. finish' = (finish \/ slot.kind = "stop")
  BY <1>1 DEF Read, SlotFits, TypeOK
<1>11. CASE slot.kind = "role"
  <2>1. Stage = "new" /\ Stage' = "body"
    BY <1>1, <1>5, <1>9, <1>10, <1>11 DEF Stage
  <2>2. inThink' = inThink /\ Delivered' = Delivered /\ Argued' = Argued
    BY <1>6, <1>7, <1>8, <1>11 DEF Delivered, Argued
  <2>3. QED
    BY <2>1, <2>2 DEF Wire!Next, Wire!Role
<1>12. CASE slot.kind = "content"
  <2>1. Stage = "body" /\ Stage' = "body"
    BY <1>1, <1>5, <1>9, <1>10, <1>12 DEF Stage
  <2>2. Argued' = Argued
    BY <1>8, <1>12 DEF Argued
  <2>3. QED
    BY <1>2, <1>4, <2>1, <2>2 DEF Wire!Next, Wire!Content
<1>13. CASE slot.kind = "call"
  <2>1. Stage = "body" /\ Stage' = "body"
    BY <1>1, <1>5, <1>9, <1>10, <1>13 DEF Stage
  <2>2. inThink' = inThink /\ Delivered' = Delivered
    BY <1>6, <1>7, <1>13 DEF Delivered
  <2>3. /\ slot.index = Cardinality(DOMAIN calls)
        /\ DOMAIN calls = 0 .. slot.index - 1 /\ slot.index \in Nat
        /\ DOMAIN calls' = 0 .. slot.index
        /\ calls'[slot.index].args = {}
        /\ \A i \in DOMAIN calls : calls'[i] = calls[i]
    BY <1>13, ReadCall
  <2>4. DOMAIN calls' = DOMAIN calls \cup {slot.index} /\ slot.index \notin DOMAIN calls
    <3>1. slot.index \in Nat
      BY <2>3
    <3>2. /\ 0 .. slot.index = (0 .. slot.index - 1) \cup {slot.index}
          /\ slot.index \notin 0 .. slot.index - 1
      BY <3>1
    <3>3. QED
      BY <2>3, <3>2
  <2>5. Cardinality(calls'[slot.index].args) = 0
    BY <2>3, FS_EmptySet
  <2>6. Argued' = [i \in 0 .. slot.index |-> IF i \in DOMAIN calls THEN Argued[i] ELSE 0]
    BY <2>3, <2>4, <2>5 DEF Argued
  <2>7. /\ DOMAIN Argued = 0 .. slot.index - 1 /\ slot.index \in DOMAIN Argued'
        /\ \A i \in 0 .. slot.index : i < slot.index <=> i \in DOMAIN calls
    <3>1. DOMAIN Argued = DOMAIN calls /\ DOMAIN Argued' = DOMAIN calls'
      BY DEF Argued
    <3>2. slot.index \in Nat
      BY <2>3
    <3>3. /\ slot.index \in 0 .. slot.index
          /\ \A i \in 0 .. slot.index : i < slot.index <=> i \in 0 .. slot.index - 1
      BY <3>2
    <3>4. QED
      BY <2>3, <3>1, <3>3
  <2>8. Argued' = [i \in 0 .. slot.index |-> IF i < slot.index THEN Argued[i] ELSE 0]
    BY <2>6, <2>7
  <2>9. Wire!Announce
    BY <2>1, <2>2, <2>7, <2>8 DEF Wire!Announce
  <2>10. QED
    BY <2>9 DEF Wire!Next
<1>14. CASE slot.kind = "args"
  <2>1. Stage = "body" /\ Stage' = "body"
    BY <1>1, <1>5, <1>9, <1>10, <1>14 DEF Stage
  <2>2. inThink' = inThink /\ Delivered' = Delivered
    BY <1>6, <1>7, <1>14 DEF Delivered
  <2> DEFINE n == slot.index
  <2>3. /\ n \in DOMAIN calls /\ DOMAIN calls' = DOMAIN calls
        /\ calls'[n] = [calls[n] EXCEPT !.args = @ \cup slot.text]
        /\ \A i \in DOMAIN calls \ {n} : calls'[i] = calls[i]
    BY <1>14, ReadArgs
  <2>4. calls[n] \in ClientCall /\ calls[n].args \in SUBSET Fragments
    BY <2>3 DEF TypeOK, ClientCall
  <2>5. PICK b \in Blocks : toolMeta[b] = n /\ n # Unknown /\ slot.text = {<<b, blk[b].sent>>}
    BY <1>14 DEF SlotFits
  <2>6. calls'[n].args = calls[n].args \cup {<<b, blk[b].sent>>}
    BY <2>3, <2>4, <2>5 DEF ClientCall
  <2>7. <<b, blk[b].sent>> \notin calls[n].args
    BY <1>14, <2>3, <2>5 DEF CallsFit
  <2>8. Cardinality(calls'[n].args) = Cardinality(calls[n].args) + 1
        /\ Cardinality(calls[n].args) \in Nat
    BY <2>4, <2>6, <2>7, FragmentsFinite, FS_AddElement
  <2>9. Argued' = [Argued EXCEPT ![n] = Argued'[n]]
    BY <2>3 DEF Argued
  <2>10. n \in DOMAIN Argued /\ Argued'[n] > Argued[n]
    <3>1. n \in DOMAIN calls /\ n \in DOMAIN calls'
      BY <2>3
    <3>2. /\ Argued'[n] = Cardinality(calls'[n].args) /\ n \in DOMAIN Argued
          /\ Argued[n] = Cardinality(calls[n].args)
      BY <3>1 DEF Argued
    <3>3. QED
      BY <2>8, <3>2
  <2> HIDE DEF n
  <2>11. Wire!Argue(n)
    BY <2>1, <2>2, <2>9, <2>10 DEF Wire!Argue
  <2>12. QED
    BY <2>10, <2>11 DEF Wire!Next
<1>15. CASE slot.kind = "stop"
  <2>1. phase = "stopped" /\ usage = Unknown /\ ~ finish
    BY <1>3, <1>15 DEF PhaseFits
  <2>2. Stage = "body" /\ Stage' = "finished"
    BY <1>1, <1>9, <1>10, <1>15, <2>1 DEF Stage
  <2>3. inThink' = FALSE
    BY <1>2, <1>15 DEF ThinkFits, TypeOK
  <2>4. Delivered' = Delivered /\ Argued' = Argued
    BY <1>6, <1>8, <1>15 DEF Delivered, Argued
  <2>5. QED
    BY <2>2, <2>3, <2>4 DEF Wire!Next, Wire!Finish
<1>16. CASE slot.kind = "usage"
  <2>1. phase = "metered" /\ usage = Unknown /\ finish
    BY <1>3, <1>16 DEF PhaseFits
  <2>2. usage' # Unknown
    BY <1>1, <1>16 DEF Read, TypeOK, Chunk, Unknown
  <2>3. Stage = "finished" /\ Stage' = "metered"
    BY <1>1, <1>16, <2>1, <2>2 DEF Stage
  <2>4. inThink' = inThink /\ Delivered' = Delivered /\ Argued' = Argued
    BY <1>6, <1>7, <1>8, <1>16 DEF Delivered, Argued
  <2>5. QED
    BY <2>3, <2>4 DEF Wire!Next, Wire!Meter
<1>17. QED
  BY <1>1, <1>11, <1>12, <1>13, <1>14, <1>15, <1>16 DEF Kinds

\* An error, the end of the stream and a disconnect are steps of the wire.
LEMMA WireLeave ==
    ASSUME StreamInv, ForwardError \/ SendDone \/ ClientDrop
    PROVE  Wire!Next
<1>1. UNCHANGED client
  BY DEF ForwardError, SendDone, ClientDrop
<1>2. inThink' = inThink /\ Delivered' = Delivered /\ Argued' = Argued
  BY <1>1 DEF client, Delivered, Argued
<1>3. CASE ForwardError
  <2>1. Stage \notin {"failed", "ended"} /\ Stage' = "failed"
    BY <1>3 DEF ForwardError, Stage
  <2>2. QED
    BY <1>2, <2>1 DEF Wire!Next, Wire!Error
<1>4. CASE SendDone \/ ClientDrop
  <2>1. Stage # "ended" /\ Stage' = "ended"
    BY <1>4 DEF SendDone, ClientDrop, Stage
  <2>2. QED
    BY <1>2, <2>1 DEF Wire!Next, Wire!Done
<1>5. QED
  BY <1>3, <1>4

\* The Converse lane keeps the protocol of a chat stream: what its client gets,
\* chunk by chunk, is a behaviour of ChatWire.
THEOREM WireImplemented == Spec => WireHolds
<1>1. Init => Wire!Init
  BY WireInit
<1>2. StreamInv /\ Next => Wire!Next \/ UNCHANGED Wire!wire
  BY WireProvider, WireForward, WireLeave DEF Next
<1>3. UNCHANGED vars => UNCHANGED Wire!wire
  <2>1. ASSUME UNCHANGED vars PROVE UNCHANGED client /\ Stage' = Stage
    BY <2>1 DEF vars, client, upstream, Stage
  <2>2. QED
    BY <2>1, WireStutter
<1>4. StreamInv /\ [Next]_vars => [Wire!Next]_(Wire!wire)
  BY <1>2, <1>3
<1>5. QED
  BY <1>1, <1>4, StreamInvariant, PTL DEF Spec, WireHolds, Wire!Spec
=============================================================================
