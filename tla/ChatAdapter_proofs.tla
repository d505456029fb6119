------------------------- MODULE ChatAdapter_proofs -------------------------
(***************************************************************************)
(* Proofs about ChatAdapter, for responses of any number of items and of   *)
(* pieces of text.                                                         *)
(***************************************************************************)
EXTENDS ChatAdapter, SequenceLemmas, FiniteSetTheorems, SequenceTheorems, TLAPS

(* The inductive invariant *)

Cut == over \in {"upstream", "adapter"}

\* What a client has made of the stream so far: which chunk it may get next,
\* whether the tag is open, how many calls were announced.
Views == [stage : {"new", "body", "finished", "metered", "failed"},
          think : BOOLEAN, count : Nat]

\* Piece t is of an item of the given type.
Of(its, t, type) == t[1] \in DOMAIN its /\ its[t[1]].type = type

\* The text of a chunk finds the tag in one state and leaves it in another: a
\* thought is inside, a piece of the answer outside, and the tag is opened by
\* the first piece and closed by the last.
Reads(its, before, text, after) ==
    /\ text # <<>>
    /\ after = (text[Len(text)] # Close /\ (before \/ text[1] = Open))
    /\ \A k \in DOMAIN text :
          /\ text[k][1] \in 0 .. Len(its)
          /\ text[k] = Open => k = 1
          /\ text[k] = Close => k = Len(text)
          /\ Of(its, text[k], "reasoning") => before \/ text[1] = Open
          /\ Of(its, text[k], "message") => ~ before /\ text[1] # Open

\* A chunk is due in one view and leads to another.
RoleLeads(v, w) == v.stage = "new" /\ w = [v EXCEPT !.stage = "body"]
ContentLeads(its, v, text, w) ==
    /\ v.stage = "body" /\ Reads(its, v.think, text, w.think)
    /\ v.count # 0 => ~ w.think
    /\ w = [v EXCEPT !.think = w.think]
CallLeads(v, index, w) ==
    /\ v.stage = "body" /\ ~ v.think /\ index = v.count
    /\ w = [v EXCEPT !.count = @ + 1]
ArgsLeads(v, index, text, w) ==
    v.stage = "body" /\ index < v.count /\ text # <<>> /\ w = v
FinishLeads(v, reason, w) ==
    /\ v.stage = "body" /\ ~ v.think /\ reason \in {"stop", "length", "tool_calls"}
    /\ w = [v EXCEPT !.stage = "finished"]
UsageLeads(v, w)   == v.stage = "finished" /\ w = [v EXCEPT !.stage = "metered"]
FailureLeads(v, w) == v.stage = "body" /\ w = [v EXCEPT !.stage = "failed"]

Leads(its, v, c, w) ==
    /\ c.kind = "role"    => RoleLeads(v, w)
    /\ c.kind = "content" => ContentLeads(its, v, c.text, w)
    /\ c.kind = "call"    => CallLeads(v, c.index, w)
    /\ c.kind = "args"    => ArgsLeads(v, c.index, c.text, w)
    /\ c.kind = "finish"  => FinishLeads(v, c.reason, w)
    /\ c.kind = "usage"   => UsageLeads(v, w)
    /\ c.kind = "failure" => FailureLeads(v, w)

\* A sequence of chunks leads from one view to another.
Path(its, from, chunks, to) ==
    /\ chunks \in Seq(Chunk)
    /\ \E path \in [1 .. Len(chunks) + 1 -> Views] :
          /\ path[1] = from /\ path[Len(chunks) + 1] = to
          /\ \A k \in 1 .. Len(chunks) : Leads(its, path[k], chunks[k], path[k + 1])

Seen == [stage |-> Heard, think |-> OpenAtEnd(content),
         count |-> Cardinality(DOMAIN calls)]

\* The view in which the machine believes the client to be.
Promised(v) ==
    /\ over = "no" => v.stage = "body"
    /\ over \in {"completed", "incomplete"} => v.stage \in {"finished", "metered"}
    /\ Cut => v.stage = "failed"
    /\ ~ Cut => v.think = thinkOpen /\ v.count = Cardinality(DOMAIN toolIndex)

\* The chunks on their way lead the client to where the machine believes it.
PendingFits ==
    router = "forwarding" =>
        \E v \in Views : Path(items, Seen, pending, v) /\ Promised(v)

\* Reasoning is over when the first call is seen, or the stream is cut; what
\* is announced was seen; only a summary that is streamed leaves the tag open.
ItemsFit ==
    /\ over = "no" /\ ToolCallsSeen =>
          \A i \in DOMAIN items : items[i].type = "reasoning" => items[i].done
    /\ \A i \in DOMAIN items :
          /\ items[i].type = "call" => i \in DOMAIN toolIndex
          /\ items[i].type = "reasoning" => items[i].size <= MaxPieces
    /\ \A k \in DOMAIN content : content[k][1] \in 0 .. Len(items)
    /\ thinkOpen => summaryStreamed

ClientCall == [item : 0 .. MaxItems, args : Seq(Piece), carries : Capsules]

CallsFit ==
    /\ Cardinality(DOMAIN calls) \in Nat
    /\ DOMAIN calls = 0 .. Cardinality(DOMAIN calls) - 1
    /\ \A i \in DOMAIN calls : calls[i] \in ClientCall

\* An error was reported if and only if the stream was cut.
RouterFits ==
    /\ usage => finish # "none"
    /\ router = "forwarding" => ~ error
    /\ router = "failed" => error /\ finish = "none" /\ Cut /\ pending = <<>>

AdapterInv ==
    /\ TypeOK /\ ItemsFit /\ CallsFit /\ PendingFits /\ RouterFits
    /\ ThinkSeparates /\ VerdictBeforeDone
-----------------------------------------------------------------------------
(* Paths *)

LEMMA PathEmpty ==
    ASSUME NEW its, NEW v \in Views
    PROVE  Path(its, v, <<>>, v)
<1> DEFINE path == [k \in 1 .. 1 |-> v]
<1>1. path \in [1 .. Len(<<>>) + 1 -> Views] /\ path[1] = v /\ path[Len(<<>>) + 1] = v
  OBVIOUS
<1>2. \A k \in 1 .. Len(<<>>) : Leads(its, path[k], <<>>[k], path[k + 1])
  OBVIOUS
<1>3. <<>> \in Seq(Chunk)
  OBVIOUS
<1> HIDE DEF path
<1>4. QED
  BY <1>1, <1>2, <1>3 DEF Path

LEMMA PathOne ==
    ASSUME NEW its, NEW v \in Views, NEW w \in Views, NEW c \in Chunk,
           Leads(its, v, c, w)
    PROVE  Path(its, v, <<c>>, w)
<1> DEFINE path == [k \in 1 .. 2 |-> IF k = 1 THEN v ELSE w]
<1>1. /\ path \in [1 .. Len(<<c>>) + 1 -> Views]
      /\ path[1] = v /\ path[Len(<<c>>) + 1] = w
  OBVIOUS
<1>2. \A k \in 1 .. Len(<<c>>) : k = 1 /\ path[k] = v /\ <<c>>[k] = c /\ path[k + 1] = w
  OBVIOUS
<1>3. <<c>> \in Seq(Chunk)
  OBVIOUS
<1> HIDE DEF path
<1>4. QED
  BY <1>1, <1>2, <1>3 DEF Path

LEMMA PathConcat ==
    ASSUME NEW its, NEW u, NEW v, NEW w, NEW s, NEW t,
           Path(its, u, s, v), Path(its, v, t, w)
    PROVE  Path(its, u, s \o t, w)
<1>1. s \in Seq(Chunk) /\ t \in Seq(Chunk)
  BY DEF Path
<1>2. PICK p \in [1 .. Len(s) + 1 -> Views] :
         /\ p[1] = u /\ p[Len(s) + 1] = v
         /\ \A k \in 1 .. Len(s) : Leads(its, p[k], s[k], p[k + 1])
  BY DEF Path
<1>3. PICK q \in [1 .. Len(t) + 1 -> Views] :
         /\ q[1] = v /\ q[Len(t) + 1] = w
         /\ \A k \in 1 .. Len(t) : Leads(its, q[k], t[k], q[k + 1])
  BY DEF Path
<1> DEFINE n == Len(s)
           m == Len(t)
           r == [k \in 1 .. n + m + 1 |-> IF k <= n + 1 THEN p[k] ELSE q[k - n]]
<1>4. n \in Nat /\ m \in Nat /\ s \o t \in Seq(Chunk) /\ Len(s \o t) = n + m
  BY <1>1, ConcatProperties
<1> HIDE DEF n, m
<1>5. \A k \in 1 .. n + m : (s \o t)[k] = IF k <= n THEN s[k] ELSE t[k - n]
  BY <1>1, <1>4, ConcatProperties DEF n, m
<1>6. \A k \in 1 .. n + 1 : r[k] = p[k]
  BY <1>4
<1>7. \A k \in n + 1 .. n + m + 1 : r[k] = q[k - n]
  BY <1>2, <1>3, <1>4 DEF n
<1>8. r \in [1 .. n + m + 1 -> Views]
  BY <1>2, <1>3, <1>4 DEF n, m
<1>9. r[1] = u /\ r[n + m + 1] = w
  BY <1>2, <1>3, <1>4, <1>6, <1>7 DEF m
<1> HIDE DEF r
<1>10. ASSUME NEW k \in 1 .. n + m PROVE Leads(its, r[k], (s \o t)[k], r[k + 1])
  <2>1. CASE k <= n
    <3>1. k \in 1 .. n /\ k \in 1 .. n + 1 /\ k + 1 \in 1 .. n + 1
      BY <1>4, <2>1
    <3>2. r[k] = p[k] /\ r[k + 1] = p[k + 1] /\ (s \o t)[k] = s[k]
      BY <1>5, <1>6, <2>1, <3>1
    <3>3. QED
      BY <1>2, <3>1, <3>2 DEF n
  <2>2. CASE ~ (k <= n)
    <3>1. k - n \in 1 .. m /\ k \in n + 1 .. n + m + 1 /\ k + 1 \in n + 1 .. n + m + 1
          /\ (k + 1) - n = (k - n) + 1
      BY <1>4, <2>2
    <3>2. r[k] = q[k - n] /\ r[k + 1] = q[(k - n) + 1] /\ (s \o t)[k] = t[k - n]
      BY <1>4, <1>5, <1>7, <2>2, <3>1
    <3>3. QED
      BY <1>3, <3>1, <3>2 DEF m
  <2>3. QED
    BY <2>1, <2>2
<1>11. QED
  BY <1>4, <1>8, <1>9, <1>10 DEF Path

LEMMA PathHead ==
    ASSUME NEW its, NEW u, NEW w, NEW s, Path(its, u, s, w), s # <<>>
    PROVE  \E v \in Views : Leads(its, u, Head(s), v) /\ Path(its, v, Tail(s), w)
<1>1. s \in Seq(Chunk)
  BY DEF Path
<1>2. PICK p \in [1 .. Len(s) + 1 -> Views] :
         /\ p[1] = u /\ p[Len(s) + 1] = w
         /\ \A k \in 1 .. Len(s) : Leads(its, p[k], s[k], p[k + 1])
  BY DEF Path
<1> DEFINE n == Len(s)
           q == [k \in 1 .. n |-> p[k + 1]]
<1>3. n \in Nat \ {0} /\ Head(s) = s[1]
  BY <1>1
<1>4. Tail(s) \in Seq(Chunk) /\ Len(Tail(s)) = n - 1
  BY <1>1
<1>5. \A k \in 1 .. n - 1 : Tail(s)[k] = s[k + 1]
  BY <1>1
<1> HIDE DEF n
<1>6. q \in [1 .. n -> Views] /\ q[n] = w /\ q[1] = p[2]
  BY <1>2, <1>3 DEF n
<1>7. \A k \in 1 .. n : q[k] = p[k + 1]
  OBVIOUS
<1> HIDE DEF q
<1>8. ASSUME NEW k \in 1 .. n - 1 PROVE Leads(its, q[k], Tail(s)[k], q[k + 1])
  <2>1. k \in 1 .. n /\ k + 1 \in 1 .. n
    BY <1>3
  <2>2. QED
    BY <1>2, <1>5, <1>7, <2>1 DEF n
<1>9. n - 1 + 1 = n
  BY <1>3
<1>10. Path(its, q[1], Tail(s), w)
  BY <1>4, <1>6, <1>8, <1>9 DEF Path
<1>11. 1 \in 1 .. n /\ 2 \in 1 .. n + 1
  BY <1>3
<1>12. q[1] \in Views /\ Leads(its, u, Head(s), q[1])
  BY <1>2, <1>3, <1>6, <1>11 DEF n
<1>13. QED
  BY <1>10, <1>12

LEMMA PathEnds ==
    ASSUME NEW its, NEW u, NEW w, Path(its, u, <<>>, w)
    PROVE  u = w
BY DEF Path
-----------------------------------------------------------------------------
(* Chunks *)

LEMMA BlankType == Blank \in Chunk
<1>1. Empty \in Capsules
  <2>1. {} \in SUBSET (1 .. MaxItems) /\ Empty \in [{} -> 0 .. MaxPieces]
    BY DEF Empty
  <2>2. QED
    BY <2>1 DEF Capsules
<1>2. 0 \in 0 .. MaxItems
  BY BoundsAssumption
<1>3. QED
  BY <1>1, <1>2 DEF Blank, Chunk

\* Each kind of chunk, with its parts.
LEMMA ContentType ==
    ASSUME NEW text \in Seq(Piece)
    PROVE  /\ ContentChunk(text) \in Chunk /\ ContentChunk(text).kind = "content"
           /\ ContentChunk(text).text = text
BY BlankType DEF ContentChunk, Chunk, Blank

LEMMA ArgsType ==
    ASSUME NEW i, IndexOf(i) \in Nat, NEW text \in Seq(Piece)
    PROVE  /\ ArgsChunk(i, text) \in Chunk /\ ArgsChunk(i, text).kind = "args"
           /\ ArgsChunk(i, text).text = text /\ ArgsChunk(i, text).index = IndexOf(i)
BY BlankType DEF ArgsChunk, Chunk, Blank

LEMMA CallType ==
    ASSUME NEW i \in 1 .. MaxItems, IndexOf(i) \in Nat, NEW carried \in Capsules
    PROVE  /\ CallChunk(i, carried) \in Chunk /\ CallChunk(i, carried).kind = "call"
           /\ CallChunk(i, carried).index = IndexOf(i)
<1>1. i \in 0 .. MaxItems
  OBVIOUS
<1>2. QED
  BY <1>1, BlankType DEF CallChunk, Chunk, Blank

LEMMA FinishType ==
    ASSUME NEW reason \in {"stop", "length", "tool_calls"}
    PROVE  /\ FinishChunk(reason) \in Chunk /\ FinishChunk(reason).kind = "finish"
           /\ FinishChunk(reason).reason = reason
BY BlankType DEF FinishChunk, Chunk, Blank

LEMMA UsageType == UsageChunk \in Chunk /\ UsageChunk.kind = "usage"
BY BlankType DEF UsageChunk, Chunk, Blank

LEMMA FailureType ==
    ASSUME NEW cause \in {"upstream", "adapter"}
    PROVE  Failure(cause) \in Chunk /\ Failure(cause).kind = "failure"
BY BlankType DEF Failure, Chunk, Blank

LEMMA ContentPath ==
    ASSUME NEW its, NEW v \in Views, NEW text \in Seq(Piece), NEW after \in BOOLEAN,
           v.stage = "body", Reads(its, v.think, text, after), v.count # 0 => ~ after
    PROVE  Path(its, v, <<ContentChunk(text)>>, [v EXCEPT !.think = after])
<1> DEFINE w == [v EXCEPT !.think = after]
<1>1. w \in Views /\ w.think = after /\ w = [v EXCEPT !.think = w.think]
  BY DEF Views
<1> HIDE DEF w
<1>2. Leads(its, v, ContentChunk(text), w)
  BY <1>1, ContentType DEF Leads, ContentLeads
<1>3. Path(its, v, <<ContentChunk(text)>>, w)
  BY <1>1, <1>2, ContentType, PathOne
<1>4. QED
  BY <1>3 DEF w

\* The closing tag is due while the tag is open.
LEMMA ClosePath ==
    ASSUME NEW its \in Seq(Item), NEW v \in Views, v.stage = "body", v.think
    PROVE  Path(its, v, <<ContentChunk(<<Close>>)>>, [v EXCEPT !.think = FALSE])
<1>1. <<Close>> \in Seq(Piece)
  BY DEF Close, Piece
<1>2. Reads(its, v.think, <<Close>>, FALSE)
  BY DEF Reads, Close, Open, Of
<1>3. QED
  BY <1>1, <1>2, ContentPath

LEMMA ArgsPath ==
    ASSUME NEW its, NEW v \in Views, NEW c \in Chunk, c.kind = "args",
           ArgsLeads(v, c.index, c.text, v)
    PROVE  Path(its, v, <<c>>, v)
BY PathOne DEF Leads

LEMMA CallPath ==
    ASSUME NEW its, NEW v \in Views, NEW c \in Chunk, c.kind = "call",
           v.stage = "body", ~ v.think, c.index = v.count
    PROVE  Path(its, v, <<c>>, [v EXCEPT !.count = @ + 1])
<1>1. [v EXCEPT !.count = @ + 1] \in Views
  BY DEF Views
<1>2. QED
  BY <1>1, PathOne DEF Leads, CallLeads

LEMMA FailurePath ==
    ASSUME NEW its, NEW v \in Views, v.stage = "body", NEW cause \in {"upstream", "adapter"}
    PROVE  Path(its, v, <<Failure(cause)>>, [v EXCEPT !.stage = "failed"])
<1>1. [v EXCEPT !.stage = "failed"] \in Views
  BY DEF Views
<1>2. QED
  BY <1>1, FailureType, PathOne DEF Leads, FailureLeads

LEMMA FinishPath ==
    ASSUME NEW its, NEW v \in Views, v.stage = "body", ~ v.think,
           NEW reason \in {"stop", "length", "tool_calls"},
           NEW metered \in {<<>>, <<UsageChunk>>}
    PROVE  \E s \in {"finished", "metered"} :
              Path(its, v, <<FinishChunk(reason)>> \o metered, [v EXCEPT !.stage = s])
<1> DEFINE u == [v EXCEPT !.stage = "finished"]
           w == [v EXCEPT !.stage = "metered"]
<1>1. u \in Views /\ w \in Views /\ u.stage = "finished" /\ w = [u EXCEPT !.stage = "metered"]
  BY DEF Views
<1>2. FinishLeads(v, reason, u) /\ UsageLeads(u, w)
  BY <1>1 DEF FinishLeads, UsageLeads
<1> HIDE DEF u, w
<1>3. Leads(its, v, FinishChunk(reason), u) /\ Leads(its, u, UsageChunk, w)
  BY <1>2, FinishType, UsageType DEF Leads
<1>4. Path(its, v, <<FinishChunk(reason)>>, u)
  BY <1>1, <1>3, FinishType, PathOne
<1>5. CASE metered = <<>>
  <2>1. Path(its, v, <<FinishChunk(reason)>> \o metered, u)
    BY <1>1, <1>4, <1>5, PathEmpty, PathConcat
  <2>2. QED
    BY <2>1 DEF u
<1>6. CASE metered = <<UsageChunk>>
  <2>1. Path(its, u, <<UsageChunk>>, w)
    BY <1>1, <1>3, UsageType, PathOne
  <2>2. Path(its, v, <<FinishChunk(reason)>> \o metered, w)
    BY <1>4, <1>6, <2>1, PathConcat
  <2>3. QED
    BY <2>2 DEF w
<1>7. QED
  BY <1>5, <1>6
-----------------------------------------------------------------------------
(* Items *)

\* The output grows: no item goes or changes its type.
Extends ==
    /\ items' \in Seq(Item)
    /\ Len(items) <= Len(items') /\ Len(items') <= MaxItems
    /\ \A i \in DOMAIN items : items'[i].type = items[i].type

LEMMA NewItemFacts ==
    ASSUME TypeOK, NEW type \in Types, NEW sealed \in BOOLEAN, NEW size \in Nat,
           NEW done \in BOOLEAN, NewItem(type, sealed, size, done)
    PROVE  /\ Extends /\ Receiving /\ Closed /\ style' = style
           /\ Len(items) + 1 \in 1 .. MaxItems
           /\ DOMAIN items' = DOMAIN items \cup {Len(items) + 1}
           /\ Len(items) + 1 \notin DOMAIN items
           /\ \A i \in DOMAIN items : items'[i] = items[i]
           /\ items'[Len(items) + 1].type = type
           /\ items'[Len(items) + 1].done = done
           /\ items'[Len(items) + 1].size = size
<1> DEFINE r == [type |-> type, size |-> size, parts |-> 0,
                 partOpen |-> FALSE, sealed |-> sealed, done |-> done]
<1>1. items \in Seq(Item) /\ Len(items) \in Nat /\ Len(items) < MaxItems
  BY DEF TypeOK, NewItem
<1>2. r \in Item /\ r.type = type /\ r.done = done /\ r.size = size
  BY DEF Item
<1>3. items' = Append(items, r)
  BY DEF NewItem
<1> HIDE DEF r
<1>4. /\ items' \in Seq(Item) /\ Len(items') = Len(items) + 1
      /\ items'[Len(items) + 1] = r
      /\ \A i \in 1 .. Len(items) : items'[i] = items[i]
  BY <1>1, <1>2, <1>3
<1>5. DOMAIN items = 1 .. Len(items) /\ DOMAIN items' = 1 .. Len(items) + 1
  BY <1>1, <1>4
<1>6. Len(items) + 1 \in 1 .. MaxItems /\ Len(items') <= MaxItems
  BY <1>1, <1>4, BoundsAssumption
<1>7. Extends
  BY <1>1, <1>4, <1>5, <1>6 DEF Extends
<1>8. Receiving /\ Closed /\ style' = style
  BY DEF NewItem
<1>9. QED
  BY <1>1, <1>2, <1>4, <1>5, <1>6, <1>7, <1>8

LEMMA ChangeFacts ==
    ASSUME TypeOK, NEW i \in DOMAIN items, NEW r \in Item, r.type = items[i].type,
           items' = [items EXCEPT ![i] = r]
    PROVE  /\ Extends /\ items'[i] = r /\ DOMAIN items' = DOMAIN items
           /\ \A j \in DOMAIN items \ {i} : items'[j] = items[j]
<1>1. items \in Seq(Item) /\ Len(items) \in Nat /\ Len(items) <= MaxItems
  BY DEF TypeOK
<1>2. items' \in Seq(Item) /\ Len(items') = Len(items) /\ DOMAIN items' = DOMAIN items
  BY <1>1, ExceptSeq
<1>3. items'[i] = r /\ \A j \in DOMAIN items \ {i} : items'[j] = items[j]
  BY <1>1
<1>4. QED
  BY <1>1, <1>2, <1>3 DEF Extends

\* Indices of items are finitely many.
LEMMA FewIndices ==
    ASSUME NEW s \in Seq(Item), NEW D, D \subseteq DOMAIN s
    PROVE  IsFiniteSet(D) /\ Cardinality(D) \in Nat
<1>1. DOMAIN s = 1 .. Len(s) /\ Len(s) \in Nat
  OBVIOUS
<1>2. IsFiniteSet(1 .. Len(s))
  BY <1>1, FS_Interval
<1>3. QED
  BY <1>1, <1>2, FS_Subset, FS_CardinalityType

\* While there is room no item has used it all.
LEMMA RoomFacts ==
    ASSUME TypeOK
    PROVE  /\ Room \in Int /\ Room <= MaxPieces
           /\ \A i \in DOMAIN items : Room > 0 => items[i].size < MaxPieces
<1>1. items \in Seq(Item) /\ DOMAIN items = 1 .. Len(items) /\ Len(items) \in Nat
  BY DEF TypeOK
<1>2. IsFiniteSet(DOMAIN items) /\ IsFiniteSet(1 .. MaxPieces)
  BY <1>1, FS_Interval, BoundsAssumption
<1>3. IsFiniteSet((DOMAIN items) \X (1 .. MaxPieces))
  BY <1>2, FS_Product
<1>4. IsFiniteSet(Shown) /\ Cardinality(Shown) \in Nat
  BY <1>3, FS_Subset, FS_CardinalityType DEF Shown
<1>5. \A i \in DOMAIN items : items[i].size \in Nat
  <2>1. \A i \in DOMAIN items : items[i] \in Item
    BY <1>1
  <2>2. \A r \in Item : r.size \in Nat
    BY DEF Item
  <2>3. QED
    BY <2>1, <2>2
<1>6. ASSUME NEW i \in DOMAIN items, items[i].size >= MaxPieces
      PROVE  Cardinality(Shown) >= MaxPieces
  <2> DEFINE all == {i} \X (1 .. MaxPieces)
  <2>1. items[i].size \in Nat
    BY <1>5
  <2>2. all \subseteq Shown
    BY <1>6, <2>1, BoundsAssumption DEF Shown
  <2>3. IsFiniteSet({i}) /\ Cardinality({i}) = 1
    BY FS_Singleton
  <2>4. Cardinality(1 .. MaxPieces) = MaxPieces
    <3>1. 1 \in Int /\ MaxPieces \in Int
      BY BoundsAssumption
    <3>2. Cardinality(1 .. MaxPieces) = IF 1 > MaxPieces THEN 0 ELSE MaxPieces - 1 + 1
      BY <3>1, FS_Interval
    <3>3. QED
      BY <3>2, BoundsAssumption
  <2>5. Cardinality(all) = 1 * MaxPieces
    <3>1. IsFiniteSet(1 .. MaxPieces)
      BY <1>2
    <3>2. Cardinality(all) = Cardinality({i}) * Cardinality(1 .. MaxPieces)
      BY <2>3, <3>1, FS_Product
    <3>3. QED
      BY <2>3, <2>4, <3>2
  <2>6. Cardinality(all) = MaxPieces
    BY <2>5, BoundsAssumption
  <2> HIDE DEF all
  <2>7. Cardinality(all) <= Cardinality(Shown)
    BY <1>4, <2>2, FS_Subset
  <2>8. QED
    BY <1>4, <2>6, <2>7, BoundsAssumption
<1>7. QED
  BY <1>4, <1>5, <1>6, BoundsAssumption DEF Room
-----------------------------------------------------------------------------
(* Tool indices *)

\* A call that was seen has an index below the number of calls.
LEMMA IndexFacts ==
    ASSUME TypeOK
    PROVE  /\ IsFiniteSet(DOMAIN toolIndex) /\ Cardinality(DOMAIN toolIndex) \in Nat
           /\ \A i \in DOMAIN toolIndex :
                 toolIndex[i] \in Nat /\ toolIndex[i] < Cardinality(DOMAIN toolIndex)
<1>1. items \in Seq(Item) /\ DOMAIN toolIndex \subseteq DOMAIN items
  BY DEF TypeOK
<1>2. IsFiniteSet(DOMAIN toolIndex) /\ Cardinality(DOMAIN toolIndex) \in Nat
  BY <1>1, FewIndices
<1>3. ASSUME NEW i \in DOMAIN toolIndex
      PROVE  toolIndex[i] \in Nat /\ toolIndex[i] < Cardinality(DOMAIN toolIndex)
  <2> DEFINE before == {j \in DOMAIN toolIndex : j < i}
  <2>1. i \in Nat
    BY <1>1
  <2>2. before \subseteq DOMAIN toolIndex /\ i \notin before
    BY <2>1
  <2>3. before # DOMAIN toolIndex
    BY <2>2
  <2>4. toolIndex[i] = Cardinality(before)
    BY DEF TypeOK
  <2> HIDE DEF before
  <2>5. Cardinality(before) \in Nat /\ Cardinality(before) < Cardinality(DOMAIN toolIndex)
    BY <1>2, <2>2, <2>3, FS_Subset, FS_CardinalityType
  <2>6. QED
    BY <2>4, <2>5
<1>4. QED
  BY <1>2, <1>3

\* What With does to a function.
LEMMA WithFacts ==
    ASSUME NEW f, NEW i, NEW v
    PROVE  /\ DOMAIN With(f, i, v) = DOMAIN f \cup {i}
           /\ With(f, i, v)[i] = v
           /\ \A j \in DOMAIN f \ {i} : With(f, i, v)[j] = f[j]
BY DEF With

\* A new call gets the next index; a call that was seen keeps its own.
LEMMA IndexNext ==
    ASSUME TypeOK, NEW i \in Nat, i \in DOMAIN toolIndex \/ i = Len(items) + 1,
           toolIndex' = With(toolIndex, i, IndexOf(i))
    PROVE  /\ IndexOf(i) \in Nat
           /\ DOMAIN toolIndex' = DOMAIN toolIndex \cup {i}
           /\ \A k \in DOMAIN toolIndex' :
                 toolIndex'[k] = Cardinality({j \in DOMAIN toolIndex' : j < k})
           /\ i \in DOMAIN toolIndex =>
                 Cardinality(DOMAIN toolIndex') = Cardinality(DOMAIN toolIndex)
           /\ i \notin DOMAIN toolIndex =>
                 /\ IndexOf(i) = Cardinality(DOMAIN toolIndex)
                 /\ Cardinality(DOMAIN toolIndex') = Cardinality(DOMAIN toolIndex) + 1
<1>1. /\ DOMAIN toolIndex \subseteq 1 .. Len(items) /\ Len(items) \in Nat
      /\ \A k \in DOMAIN toolIndex :
            toolIndex[k] = Cardinality({j \in DOMAIN toolIndex : j < k})
  BY DEF TypeOK
<1>2. IsFiniteSet(DOMAIN toolIndex) /\ Cardinality(DOMAIN toolIndex) \in Nat
  BY IndexFacts
<1>3. IndexOf(i) \in Nat
  BY <1>2, IndexFacts DEF IndexOf
<1>4. /\ DOMAIN toolIndex' = DOMAIN toolIndex \cup {i} /\ toolIndex'[i] = IndexOf(i)
      /\ \A j \in DOMAIN toolIndex \ {i} : toolIndex'[j] = toolIndex[j]
  BY DEF With
<1>5. CASE i \in DOMAIN toolIndex
  <2>1. DOMAIN toolIndex' = DOMAIN toolIndex
    BY <1>4, <1>5
  <2>2. \A k \in DOMAIN toolIndex : toolIndex'[k] = toolIndex[k]
    BY <1>4, <1>5 DEF IndexOf
  <2>3. QED
    BY <1>1, <1>3, <1>4, <1>5, <2>1, <2>2
<1>6. CASE i \notin DOMAIN toolIndex
  <2>1. i = Len(items) + 1 /\ IndexOf(i) = Cardinality(DOMAIN toolIndex)
    BY <1>6 DEF IndexOf
  <2>2. Cardinality(DOMAIN toolIndex') = Cardinality(DOMAIN toolIndex) + 1
    BY <1>2, <1>4, <1>6, FS_AddElement
  <2>8. ~ (i < i) /\ \A j \in DOMAIN toolIndex : j < i
    BY <1>1, <2>1
  <2>3. {j \in DOMAIN toolIndex' : j < i} = DOMAIN toolIndex
    BY <1>4, <2>8, Zenon
  <2>4. ASSUME NEW k \in DOMAIN toolIndex
        PROVE  {j \in DOMAIN toolIndex' : j < k} = {j \in DOMAIN toolIndex : j < k}
    BY <1>1, <1>4, <2>1
  <2>5. \A k \in DOMAIN toolIndex : toolIndex'[k] = toolIndex[k]
    BY <1>4, <1>6
  <2>6. \A k \in DOMAIN toolIndex' :
           toolIndex'[k] = Cardinality({j \in DOMAIN toolIndex' : j < k})
    BY <1>1, <1>4, <2>1, <2>3, <2>4, <2>5
  <2>7. QED
    BY <1>3, <1>4, <1>6, <2>1, <2>2, <2>6
<1>7. QED
  BY <1>5, <1>6
-----------------------------------------------------------------------------
(* What one event does to the machine *)

\* The view a client has when it has got everything.
Now == [stage |-> "body", think |-> thinkOpen, count |-> Cardinality(DOMAIN toolIndex)]

ReasoningFits ==
    /\ DOMAIN reasoning \subseteq DOMAIN items
    /\ \A i \in DOMAIN reasoning : reasoning[i] \in [sealed : BOOLEAN, size : 0 .. MaxPieces]
    /\ summaryStreamed \in BOOLEAN /\ (thinkOpen => summaryStreamed)
IndexFits ==
    /\ thinkOpen \in BOOLEAN
    /\ DOMAIN toolIndex \subseteq DOMAIN items /\ DOMAIN toolArgs = DOMAIN toolIndex
    /\ \A i \in DOMAIN toolIndex :
          toolIndex[i] = Cardinality({j \in DOMAIN toolIndex : j < i})
    /\ \A i \in DOMAIN toolArgs : toolArgs[i] \in Seq(Piece)
CallsSeen ==
    \A i \in DOMAIN items : items[i].type = "call" => i \in DOMAIN toolIndex
ThoughtsShort ==
    \A i \in DOMAIN items : items[i].type = "reasoning" => items[i].size <= MaxPieces
ThoughtsOver ==
    over = "no" /\ ToolCallsSeen =>
        \A i \in DOMAIN items : items[i].type = "reasoning" => items[i].done
MachineFits ==
    ReasoningFits /\ IndexFits /\ CallsSeen /\ ThoughtsShort /\ ThoughtsOver

LEMMA MachineFitsBefore ==
    ASSUME AdapterInv
    PROVE  MachineFits
BY DEF AdapterInv, TypeOK, ItemsFit, MachineFits, ReasoningFits, IndexFits, CallsSeen,
       ThoughtsShort, ThoughtsOver

\* The machine is handed an event when the client knows all it knows.
LEMMA ReceivingFacts ==
    ASSUME AdapterInv, Receiving
    PROVE  /\ router = "forwarding" /\ pending = <<>> /\ over = "no"
           /\ Now \in Views /\ Now.stage = "body" /\ Seen = Now
           /\ finish = "none" /\ ~ usage /\ ~ error
<1>1. router = "forwarding" /\ pending = <<>> /\ over = "no"
  BY DEF Receiving
<1>2. TypeOK /\ RouterFits
  BY DEF AdapterInv
<1>3. Cardinality(DOMAIN toolIndex) \in Nat /\ thinkOpen \in BOOLEAN
  BY <1>2, IndexFacts DEF TypeOK
<1>4. Now \in Views /\ Now.stage = "body"
  BY <1>3 DEF Now, Views
<1>5. PICK v \in Views : Path(items, Seen, pending, v) /\ Promised(v)
  BY <1>1 DEF AdapterInv, PendingFits
<1>6. Seen = v
  BY <1>1, <1>5, PathEnds
<1>7. /\ v.stage = "body" /\ v.think = thinkOpen
      /\ v.count = Cardinality(DOMAIN toolIndex)
  BY <1>1, <1>5 DEF Promised, Cut
<1>8. Seen = Now
  BY <1>5, <1>6, <1>7 DEF Views, Now
<1>9. Heard = "body"
  BY <1>6, <1>7 DEF Seen
<1>10. finish = "none" /\ ~ usage
  BY <1>9 DEF Heard
<1>11. QED
  BY <1>1, <1>2, <1>4, <1>8, <1>10 DEF RouterFits

\* The output grows without moving what the client was shown between the tags
\* or outside.
LEMMA ThinkStays ==
    ASSUME TypeOK, ItemsFit, ThinkSeparates, Extends, UNCHANGED client
    PROVE  ThinkSeparates' /\ \A k \in DOMAIN content' : content'[k][1] \in 0 .. Len(items')
<1>1. items \in Seq(Item) /\ items' \in Seq(Item) /\ Len(items) <= Len(items')
  BY DEF TypeOK, Extends
<1>2. /\ DOMAIN items = 1 .. Len(items) /\ DOMAIN items' = 1 .. Len(items')
      /\ Len(items) \in Nat /\ Len(items') \in Nat
  BY <1>1
<1>3. content' = content /\ calls' = calls /\ finish' = finish
  BY DEF client
<1>4. \A k \in DOMAIN content : content[k][1] \in 0 .. Len(items)
  BY DEF ItemsFit
<1>5. ASSUME NEW k \in DOMAIN content
      PROVE  /\ IsThought(content[k])' = IsThought(content[k])
             /\ IsAnswer(content[k])' = IsAnswer(content[k])
             /\ content[k][1] \in 0 .. Len(items')
  <2>1. content[k][1] \in 0 .. Len(items)
    BY <1>4
  <2>2. content[k][1] \in DOMAIN items <=> content[k][1] \in DOMAIN items'
    BY <1>1, <1>2, <2>1
  <2>3. content[k][1] \in DOMAIN items =>
           items'[content[k][1]].type = items[content[k][1]].type
    BY DEF Extends
  <2>4. content[k][1] \in 0 .. Len(items')
    BY <1>1, <1>2, <2>1
  <2>5. QED
    BY <1>3, <2>2, <2>3, <2>4 DEF IsThought, IsAnswer
<1>6. \A k : Inside(k)' = Inside(k)
  BY <1>3 DEF Inside
<1>7. OpenAtEnd(content)' = OpenAtEnd(content)
  BY <1>3 DEF OpenAtEnd
<1>8. \A k \in DOMAIN content' : content'[k][1] \in 0 .. Len(items')
  BY <1>3, <1>5
<1>9. ThinkSeparates'
  <2>1. ASSUME NEW k \in DOMAIN content'
        PROVE  /\ IsThought(content[k])' => Inside(k)'
               /\ IsAnswer(content[k])' => ~ Inside(k)'
    <3>1. k \in DOMAIN content
      BY <1>3
    <3>2. (IsThought(content[k]) => Inside(k)) /\ (IsAnswer(content[k]) => ~ Inside(k))
      BY <3>1 DEF ThinkSeparates
    <3>3. QED
      BY <1>5, <1>6, <3>1, <3>2
  <2>2. calls' # Empty \/ finish' # "none" => ~ OpenAtEnd(content)'
    BY <1>3, <1>7 DEF ThinkSeparates
  <2>3. QED
    BY <2>1, <2>2 DEF ThinkSeparates
<1>10. QED
  BY <1>8, <1>9

\* What a handler has to leave behind.
LEMMA HandlerFits ==
    ASSUME AdapterInv, Receiving, Extends, MachineFits',
           UNCHANGED <<style, router, client, capsule, input>>,
           over' \in {"no", "completed", "incomplete", "upstream", "adapter"},
           NEW v \in Views, Path(items', Now, pending', v), Promised(v)'
    PROVE  AdapterInv'
<1> USE DEF client
<1>1. TypeOK /\ ItemsFit /\ CallsFit /\ RouterFits /\ ThinkSeparates /\ VerdictBeforeDone
  BY DEF AdapterInv
<1>2. pending' \in Seq(Chunk)
  BY DEF Path
<1>3. TypeOK'
  BY <1>1, <1>2 DEF TypeOK, MachineFits, ReasoningFits, IndexFits, Extends
<1>4. ThinkSeparates' /\ \A k \in DOMAIN content' : content'[k][1] \in 0 .. Len(items')
  BY <1>1, ThinkStays
<1>5. ItemsFit'
  BY <1>4 DEF ItemsFit, MachineFits, CallsSeen, ThoughtsShort, ThoughtsOver, ReasoningFits
<1>6. CallsFit'
  BY <1>1 DEF CallsFit
<1>7. Seen' = Now
  <2>1. Seen' = Seen
    BY DEF Seen, Heard, OpenAtEnd
  <2>2. QED
    BY <2>1, ReceivingFacts
<1>8. PendingFits'
  BY <1>7 DEF PendingFits
<1>9. router' = "forwarding"
  BY ReceivingFacts
<1>10. RouterFits' /\ VerdictBeforeDone'
  BY <1>1, <1>9 DEF RouterFits, VerdictBeforeDone
<1>11. QED
  BY <1>3, <1>4, <1>5, <1>6, <1>8, <1>10 DEF AdapterInv

LEMMA YieldFits ==
    ASSUME AdapterInv, Receiving, Extends, style' = style, MachineFits',
           NEW chunks, Yields(chunks), Path(items', Now, chunks, Now')
    PROVE  AdapterInv'
<1>1. over = "no" /\ over' = "no"
  BY ReceivingFacts DEF Yields
<1>2. Cardinality(DOMAIN toolIndex') \in Nat
  BY FewIndices DEF MachineFits, IndexFits, Extends
<1>3. Now' \in Views
  BY <1>2 DEF Now, Views, MachineFits, IndexFits
<1>4. PICK v \in Views : v = Now'
  BY <1>3
<1>5. /\ v.stage = "body" /\ v.think = thinkOpen'
      /\ v.count = Cardinality(DOMAIN toolIndex')
  BY <1>4 DEF Now
<1>6. Promised(v)'
  BY <1>1, <1>5 DEF Promised, Cut
<1>7. Path(items', Now, pending', v)
  BY <1>4 DEF Yields
<1>8. UNCHANGED <<style, router, client, capsule, input>>
  BY DEF Yields
<1>9. QED
  BY <1>1, <1>6, <1>7, <1>8, HandlerFits

LEMMA FailFits ==
    ASSUME AdapterInv, Receiving, Extends, style' = style, MachineFits',
           NEW cause \in {"upstream", "adapter"}, Fails(cause)
    PROVE  AdapterInv'
<1>1. Now \in Views /\ Now.stage = "body"
  BY ReceivingFacts
<1>6. [Now EXCEPT !.stage = "failed"] \in Views /\ [Now EXCEPT !.stage = "failed"].stage = "failed"
  BY <1>1 DEF Views
<1>2. PICK v \in Views : v = [Now EXCEPT !.stage = "failed"] /\ v.stage = "failed"
  BY <1>6
<1>3. Path(items', Now, pending', v)
  BY <1>1, <1>2, FailurePath DEF Fails
<1>4. over' = cause /\ UNCHANGED <<style, router, client, capsule, input>>
  BY DEF Fails
<1>5. Promised(v)'
  BY <1>2, <1>4 DEF Promised, Cut
<1>7. QED
  BY <1>2, <1>3, <1>4, <1>5, HandlerFits

\* Items that are added or change leave the machine as it was, if a new one is
\* no call and the thoughts still fit.
LEMMA MachineStays ==
    ASSUME MachineFits, Extends, UNCHANGED machine, TypeOK,
           CallsSeen', ThoughtsShort', ThoughtsOver'
    PROVE  MachineFits'
<1>1. DOMAIN items \subseteq DOMAIN items'
  BY DEF Extends, TypeOK
<1>2. ReasoningFits'
  BY <1>1 DEF MachineFits, ReasoningFits, machine
<1>3. IndexFits'
  BY <1>1 DEF MachineFits, IndexFits, machine
<1>4. QED
  BY <1>2, <1>3 DEF MachineFits
-----------------------------------------------------------------------------
(* Reasoning and messages *)

\* What a new item that is no call has to satisfy.
LEMMA NewItemFits ==
    ASSUME TypeOK, MachineFits,
           NEW type \in {"message", "inert", "foreign", "reasoning"}, NEW sealed \in BOOLEAN,
           NEW done \in BOOLEAN, NewItem(type, sealed, 0, done),
           toolIndex' = toolIndex, over' = "no" => type # "reasoning" \/ ~ ToolCallsSeen
    PROVE  CallsSeen' /\ ThoughtsShort' /\ ThoughtsOver'
<1>1. type \in Types
  BY DEF Types
<1>2. /\ DOMAIN items' = DOMAIN items \cup {Len(items) + 1}
      /\ \A i \in DOMAIN items : items'[i] = items[i]
      /\ items'[Len(items) + 1].type = type /\ items'[Len(items) + 1].size = 0
      /\ Receiving
  BY <1>1, NewItemFacts
<1>3. CallsSeen'
  BY <1>2 DEF MachineFits, CallsSeen
<1>4. ThoughtsShort'
  BY <1>2, BoundsAssumption DEF MachineFits, ThoughtsShort
<1>5. ThoughtsOver'
  BY <1>2 DEF MachineFits, ThoughtsOver, ToolCallsSeen, Receiving
<1>6. QED
  BY <1>3, <1>4, <1>5

\* What a change to an item has to satisfy.
LEMMA ChangeFits ==
    ASSUME TypeOK, MachineFits, Receiving, NEW i \in DOMAIN items, NEW r \in Item,
           r.type = items[i].type, items' = [items EXCEPT ![i] = r],
           items[i].done => r.done, r.type = "reasoning" => r.size <= MaxPieces,
           toolIndex' = toolIndex
    PROVE  CallsSeen' /\ ThoughtsShort' /\ ThoughtsOver'
<1>1. /\ DOMAIN items' = DOMAIN items /\ items'[i] = r
      /\ \A j \in DOMAIN items \ {i} : items'[j] = items[j]
  BY ChangeFacts
<1>2. CallsSeen'
  BY <1>1 DEF MachineFits, CallsSeen
<1>3. ThoughtsShort'
  BY <1>1 DEF MachineFits, ThoughtsShort
<1>4. ThoughtsOver'
  <2>1. over = "no"
    BY DEF Receiving
  <2>2. QED
    BY <1>1, <2>1 DEF MachineFits, ThoughtsOver, ToolCallsSeen
<1>5. QED
  BY <1>2, <1>3, <1>4

LEMMA LongerItem ==
    ASSUME NEW it \in Item
    PROVE  /\ it.size \in Nat /\ [it EXCEPT !.size = @ + 1] \in Item
           /\ [it EXCEPT !.size = @ + 1].type = it.type
           /\ [it EXCEPT !.size = @ + 1].done = it.done
           /\ [it EXCEPT !.size = @ + 1].size = it.size + 1
<1>1. it.size \in Nat /\ it.size + 1 \in Nat
  BY DEF Item
<1>2. QED
  BY <1>1 DEF Item

\* An item that grows by one piece.
LEMMA GrowFacts ==
    ASSUME TypeOK, NEW i \in DOMAIN items, Grow(i)
    PROVE  /\ [items[i] EXCEPT !.size = @ + 1] \in Item
           /\ [items[i] EXCEPT !.size = @ + 1].type = items[i].type
           /\ [items[i] EXCEPT !.size = @ + 1].done = items[i].done
           /\ [items[i] EXCEPT !.size = @ + 1].size = items[i].size + 1
           /\ items' = [items EXCEPT ![i] = [items[i] EXCEPT !.size = @ + 1]]
           /\ items[i].size \in Nat /\ items[i].size + 1 <= MaxPieces
           /\ style' = style
<1>1. items \in Seq(Item) /\ items[i] \in Item
  BY DEF TypeOK
<1>2. /\ [items[i] EXCEPT !.size = @ + 1] \in Item
      /\ [items[i] EXCEPT !.size = @ + 1].type = items[i].type
      /\ [items[i] EXCEPT !.size = @ + 1].done = items[i].done
      /\ [items[i] EXCEPT !.size = @ + 1].size = items[i].size + 1
      /\ items[i].size \in Nat
  BY <1>1, LongerItem
<1>3. items' = [items EXCEPT ![i] = [items[i] EXCEPT !.size = @ + 1]] /\ style' = style
  BY DEF Grow
<1>4. items[i].size < MaxPieces
  BY RoomFacts DEF Grow
<1>5. QED
  BY <1>2, <1>3, <1>4, BoundsAssumption

\* While reasoning goes on no call was seen.
LEMMA NoCallYet ==
    ASSUME AdapterInv, NEW i \in DOMAIN items, OpenItem(i, "reasoning")
    PROVE  ~ ToolCallsSeen /\ Now.count = 0
<1>1. ~ ToolCallsSeen
  BY MachineFitsBefore DEF OpenItem, Receiving, MachineFits, ThoughtsOver
<1>2. DOMAIN toolIndex = {}
  BY <1>1 DEF ToolCallsSeen, Empty
<1>3. Now.count = 0
  BY <1>2, FS_EmptySet DEF Now
<1>4. QED
  BY <1>1, <1>3

\* The machine closes the tag, if it is open.
LEMMA CloseThinkPath ==
    ASSUME AdapterInv, Receiving, NEW its \in Seq(Item)
    PROVE  Path(its, Now, CloseThink, [Now EXCEPT !.think = FALSE])
<1>1. Now \in Views /\ Now.stage = "body" /\ Now.think = thinkOpen
  BY ReceivingFacts DEF Now
<1>2. CASE thinkOpen
  BY <1>1, <1>2, ClosePath DEF CloseThink
<1>3. CASE ~ thinkOpen
  <2>1. [Now EXCEPT !.think = FALSE] = Now
    BY <1>1, <1>3 DEF Views
  <2>2. QED
    BY <1>1, <1>3, <2>1, PathEmpty DEF CloseThink
<1>4. QED
  BY <1>2, <1>3, <1>1 DEF Views

\* The view after an event that is no call's.
LEMMA NowAfter ==
    ASSUME toolIndex' = toolIndex
    PROVE  Now' = [Now EXCEPT !.think = thinkOpen']
BY DEF Now

LEMMA MessageAddedFits ==
    ASSUME AdapterInv, MessageAdded
    PROVE  AdapterInv'
<1>1. TypeOK /\ MachineFits
  BY MachineFitsBefore DEF AdapterInv
<1>2. NewItem("message", FALSE, 0, FALSE) /\ Yields(<<>>) /\ UNCHANGED machine
  BY DEF MessageAdded
<1>3. Extends /\ Receiving /\ style' = style
  BY <1>1, <1>2, NewItemFacts DEF Types
<1>4. MachineFits'
  BY <1>1, <1>2, <1>3, NewItemFits, MachineStays DEF machine
<1>5. Now' = Now /\ Now \in Views
  BY <1>2, <1>3, ReceivingFacts DEF Now, machine
<1>6. QED
  BY <1>2, <1>3, <1>4, <1>5, PathEmpty, YieldFits

LEMMA OtherItemFits ==
    ASSUME AdapterInv, OtherItem
    PROVE  AdapterInv'
<1>1. TypeOK /\ MachineFits
  BY MachineFitsBefore DEF AdapterInv
<1>2. UNCHANGED machine
  BY DEF OtherItem
<1>3. CASE NewItem("inert", FALSE, 0, TRUE) /\ Yields(<<>>)
  <2>1. Extends /\ Receiving /\ style' = style
    BY <1>1, <1>3, NewItemFacts DEF Types
  <2>2. MachineFits'
    BY <1>1, <1>2, <1>3, <2>1, NewItemFits, MachineStays DEF machine
  <2>3. Now' = Now /\ Now \in Views
    BY <1>2, <2>1, ReceivingFacts DEF Now, machine
  <2>4. QED
    BY <1>3, <2>1, <2>2, <2>3, PathEmpty, YieldFits
<1>4. CASE NewItem("foreign", FALSE, 0, TRUE) /\ Fails("adapter")
  <2>1. Extends /\ Receiving /\ style' = style
    BY <1>1, <1>4, NewItemFacts DEF Types
  <2>2. MachineFits'
    BY <1>1, <1>2, <1>4, <2>1, NewItemFits, MachineStays DEF machine
  <2>3. QED
    BY <1>4, <2>1, <2>2, FailFits
<1>5. QED
  BY <1>3, <1>4 DEF OtherItem

LEMMA MessageDoneFits ==
    ASSUME AdapterInv, NEW i \in DOMAIN items, MessageDone(i)
    PROVE  AdapterInv'
<1> DEFINE r == [items[i] EXCEPT !.done = TRUE]
<1>1. TypeOK /\ MachineFits
  BY MachineFitsBefore DEF AdapterInv
<1>2. /\ Receiving /\ items[i].type = "message" /\ Yields(<<>>)
      /\ UNCHANGED machine /\ style' = style
  BY DEF MessageDone, OpenItem
<1>3. items[i] \in Item
  BY <1>1 DEF TypeOK
<1>4. r \in Item /\ r.type = items[i].type /\ r.done
  BY <1>3 DEF Item
<1>5. items' = [items EXCEPT ![i] = r]
  BY DEF MessageDone
<1> HIDE DEF r
<1>6. Extends
  BY <1>1, <1>4, <1>5, ChangeFacts
<1>7. CallsSeen' /\ ThoughtsShort' /\ ThoughtsOver'
  BY <1>1, <1>2, <1>4, <1>5, ChangeFits DEF machine
<1>8. MachineFits'
  BY <1>1, <1>2, <1>6, <1>7, MachineStays
<1>9. Now' = Now /\ Now \in Views
  BY <1>2, ReceivingFacts DEF Now, machine
<1>10. QED
  BY <1>2, <1>6, <1>8, <1>9, PathEmpty, YieldFits
-----------------------------------------------------------------------------
(* Text with tags *)

\* A piece of item i belongs to an item of i's type and is no tag.
LEMMA PieceFacts ==
    ASSUME NEW its \in Seq(Item), NEW i \in DOMAIN its, NEW n \in Nat
    PROVE  /\ <<i, n>> \in Piece /\ <<i, n>> # Open /\ <<i, n>> # Close
           /\ <<i, n>>[1] \in 0 .. Len(its)
           /\ \A type : Of(its, <<i, n>>, type) => its[i].type = type
<1>1. i \in 1 .. Len(its) /\ i \in Nat
  OBVIOUS
<1>2. QED
  BY <1>1 DEF Piece, Open, Close, Of

LEMMA TagFacts ==
    ASSUME NEW its \in Seq(Item)
    PROVE  /\ Open \in Piece /\ Close \in Piece /\ Open # Close
           /\ Open[1] \in 0 .. Len(its) /\ Close[1] \in 0 .. Len(its)
           /\ \A type : ~ Of(its, Open, type) /\ ~ Of(its, Close, type)
BY DEF Piece, Open, Close, Of

LEMMA TextFacts ==
    ASSUME NEW i \in Nat, NEW n \in Nat
    PROVE  /\ Text(i, n) \in Seq(Piece) /\ Len(Text(i, n)) = n
           /\ \A k \in 1 .. n : Text(i, n)[k] = <<i, k>>
BY DEF Text, Piece

\* A piece of reasoning opens the tag, or finds it open.
LEMMA ThoughtReads ==
    ASSUME NEW its \in Seq(Item), NEW i \in DOMAIN its, its[i].type = "reasoning",
           NEW n \in Nat, NEW think \in BOOLEAN
    PROVE  /\ Reads(its, think, IF think THEN <<<<i, n>>>> ELSE <<Open, <<i, n>>>>, TRUE)
           /\ Reads(its, think, <<Open, <<i, n>>, Close>>, FALSE)
<1> DEFINE p == <<i, n>>
<1>1. /\ p # Open /\ p # Close /\ p[1] \in 0 .. Len(its)
      /\ ~ Of(its, p, "message")
  BY PieceFacts
<1>2. /\ Open # Close /\ Open[1] \in 0 .. Len(its) /\ Close[1] \in 0 .. Len(its)
      /\ \A type : ~ Of(its, Open, type) /\ ~ Of(its, Close, type)
  BY TagFacts
<1> HIDE DEF p
<1>3. Reads(its, TRUE, <<p>>, TRUE)
  BY <1>1 DEF Reads
<1>4. Reads(its, FALSE, <<Open, p>>, TRUE)
  BY <1>1, <1>2 DEF Reads
<1>5. Reads(its, think, <<Open, p, Close>>, FALSE)
  BY <1>1, <1>2 DEF Reads
<1>6. QED
  BY <1>3, <1>4, <1>5 DEF p

\* A whole summary lies between the tags.
LEMMA SummaryReads ==
    ASSUME NEW its \in Seq(Item), NEW i \in DOMAIN its, its[i].type = "reasoning",
           NEW n \in Nat, NEW think \in BOOLEAN
    PROVE  /\ <<Open>> \o Text(i, n) \o <<Close>> \in Seq(Piece)
           /\ Reads(its, think, <<Open>> \o Text(i, n) \o <<Close>>, FALSE)
<1> DEFINE t == <<Open>> \o Text(i, n) \o <<Close>>
<1>1. i \in Nat
  OBVIOUS
<1>2. Text(i, n) \in Seq(Piece) /\ Len(Text(i, n)) = n /\ \A k \in 1 .. n : Text(i, n)[k] = <<i, k>>
  BY <1>1, TextFacts
<1>3. /\ Open \in Piece /\ Close \in Piece /\ Open # Close
      /\ Open[1] \in 0 .. Len(its) /\ Close[1] \in 0 .. Len(its)
      /\ \A type : ~ Of(its, Open, type) /\ ~ Of(its, Close, type)
  BY TagFacts
<1>4. <<Open>> \in Seq(Piece) /\ <<Close>> \in Seq(Piece)
  BY <1>3
<1>5. <<Open>> \o Text(i, n) \in Seq(Piece) /\ Len(<<Open>> \o Text(i, n)) = n + 1
  BY <1>2, <1>4
<1>6. t \in Seq(Piece) /\ Len(t) = n + 2
  BY <1>2, <1>4, <1>5
<1>7. /\ t[1] = Open /\ t[n + 2] = Close
      /\ \A k \in 2 .. n + 1 : t[k] = <<i, k - 1>>
  <2>1. (<<Open>> \o Text(i, n))[1] = Open
    BY <1>2, <1>4
  <2>2. \A k \in 2 .. n + 1 : (<<Open>> \o Text(i, n))[k] = <<i, k - 1>>
    BY <1>2, <1>4
  <2>3. \A k \in 1 .. n + 1 : t[k] = (<<Open>> \o Text(i, n))[k]
    BY <1>4, <1>5
  <2>4. t[n + 2] = Close
    BY <1>4, <1>5
  <2> HIDE DEF t
  <2>5. 1 \in 1 .. n + 1 /\ \A k \in 2 .. n + 1 : k \in 1 .. n + 1
    OBVIOUS
  <2>6. t[1] = Open /\ \A k \in 2 .. n + 1 : t[k] = <<i, k - 1>>
    BY <2>1, <2>2, <2>3, <2>5, Zenon
  <2>7. QED
    BY <2>4, <2>6
<1> HIDE DEF t
<1>8. \A k \in 2 .. n + 1 : /\ t[k] # Open /\ t[k] # Close /\ t[k][1] \in 0 .. Len(its)
                            /\ ~ Of(its, t[k], "message")
  <2> TAKE k \in 2 .. n + 1
  <2>1. k - 1 \in Nat /\ t[k] = <<i, k - 1>>
    BY <1>7
  <2>2. QED
    BY <2>1, PieceFacts
<1>9. Reads(its, think, t, FALSE)
  <2>1. t # <<>> /\ t[Len(t)] = Close /\ DOMAIN t = 1 .. n + 2
    BY <1>6, <1>7
  <2>2. ASSUME NEW k \in DOMAIN t
        PROVE  /\ t[k][1] \in 0 .. Len(its)
               /\ t[k] = Open => k = 1
               /\ t[k] = Close => k = Len(t)
               /\ Of(its, t[k], "message") => FALSE
    <3>1. k = 1 \/ k = n + 2 \/ k \in 2 .. n + 1
      BY <2>1
    <3>2. QED
      BY <1>3, <1>6, <1>7, <1>8, <3>1
  <2>3. QED
    BY <1>7, <2>1, <2>2 DEF Reads
<1>10. QED
  BY <1>6, <1>9 DEF t

\* A piece of the answer is outside.
LEMMA AnswerReads ==
    ASSUME NEW its \in Seq(Item), NEW i \in DOMAIN its, its[i].type = "message",
           NEW n \in Nat
    PROVE  Reads(its, FALSE, <<<<i, n>>>>, FALSE)
<1> DEFINE p == <<i, n>>
<1>1. /\ p # Open /\ p # Close /\ p[1] \in 0 .. Len(its)
      /\ ~ Of(its, p, "reasoning")
  BY PieceFacts
<1> HIDE DEF p
<1>2. Reads(its, FALSE, <<p>>, FALSE)
  BY <1>1 DEF Reads
<1>3. QED
  BY <1>2 DEF p
-----------------------------------------------------------------------------
(* Reasoning items *)

LEMMA StoredFits ==
    ASSUME TypeOK, MachineFits, Extends, NEW i \in DOMAIN items', NEW sealed \in BOOLEAN,
           NEW size \in 0 .. MaxPieces, reasoning' = Stored(i, sealed, size),
           UNCHANGED <<summaryStreamed, thinkOpen, toolIndex, toolArgs>>
    PROVE  ReasoningFits' /\ IndexFits'
<1>1. DOMAIN items \subseteq DOMAIN items'
  BY DEF Extends, TypeOK
<1> DEFINE r == [sealed |-> sealed \/ (i \in DOMAIN reasoning /\ reasoning[i].sealed),
                 size |-> size]
<1>2. reasoning' = With(reasoning, i, r)
  BY DEF Stored
<1>3. r \in [sealed : BOOLEAN, size : 0 .. MaxPieces]
  OBVIOUS
<1> HIDE DEF r
<1>4. DOMAIN reasoning' \subseteq DOMAIN items'
  BY <1>1, <1>2 DEF With, MachineFits, ReasoningFits
<1>5. \A j \in DOMAIN reasoning' : reasoning'[j] \in [sealed : BOOLEAN, size : 0 .. MaxPieces]
  <2> TAKE j \in DOMAIN reasoning'
  <2>1. reasoning'[j] = IF j = i THEN r ELSE reasoning[j]
    BY <1>2 DEF With
  <2>2. j = i \/ j \in DOMAIN reasoning
    BY <1>2 DEF With
  <2>3. QED
    BY <1>3, <2>1, <2>2 DEF MachineFits, ReasoningFits
<1>6. ReasoningFits'
  BY <1>4, <1>5 DEF MachineFits, ReasoningFits
<1>7. IndexFits'
  BY <1>1 DEF MachineFits, IndexFits
<1>8. QED
  BY <1>6, <1>7

LEMMA ReasoningAddedFits ==
    ASSUME AdapterInv, ReasoningAdded
    PROVE  AdapterInv'
<1>1. TypeOK /\ MachineFits
  BY MachineFitsBefore DEF AdapterInv
<1>2. PICK sealed \in BOOLEAN :
         /\ NewItem("reasoning", sealed, 0, FALSE)
         /\ IF ToolCallsSeen
            THEN Fails("adapter") /\ UNCHANGED machine
            ELSE /\ reasoning' = Stored(Len(items) + 1, sealed, 0)
                 /\ Yields(<<>>)
                 /\ UNCHANGED <<summaryStreamed, thinkOpen, toolIndex, toolArgs>>
  BY DEF ReasoningAdded
<1>3. /\ Extends /\ Receiving /\ style' = style
      /\ Len(items) + 1 \in DOMAIN items'
  BY <1>1, <1>2, NewItemFacts DEF Types
<1>4. CASE ToolCallsSeen
  <2>1. Fails("adapter") /\ UNCHANGED machine /\ over' # "no"
    BY <1>2, <1>4 DEF Fails
  <2>2. MachineFits'
    BY <1>1, <1>2, <1>3, <2>1, NewItemFits, MachineStays DEF machine
  <2>3. QED
    BY <1>3, <2>1, <2>2, FailFits
<1>5. CASE ~ ToolCallsSeen
  <2>1. /\ reasoning' = Stored(Len(items) + 1, sealed, 0) /\ Yields(<<>>)
        /\ UNCHANGED <<summaryStreamed, thinkOpen, toolIndex, toolArgs>>
    BY <1>2, <1>5
  <2>2. CallsSeen' /\ ThoughtsShort' /\ ThoughtsOver'
    BY <1>1, <1>2, <1>5, <2>1, NewItemFits
  <2>3. 0 \in 0 .. MaxPieces
    BY BoundsAssumption
  <2>4. ReasoningFits' /\ IndexFits'
    BY <1>1, <1>3, <2>1, <2>3, StoredFits
  <2>5. MachineFits'
    BY <2>2, <2>4 DEF MachineFits
  <2>6. Now' = Now /\ Now \in Views
    BY <1>3, <2>1, ReceivingFacts DEF Now
  <2>7. QED
    BY <1>3, <2>1, <2>5, <2>6, PathEmpty, YieldFits
<1>6. QED
  BY <1>4, <1>5

LEMMA SummaryDeltaFits ==
    ASSUME AdapterInv, NEW i \in DOMAIN items, SummaryDelta(i)
    PROVE  AdapterInv'
<1> DEFINE r == [items[i] EXCEPT !.size = @ + 1, !.partOpen = TRUE,
                   !.parts = IF items[i].partOpen THEN @ ELSE @ + 1]
           text == IF thinkOpen THEN <<<<i, items[i].size + 1>>>>
                   ELSE <<Open, <<i, items[i].size + 1>>>>
<1>1. TypeOK /\ MachineFits
  BY MachineFitsBefore DEF AdapterInv
<1>2. /\ OpenItem(i, "reasoning") /\ Receiving /\ items[i].type = "reasoning"
      /\ Room > 0 /\ items' = [items EXCEPT ![i] = r] /\ style' = style
      /\ Yields(<<ContentChunk(text)>>)
      /\ thinkOpen' = TRUE /\ summaryStreamed' = TRUE
      /\ UNCHANGED <<reasoning, toolIndex, toolArgs>>
  BY DEF SummaryDelta, OpenItem
<1>3. items[i] \in Item
  BY <1>1 DEF TypeOK
<1>4. items[i].size \in Nat /\ items[i].size + 1 <= MaxPieces
  <2>1. items[i].size \in Nat
    BY <1>3, LongerItem
  <2>2. items[i].size < MaxPieces
    BY <1>1, <1>2, RoomFacts
  <2>3. QED
    BY <2>1, <2>2, BoundsAssumption
<1>5. /\ r \in Item /\ r.type = items[i].type /\ r.done = items[i].done
      /\ r.size = items[i].size + 1
  <2>1. items[i].size + 1 \in Nat /\ items[i].parts \in Nat /\ items[i].parts + 1 \in Nat
    BY <1>3, <1>4 DEF Item
  <2>2. QED
    BY <1>3, <2>1 DEF Item
<1> HIDE DEF r
<1>6. Extends /\ items'[i] = r /\ DOMAIN items' = DOMAIN items
  BY <1>1, <1>2, <1>5, ChangeFacts
<1>7. CallsSeen' /\ ThoughtsShort' /\ ThoughtsOver'
  BY <1>1, <1>2, <1>4, <1>5, ChangeFits
<1>8. MachineFits'
  <2>1. ReasoningFits'
    BY <1>1, <1>2, <1>6 DEF MachineFits, ReasoningFits
  <2>2. IndexFits'
    BY <1>1, <1>2, <1>6 DEF MachineFits, IndexFits
  <2>3. QED
    BY <1>7, <2>1, <2>2 DEF MachineFits
<1>9. /\ Now \in Views /\ Now.stage = "body" /\ Now.think = thinkOpen
      /\ thinkOpen \in BOOLEAN /\ Now.count = 0
  BY <1>1, <1>2, ReceivingFacts, NoCallYet DEF Now, TypeOK
<1>10. /\ items' \in Seq(Item) /\ i \in DOMAIN items' /\ items'[i].type = "reasoning"
       /\ items[i].size + 1 \in Nat
  BY <1>2, <1>4, <1>5, <1>6 DEF Extends
<1>11. Reads(items', thinkOpen, text, TRUE)
  BY <1>9, <1>10, ThoughtReads
<1>12. text \in Seq(Piece)
  <2>1. <<i, items[i].size + 1>> \in Piece /\ Open \in Piece
    BY <1>10, PieceFacts, TagFacts
  <2>2. QED
    BY <2>1
<1> HIDE DEF text
<1>13. Path(items', Now, <<ContentChunk(text)>>, [Now EXCEPT !.think = TRUE])
  BY <1>9, <1>11, <1>12, ContentPath
<1>14. Now' = [Now EXCEPT !.think = TRUE]
  BY <1>2, NowAfter
<1>15. QED
  BY <1>2, <1>6, <1>8, <1>13, <1>14, YieldFits

LEMMA SummaryDoneFits ==
    ASSUME AdapterInv, NEW i \in DOMAIN items, SummaryDone(i)
    PROVE  AdapterInv'
<1> DEFINE text == <<Open, <<i, items[i].size + 1>>, Close>>
<1>1. TypeOK /\ MachineFits
  BY MachineFitsBefore DEF AdapterInv
<1>2. /\ OpenItem(i, "reasoning") /\ Receiving /\ items[i].type = "reasoning"
      /\ IF ~ summaryStreamed
         THEN Yields(<<ContentChunk(text)>>) /\ UNCHANGED thinkOpen
         ELSE Yields(CloseThink) /\ thinkOpen' = FALSE
      /\ UNCHANGED <<reasoning, summaryStreamed, toolIndex, toolArgs>>
  BY DEF SummaryDone, OpenItem
<1>3. items[i] \in Item /\ items[i].size \in Nat /\ items[i].size <= MaxPieces
  <2>1. items[i] \in Item
    BY <1>1 DEF TypeOK
  <2>2. QED
    BY <1>1, <1>2, <2>1, LongerItem DEF MachineFits, ThoughtsShort
<1>4. PICK r \in Item :
         /\ r.type = items[i].type /\ r.done = items[i].done /\ r.size <= MaxPieces
         /\ items' = [items EXCEPT ![i] = r] /\ style' = style
  <2>1. CASE items' = [items EXCEPT ![i].partOpen = FALSE] /\ UNCHANGED style
    <3> DEFINE q == [items[i] EXCEPT !.partOpen = FALSE]
    <3>1. q \in Item /\ q.type = items[i].type /\ q.done = items[i].done /\ q.size = items[i].size
      BY <1>3 DEF Item
    <3>2. items' = [items EXCEPT ![i] = q] /\ style' = style
      BY <2>1
    <3> HIDE DEF q
    <3>3. QED
      BY <1>3, <3>1, <3>2
  <2>2. CASE Grow(i)
    <3> DEFINE q == [items[i] EXCEPT !.size = @ + 1]
    <3>1. /\ q \in Item /\ q.type = items[i].type /\ q.done = items[i].done
          /\ q.size = items[i].size + 1 /\ items[i].size + 1 <= MaxPieces
          /\ items' = [items EXCEPT ![i] = q] /\ style' = style
      BY <1>1, <2>2, GrowFacts
    <3> HIDE DEF q
    <3>2. QED
      BY <3>1
  <2>3. QED
    BY <2>1, <2>2 DEF SummaryDone
<1>5. Extends /\ items'[i] = r /\ DOMAIN items' = DOMAIN items
  BY <1>1, <1>4, ChangeFacts
<1>6. CallsSeen' /\ ThoughtsShort' /\ ThoughtsOver'
  BY <1>1, <1>2, <1>4, ChangeFits
<1>7. thinkOpen \in BOOLEAN /\ (thinkOpen => summaryStreamed)
  BY <1>1 DEF MachineFits, ReasoningFits, IndexFits
<1>8. thinkOpen' \in BOOLEAN /\ (thinkOpen' => summaryStreamed')
  BY <1>2, <1>7
<1>9. MachineFits'
  <2>1. ReasoningFits'
    BY <1>1, <1>2, <1>5, <1>8 DEF MachineFits, ReasoningFits
  <2>2. IndexFits'
    BY <1>1, <1>2, <1>5, <1>8 DEF MachineFits, IndexFits
  <2>3. QED
    BY <1>6, <2>1, <2>2 DEF MachineFits
<1>10. Now \in Views /\ Now.stage = "body" /\ Now.think = thinkOpen /\ Now.count = 0
  BY <1>2, ReceivingFacts, NoCallYet DEF Now
<1>11. /\ items' \in Seq(Item) /\ i \in DOMAIN items' /\ items'[i].type = "reasoning"
       /\ items[i].size + 1 \in Nat
  BY <1>2, <1>3, <1>4, <1>5 DEF Extends
<1>12. Now' = [Now EXCEPT !.think = thinkOpen']
  BY <1>2, NowAfter
<1>13. CASE ~ summaryStreamed
  <2>1. Reads(items', Now.think, text, FALSE)
    BY <1>7, <1>10, <1>11, ThoughtReads
  <2>2. text \in Seq(Piece)
    <3>1. <<i, items[i].size + 1>> \in Piece /\ Open \in Piece /\ Close \in Piece
      BY <1>11, PieceFacts, TagFacts
    <3>2. QED
      BY <3>1
  <2> HIDE DEF text
  <2>3. Path(items', Now, <<ContentChunk(text)>>, [Now EXCEPT !.think = FALSE])
    BY <1>10, <2>1, <2>2, ContentPath
  <2>4. Now' = [Now EXCEPT !.think = FALSE]
    BY <1>2, <1>7, <1>12, <1>13
  <2>5. QED
    BY <1>2, <1>4, <1>5, <1>9, <1>13, <2>3, <2>4, YieldFits
<1>14. CASE summaryStreamed
  <2>1. Path(items', Now, CloseThink, [Now EXCEPT !.think = FALSE])
    BY <1>2, <1>11, CloseThinkPath
  <2>2. Now' = [Now EXCEPT !.think = FALSE]
    BY <1>2, <1>12, <1>14
  <2>3. QED
    BY <1>2, <1>4, <1>5, <1>9, <1>14, <2>1, <2>2, YieldFits
<1>15. QED
  BY <1>7, <1>13, <1>14 DEF MachineFits

LEMMA ReasoningDoneFits ==
    ASSUME AdapterInv, NEW i \in DOMAIN items, ReasoningDone(i)
    PROVE  AdapterInv'
<1>1. TypeOK /\ MachineFits
  BY MachineFitsBefore DEF AdapterInv
<1>2. PICK sealed \in BOOLEAN, size \in IF style = "item" THEN 0 .. Room ELSE {items[i].size} :
         /\ OpenItem(i, "reasoning")
         /\ items' = [items EXCEPT ![i].done = TRUE, ![i].sealed = @ \/ sealed,
                                   ![i].size = size]
         /\ UNCHANGED style
         /\ IF ToolCallsSeen
            THEN Fails("adapter") /\ UNCHANGED machine
            ELSE /\ reasoning' = Stored(i, sealed, size)
                 /\ Yields(IF summaryStreamed \/ size = 0 THEN <<>>
                           ELSE <<ContentChunk(<<Open>> \o Text(i, size) \o <<Close>>)>>)
                 /\ UNCHANGED <<summaryStreamed, thinkOpen, toolIndex, toolArgs>>
  BY DEF ReasoningDone
<1>3. items[i] \in Item /\ items[i].size \in Nat
  <2>1. items[i] \in Item
    BY <1>1 DEF TypeOK
  <2>2. QED
    BY <2>1, LongerItem
<1>4. size \in Nat /\ size \in 0 .. MaxPieces
  <2>1. Room \in Int /\ Room <= MaxPieces
    BY <1>1, RoomFacts
  <2>2. items[i].size <= MaxPieces
    BY <1>1, <1>2 DEF OpenItem, MachineFits, ThoughtsShort
  <2>3. QED
    BY <1>2, <1>3, <2>1, <2>2, BoundsAssumption
<1>5. ~ ToolCallsSeen /\ Now.count = 0 /\ Receiving /\ items[i].type = "reasoning"
  BY <1>2, NoCallYet DEF OpenItem
<1>6. /\ reasoning' = Stored(i, sealed, size)
      /\ Yields(IF summaryStreamed \/ size = 0 THEN <<>>
                ELSE <<ContentChunk(<<Open>> \o Text(i, size) \o <<Close>>)>>)
      /\ UNCHANGED <<summaryStreamed, thinkOpen, toolIndex, toolArgs>>
  BY <1>2, <1>5
<1> DEFINE r == [items[i] EXCEPT !.done = TRUE, !.sealed = @ \/ sealed, !.size = size]
<1>7. r \in Item /\ r.type = items[i].type /\ r.done /\ r.size = size
  BY <1>3, <1>4 DEF Item
<1>8. items' = [items EXCEPT ![i] = r] /\ style' = style
  BY <1>2
<1> HIDE DEF r
<1>9. Extends /\ items'[i] = r /\ DOMAIN items' = DOMAIN items
  BY <1>1, <1>7, <1>8, ChangeFacts
<1>10. CallsSeen' /\ ThoughtsShort' /\ ThoughtsOver'
  <2>1. r.size <= MaxPieces /\ toolIndex' = toolIndex
    BY <1>4, <1>6, <1>7
  <2>2. QED
    BY <1>1, <1>5, <1>7, <1>8, <2>1, ChangeFits
<1>11. ReasoningFits' /\ IndexFits'
  BY <1>1, <1>4, <1>6, <1>9, StoredFits
<1>12. MachineFits'
  BY <1>10, <1>11 DEF MachineFits
<1>13. Now \in Views /\ Now.stage = "body" /\ Now.think = thinkOpen /\ Now' = Now
  BY <1>5, <1>6, ReceivingFacts DEF Now
<1>14. items' \in Seq(Item) /\ i \in DOMAIN items' /\ items'[i].type = "reasoning"
  BY <1>5, <1>7, <1>9 DEF Extends
<1>15. CASE summaryStreamed \/ size = 0
  <2>1. Yields(<<>>)
    BY <1>6, <1>15
  <2>2. QED
    BY <1>5, <1>8, <1>9, <1>12, <1>13, <2>1, PathEmpty, YieldFits
<1>16. CASE ~ (summaryStreamed \/ size = 0)
  <2> DEFINE text == <<Open>> \o Text(i, size) \o <<Close>>
  <2>1. thinkOpen = FALSE
    BY <1>1, <1>16 DEF MachineFits, ReasoningFits, IndexFits
  <2>2. text \in Seq(Piece) /\ Reads(items', FALSE, text, FALSE)
    BY <1>4, <1>14, SummaryReads
  <2>3. Yields(<<ContentChunk(text)>>)
    BY <1>6, <1>16
  <2> HIDE DEF text
  <2>4. Path(items', Now, <<ContentChunk(text)>>, [Now EXCEPT !.think = FALSE])
    BY <1>5, <1>13, <2>1, <2>2, ContentPath
  <2>5. [Now EXCEPT !.think = FALSE] = Now
    BY <1>13, <2>1 DEF Views
  <2>6. QED
    BY <1>5, <1>8, <1>9, <1>12, <1>13, <2>3, <2>4, <2>5, YieldFits
<1>17. QED
  BY <1>15, <1>16
-----------------------------------------------------------------------------
(* Messages *)

LEMMA TextDeltaFits ==
    ASSUME AdapterInv, NEW i \in DOMAIN items, TextDelta(i)
    PROVE  AdapterInv'
<1> DEFINE closed == [Now EXCEPT !.think = FALSE]
<1>1. TypeOK /\ MachineFits
  BY MachineFitsBefore DEF AdapterInv
<1>2. /\ Receiving /\ items[i].type = "message" /\ thinkOpen' = FALSE
      /\ UNCHANGED <<reasoning, summaryStreamed, toolIndex, toolArgs>>
  BY DEF TextDelta, OpenItem
<1>3. Now \in Views /\ Now.stage = "body" /\ Now' = closed
  BY <1>2, ReceivingFacts, NowAfter
<1>4. closed \in Views /\ closed.stage = "body" /\ ~ closed.think
      /\ closed = [closed EXCEPT !.think = FALSE]
  BY <1>3 DEF Views
<1>5. items[i] \in Item
  BY <1>1 DEF TypeOK
<1>6. Extends => ReasoningFits' /\ IndexFits'
  <2>1. Extends => DOMAIN items \subseteq DOMAIN items'
    BY <1>1 DEF Extends, TypeOK
  <2>2. Extends => ReasoningFits'
    BY <1>1, <1>2, <2>1 DEF MachineFits, ReasoningFits
  <2>3. Extends => IndexFits'
    BY <1>1, <1>2, <2>1 DEF MachineFits, IndexFits
  <2>4. QED
    BY <2>2, <2>3
<1>7. CASE /\ Grow(i)
           /\ Yields(CloseThink \o <<ContentChunk(<<<<i, items[i].size + 1>>>>)>>)
  <2> DEFINE r    == [items[i] EXCEPT !.size = @ + 1]
             text == <<<<i, items[i].size + 1>>>>
  <2>1. /\ r \in Item /\ r.type = items[i].type /\ r.done = items[i].done
        /\ items' = [items EXCEPT ![i] = r] /\ style' = style
        /\ items[i].size + 1 \in Nat
    BY <1>1, <1>7, GrowFacts
  <2> HIDE DEF r
  <2>2. Extends /\ items'[i] = r /\ DOMAIN items' = DOMAIN items
    BY <1>1, <2>1, ChangeFacts
  <2>3. CallsSeen' /\ ThoughtsShort' /\ ThoughtsOver'
    BY <1>1, <1>2, <2>1, ChangeFits
  <2>4. MachineFits'
    BY <1>6, <2>2, <2>3 DEF MachineFits
  <2>5. items' \in Seq(Item) /\ i \in DOMAIN items' /\ items'[i].type = "message"
    BY <1>2, <2>1, <2>2 DEF Extends
  <2>6. text \in Seq(Piece) /\ Reads(items', FALSE, text, FALSE)
    <3>1. <<i, items[i].size + 1>> \in Piece
      BY <2>1, <2>5, PieceFacts
    <3>2. Reads(items', FALSE, text, FALSE)
      BY <2>1, <2>5, AnswerReads
    <3>3. text \in Seq(Piece)
      BY <3>1
    <3> HIDE DEF text
    <3>4. QED
      BY <3>2, <3>3
  <2> HIDE DEF text
  <2> HIDE DEF closed
  <2>7. Path(items', closed, <<ContentChunk(text)>>, closed)
    <3>1. closed.think = FALSE
      BY <1>4 DEF Views
    <3>2. Path(items', closed, <<ContentChunk(text)>>, [closed EXCEPT !.think = FALSE])
      BY <1>4, <2>6, <3>1, ContentPath
    <3>3. QED
      BY <1>4, <3>2
  <2>8. Path(items', Now, CloseThink, closed)
    BY <1>2, <2>5, CloseThinkPath DEF closed
  <2>9. Path(items', Now, CloseThink \o <<ContentChunk(text)>>, closed)
    BY <2>7, <2>8, PathConcat
  <2>10. Yields(CloseThink \o <<ContentChunk(text)>>)
    BY <1>7 DEF text
  <2>11. QED
    BY <1>2, <1>3, <2>1, <2>2, <2>4, <2>9, <2>10, YieldFits
<1>8. CASE thinkOpen /\ UNCHANGED upstream /\ Yields(CloseThink)
  <2>1. items' = items /\ style' = style
    BY <1>8 DEF upstream
  <2>2. Extends /\ items' \in Seq(Item)
    BY <1>1, <2>1 DEF Extends, TypeOK
  <2>3. CallsSeen' /\ ThoughtsShort' /\ ThoughtsOver'
    BY <1>1, <1>2, <1>8, <2>1 DEF MachineFits, CallsSeen, ThoughtsShort, ThoughtsOver,
       ToolCallsSeen, Yields
  <2>4. MachineFits'
    BY <1>6, <2>2, <2>3 DEF MachineFits
  <2>5. Path(items', Now, CloseThink, closed)
    BY <1>2, <2>2, CloseThinkPath
  <2>6. QED
    BY <1>2, <1>3, <1>8, <2>1, <2>2, <2>4, <2>5, YieldFits
<1>9. QED
  BY <1>7, <1>8 DEF TextDelta

-----------------------------------------------------------------------------
(* Function calls *)

\* What of the arguments was not sent yet.
LEMMA SuffixPath ==
    ASSUME NEW its, NEW v \in Views, v.stage = "body", NEW i,
           IndexOf(i) \in Nat, IndexOf(i) < v.count,
           NEW sent \in Seq(Piece), NEW full \in Seq(Piece), IsPrefix(sent, full)
    PROVE  Path(its, v, Suffix(i, sent, full), v)
<1>1. CASE sent = full
  BY <1>1, PathEmpty DEF Suffix
<1>2. CASE sent # full
  <2> DEFINE rest == SubSeq(full, Len(sent) + 1, Len(full))
  <2>1. Len(sent) \in Nat /\ Len(full) \in Nat /\ Len(sent) <= Len(full)
    BY DEF IsPrefix
  <2>2. Len(sent) # Len(full)
    <3>1. SubSeq(sent, 1, Len(sent)) = sent /\ SubSeq(full, 1, Len(full)) = full
      BY SubSeqFull
    <3>2. QED
      BY <1>2, <3>1 DEF IsPrefix
  <2>3. \A k \in Len(sent) + 1 .. Len(full) : full[k] \in Piece
    BY <2>1
  <2>4. /\ rest \in Seq(Piece)
        /\ Len(rest) = IF Len(sent) + 1 <= Len(full)
                       THEN Len(full) - (Len(sent) + 1) + 1 ELSE 0
    BY <2>1, <2>3, SubSeqProperties
  <2> HIDE DEF rest
  <2>5. rest # <<>>
    BY <2>1, <2>2, <2>4
  <2>6. Suffix(i, sent, full) = <<ArgsChunk(i, rest)>>
    BY <1>2 DEF Suffix, rest
  <2>7. ArgsLeads(v, ArgsChunk(i, rest).index, ArgsChunk(i, rest).text, v)
    BY <2>4, <2>5, ArgsType DEF ArgsLeads
  <2>8. QED
    BY <2>4, <2>6, <2>7, ArgsType, ArgsPath, SMTT(60)
<1>3. QED
  BY <1>1, <1>2

LEMMA SentType ==
    ASSUME MachineFits, NEW i
    PROVE  Sent(i) \in Seq(Piece)
BY DEF MachineFits, IndexFits, Sent

LEMMA CarriedType ==
    ASSUME TypeOK, MachineFits
    PROVE  Carried \in Capsules
<1>1. DOMAIN reasoning \in SUBSET (1 .. MaxItems)
  BY BoundsAssumption DEF MachineFits, ReasoningFits, TypeOK
<1>2. \A j \in DOMAIN reasoning : reasoning[j].size \in 0 .. MaxPieces
  BY DEF MachineFits, ReasoningFits
<1>3. Carried \in [DOMAIN reasoning -> 0 .. MaxPieces]
  BY <1>2 DEF Carried
<1>4. QED
  BY <1>1, <1>3 DEF Capsules
-----------------------------------------------------------------------------
(* Calls *)

\* A call announces itself under the next index, once, and its arguments follow.
LEMMA CallItemFits ==
    ASSUME AdapterInv, Receiving, Extends, style' = style,
           NEW i \in DOMAIN items', items'[i].type = "call",
           i \in DOMAIN toolIndex \/ i = Len(items) + 1,
           \A j \in DOMAIN items' : j \in DOMAIN items \/ j = i,
           \A j \in DOMAIN items' : items'[j].type = "reasoning" =>
                                       items'[j].done /\ items'[j].size <= MaxPieces,
           NEW full \in Seq(Piece), CallItem(i, full)
    PROVE  AdapterInv'
<1> DEFINE new == i \notin DOMAIN toolIndex
           v   == [Now EXCEPT !.think = FALSE]
           w   == IF new THEN [v EXCEPT !.count = @ + 1] ELSE v
<1>1. TypeOK /\ MachineFits
  BY MachineFitsBefore DEF AdapterInv
<1>2. /\ items \in Seq(Item) /\ items' \in Seq(Item)
      /\ Len(items') <= MaxItems /\ Len(items') \in Nat
  BY <1>1 DEF TypeOK, Extends
<1>3. i \in 1 .. MaxItems /\ i \in Nat
  BY <1>2, BoundsAssumption
<1>4. /\ toolIndex' = With(toolIndex, i, IndexOf(i)) /\ thinkOpen' = FALSE
      /\ UNCHANGED <<reasoning, summaryStreamed>>
  BY DEF CallItem
<1>5. /\ IndexOf(i) \in Nat
      /\ DOMAIN toolIndex' = DOMAIN toolIndex \cup {i}
      /\ \A k \in DOMAIN toolIndex' :
            toolIndex'[k] = Cardinality({j \in DOMAIN toolIndex' : j < k})
      /\ ~ new => Cardinality(DOMAIN toolIndex') = Cardinality(DOMAIN toolIndex)
      /\ new => /\ IndexOf(i) = Cardinality(DOMAIN toolIndex)
                /\ Cardinality(DOMAIN toolIndex') = Cardinality(DOMAIN toolIndex) + 1
  BY <1>1, <1>3, <1>4, IndexNext
<1>6. /\ Now \in Views /\ Now.stage = "body"
      /\ Now.count = Cardinality(DOMAIN toolIndex) /\ Now.count \in Nat
  BY <1>1, ReceivingFacts, IndexFacts DEF Now
<1>7. /\ v \in Views /\ v.stage = "body" /\ ~ v.think
      /\ v.count = Cardinality(DOMAIN toolIndex)
  BY <1>6 DEF Views
<1>8. w \in Views /\ w.stage = "body" /\ w.count = Cardinality(DOMAIN toolIndex')
  <2> HIDE DEF v
  <2>1. CASE new
    BY <1>5, <1>7, <2>1 DEF Views
  <2>2. CASE ~ new
    BY <1>5, <1>7, <2>2
  <2>3. QED
    BY <2>1, <2>2
<1>9. Now' = w
  <2>1. Now' = [stage |-> "body", think |-> FALSE,
                count |-> Cardinality(DOMAIN toolIndex')]
    BY <1>4 DEF Now
  <2>2. w.think = FALSE
    <3> HIDE DEF v
    <3>1. QED
      BY <1>7 DEF Views
  <2> HIDE DEF w
  <2>3. QED
    BY <1>8, <2>1, <2>2 DEF Views
<1>10. IndexOf(i) < w.count
  <2>1. CASE new
    BY <1>5, <1>6, <1>8, <2>1
  <2>2. CASE ~ new
    BY <1>1, <1>5, <1>8, <2>2, IndexFacts DEF IndexOf
  <2>3. QED
    BY <2>1, <2>2
<1>11. Sent(i) \in Seq(Piece) /\ Carried \in Capsules
  BY <1>1, SentType, CarriedType
<1>12. ASSUME NEW x \in Seq(Piece), toolArgs' = With(toolArgs, i, x)
       PROVE  IndexFits'
  <2>1. DOMAIN toolIndex' \subseteq DOMAIN items'
    BY <1>1, <1>2, <1>5 DEF MachineFits, IndexFits, Extends
  <2>2. DOMAIN toolArgs' = DOMAIN toolIndex'
    BY <1>1, <1>5, <1>12 DEF MachineFits, IndexFits, With
  <2>3. \A k \in DOMAIN toolArgs' : toolArgs'[k] \in Seq(Piece)
    BY <1>1, <1>12 DEF MachineFits, IndexFits, With
  <2>4. QED
    BY <1>4, <1>5, <2>1, <2>2, <2>3 DEF IndexFits
<1>13. ReasoningFits'
  <2>1. DOMAIN items \subseteq DOMAIN items'
    BY <1>2 DEF Extends
  <2>2. QED
    BY <1>1, <1>4, <2>1 DEF MachineFits, ReasoningFits
<1>14. CallsSeen'
  <2> SUFFICES ASSUME NEW j \in DOMAIN items', items'[j].type = "call"
               PROVE  j \in DOMAIN toolIndex'
    BY DEF CallsSeen
  <2>1. j \in DOMAIN items => j \in DOMAIN toolIndex
    BY <1>1 DEF Extends, MachineFits, CallsSeen
  <2>2. QED
    BY <1>5, <2>1
<1>15. ThoughtsShort' /\ ThoughtsOver'
  BY DEF ThoughtsShort, ThoughtsOver
<1>16. ASSUME NEW cause \in {"adapter", "upstream"}, Fails(cause),
              toolArgs' = With(toolArgs, i, Sent(i))
       PROVE  AdapterInv'
  <2>1. MachineFits'
    BY <1>11, <1>12, <1>13, <1>14, <1>15, <1>16 DEF MachineFits
  <2>2. QED
    BY <1>16, <2>1, FailFits
<1>17. CASE /\ IsPrefix(Sent(i), full)
            /\ Yields(CloseThink \o (IF new THEN <<CallChunk(i, Carried)>> ELSE <<>>)
                         \o Suffix(i, Sent(i), full))
            /\ toolArgs' = With(toolArgs, i, full)
  <2>1. MachineFits'
    BY <1>12, <1>13, <1>14, <1>15, <1>17 DEF MachineFits
  <2>2. Path(items', Now, CloseThink, v)
    BY <1>2, CloseThinkPath
  <2> HIDE DEF v
  <2>3. Path(items', v, IF new THEN <<CallChunk(i, Carried)>> ELSE <<>>, w)
    <3>1. CASE new
      <4>1. /\ CallChunk(i, Carried) \in Chunk /\ CallChunk(i, Carried).kind = "call"
            /\ CallChunk(i, Carried).index = v.count
        BY <1>3, <1>5, <1>7, <1>11, <3>1, CallType
      <4>2. Path(items', v, <<CallChunk(i, Carried)>>, [v EXCEPT !.count = @ + 1])
        BY <1>7, <4>1, CallPath
      <4>3. QED
        BY <3>1, <4>2
    <3>2. CASE ~ new
      BY <1>7, <3>2, PathEmpty
    <3>3. QED
      BY <3>1, <3>2
  <2> HIDE DEF w
  <2>4. Path(items', w, Suffix(i, Sent(i), full), w)
    BY <1>5, <1>8, <1>10, <1>11, <1>17, SuffixPath
  <2>5. Path(items', Now, CloseThink \o (IF new THEN <<CallChunk(i, Carried)>> ELSE <<>>), w)
    BY <2>2, <2>3, PathConcat
  <2>6. Path(items', Now, CloseThink \o (IF new THEN <<CallChunk(i, Carried)>> ELSE <<>>)
                             \o Suffix(i, Sent(i), full), w)
    BY <2>4, <2>5, PathConcat
  <2>7. QED
    BY <1>9, <1>17, <2>1, <2>6, YieldFits
<1>18. QED
  BY <1>16, <1>17 DEF CallItem

\* Text is what calls have for arguments.
LEMMA CallAddedFits ==
    ASSUME AdapterInv, NEW size \in Nat, NEW done \in BOOLEAN,
           NewItem("call", FALSE, size, done),
           CallItem(Len(items) + 1, Text(Len(items) + 1, size))
    PROVE  AdapterInv'
<1> DEFINE i == Len(items) + 1
<1>1. TypeOK /\ MachineFits
  BY MachineFitsBefore DEF AdapterInv
<1>2. /\ Extends /\ Receiving /\ Closed /\ style' = style
      /\ DOMAIN items' = DOMAIN items \cup {i}
      /\ \A j \in DOMAIN items : items'[j] = items[j]
      /\ items'[i].type = "call" /\ i \in 1 .. MaxItems
  BY <1>1, NewItemFacts DEF Types
<1>3. i \in Nat
  BY <1>2
<1>4. Text(i, size) \in Seq(Piece) /\ CallItem(i, Text(i, size))
  BY <1>3, TextFacts
<1> HIDE DEF i
<1>5. ASSUME NEW j \in DOMAIN items', items'[j].type = "reasoning"
      PROVE  items'[j].done /\ items'[j].size <= MaxPieces
  <2>1. j \in DOMAIN items /\ items'[j] = items[j]
    BY <1>2, <1>5
  <2>2. QED
    BY <1>1, <1>2, <1>5, <2>1 DEF Closed, MachineFits, ThoughtsShort
<1>6. i \in DOMAIN items' /\ \A j \in DOMAIN items' : j \in DOMAIN items \/ j = i
  BY <1>2
<1>7. i = Len(items) + 1
  BY DEF i
<1>8. QED
  BY <1>2, <1>4, <1>5, <1>6, <1>7, CallItemFits

\* All that a call's last event may bring is text.
LEMMA FullType ==
    ASSUME TypeOK, NEW i \in DOMAIN items, NEW full \in Full(i)
    PROVE  full \in Seq(Piece)
<1>1. items[i] \in Item /\ i \in Nat
  BY DEF TypeOK
<1>2. items[i].size \in Nat /\ Room \in Int
  BY <1>1, LongerItem, RoomFacts
<1>3. CASE full = Garbage
  BY <1>3 DEF Garbage, Piece
<1>4. ASSUME NEW n \in items[i].size .. items[i].size + Room, full = Text(i, n)
      PROVE  full \in Seq(Piece)
  <2>1. n \in Nat
    BY <1>2
  <2>2. QED
    BY <1>1, <1>4, <2>1, TextFacts
<1>5. QED
  BY <1>3, <1>4 DEF Full

\* Once a call is open, reasoning is over.
LEMMA OpenCallFacts ==
    ASSUME AdapterInv, NEW i \in DOMAIN items, OpenItem(i, "call")
    PROVE  /\ i \in DOMAIN toolIndex /\ items[i].type = "call" /\ Receiving
           /\ \A j \in DOMAIN items : items[j].type = "reasoning" =>
                                         items[j].done /\ items[j].size <= MaxPieces
<1>1. MachineFits
  BY MachineFitsBefore
<1>2. i \in DOMAIN toolIndex /\ items[i].type = "call" /\ Receiving
  BY <1>1 DEF OpenItem, MachineFits, CallsSeen
<1>3. toolIndex # Empty
  BY <1>2 DEF Empty
<1>4. over = "no"
  BY <1>2 DEF Receiving
<1>5. QED
  BY <1>1, <1>2, <1>3, <1>4 DEF MachineFits, ThoughtsOver, ThoughtsShort, ToolCallsSeen

LEMMA CallDoneFits ==
    ASSUME AdapterInv, NEW i \in DOMAIN items, CallDone(i)
    PROVE  AdapterInv'
<1>1. TypeOK
  BY DEF AdapterInv
<1>2. /\ i \in DOMAIN toolIndex /\ items[i].type = "call" /\ Receiving
      /\ \A j \in DOMAIN items : items[j].type = "reasoning" =>
                                    items[j].done /\ items[j].size <= MaxPieces
  BY OpenCallFacts DEF CallDone
<1>3. PICK full \in Full(i) :
         /\ items' = [items EXCEPT ![i].done = TRUE, ![i].size = Len(full)]
         /\ CallItem(i, full)
  BY DEF CallDone
<1>4. full \in Seq(Piece) /\ Len(full) \in Nat
  BY <1>1, FullType
<1> DEFINE r == [items[i] EXCEPT !.done = TRUE, !.size = Len(full)]
<1>5. items[i] \in Item
  BY <1>1 DEF TypeOK
<1>6. r \in Item /\ r.type = items[i].type
  BY <1>4, <1>5 DEF Item
<1>7. items' = [items EXCEPT ![i] = r]
  BY <1>3
<1> HIDE DEF r
<1>8. /\ Extends /\ items'[i] = r /\ DOMAIN items' = DOMAIN items
      /\ \A j \in DOMAIN items \ {i} : items'[j] = items[j]
  BY <1>1, <1>6, <1>7, ChangeFacts
<1>9. ASSUME NEW j \in DOMAIN items', items'[j].type = "reasoning"
      PROVE  items'[j].done /\ items'[j].size <= MaxPieces
  BY <1>2, <1>6, <1>8, <1>9
<1>10. style' = style /\ items'[i].type = "call"
  BY <1>2, <1>6, <1>8 DEF CallDone
<1>11. QED
  BY <1>2, <1>3, <1>4, <1>8, <1>9, <1>10, CallItemFits

LEMMA ArgsDeltaFits ==
    ASSUME AdapterInv, NEW i \in DOMAIN items, ArgsDelta(i)
    PROVE  AdapterInv'
<1> DEFINE text == <<<<i, items[i].size + 1>>>>
           r    == [items[i] EXCEPT !.size = @ + 1]
<1>1. TypeOK /\ MachineFits
  BY MachineFitsBefore DEF AdapterInv
<1>2. i \in DOMAIN toolIndex /\ items[i].type = "call" /\ Receiving
  BY OpenCallFacts DEF ArgsDelta
<1>3. /\ Grow(i) /\ toolArgs' = [toolArgs EXCEPT ![i] = @ \o text]
      /\ Yields(<<ArgsChunk(i, text)>>)
      /\ UNCHANGED <<reasoning, summaryStreamed, thinkOpen, toolIndex>>
  BY DEF ArgsDelta
<1>4. /\ r \in Item /\ r.type = items[i].type /\ r.done = items[i].done
      /\ items' = [items EXCEPT ![i] = r] /\ style' = style
      /\ items[i].size + 1 \in Nat
  BY <1>1, <1>3, GrowFacts
<1> HIDE DEF r
<1>5. Extends /\ DOMAIN items' = DOMAIN items
  BY <1>1, <1>4, ChangeFacts
<1>6. CallsSeen' /\ ThoughtsShort' /\ ThoughtsOver'
  BY <1>1, <1>2, <1>3, <1>4, ChangeFits
<1>7. text \in Seq(Piece) /\ text # <<>>
  <2>1. i \in Nat
    BY <1>1 DEF TypeOK
  <2>2. <<i, items[i].size + 1>> \in Piece
    BY <1>4, <2>1 DEF Piece
  <2>3. QED
    BY <2>2
<1> HIDE DEF text
<1>8. /\ DOMAIN toolArgs' = DOMAIN toolArgs /\ i \in DOMAIN toolArgs
      /\ \A k \in DOMAIN toolArgs' : toolArgs'[k] \in Seq(Piece)
  BY <1>1, <1>2, <1>3, <1>7 DEF MachineFits, IndexFits
<1>9. IndexFits' /\ ReasoningFits'
  BY <1>1, <1>3, <1>5, <1>8 DEF MachineFits, IndexFits, ReasoningFits
<1>10. MachineFits'
  BY <1>6, <1>9 DEF MachineFits
<1>11. Now \in Views /\ Now.stage = "body" /\ Now' = Now
       /\ Now.count = Cardinality(DOMAIN toolIndex)
  BY <1>2, <1>3, ReceivingFacts DEF Now
<1>12. IndexOf(i) \in Nat /\ IndexOf(i) < Now.count
  BY <1>1, <1>2, <1>11, IndexFacts DEF IndexOf
<1>13. Path(items', Now, <<ArgsChunk(i, text)>>, Now)
  BY <1>7, <1>11, <1>12, ArgsType, ArgsPath DEF ArgsLeads
<1>14. QED
  BY <1>2, <1>3, <1>4, <1>5, <1>10, <1>11, <1>13, YieldFits

LEMMA ArgsDoneFits ==
    ASSUME AdapterInv, NEW i \in DOMAIN items, ArgsDone(i)
    PROVE  AdapterInv'
<1>1. TypeOK /\ MachineFits
  BY MachineFitsBefore DEF AdapterInv
<1>2. i \in DOMAIN toolIndex /\ items[i].type = "call" /\ Receiving
  BY OpenCallFacts DEF ArgsDone
<1>3. PICK full \in Full(i) :
         /\ items' = [items EXCEPT ![i].size = Len(full)]
         /\ IF IsPrefix(Sent(i), full)
            THEN /\ Yields(Suffix(i, Sent(i), full))
                 /\ toolArgs' = [toolArgs EXCEPT ![i] = full]
            ELSE Fails("upstream") /\ UNCHANGED toolArgs
  BY DEF ArgsDone
<1>4. full \in Seq(Piece) /\ Len(full) \in Nat
  BY <1>1, FullType
<1>5. UNCHANGED <<style, reasoning, summaryStreamed, thinkOpen, toolIndex>>
  BY DEF ArgsDone
<1> DEFINE r == [items[i] EXCEPT !.size = Len(full)]
<1>6. items[i] \in Item
  BY <1>1 DEF TypeOK
<1>7. r \in Item /\ r.type = items[i].type /\ r.done = items[i].done
  BY <1>4, <1>6 DEF Item
<1>8. items' = [items EXCEPT ![i] = r]
  BY <1>3
<1> HIDE DEF r
<1>9. Extends /\ DOMAIN items' = DOMAIN items
  BY <1>1, <1>7, <1>8, ChangeFacts
<1>10. CallsSeen' /\ ThoughtsShort' /\ ThoughtsOver'
  BY <1>1, <1>2, <1>5, <1>7, <1>8, ChangeFits
<1>11. ReasoningFits'
  BY <1>1, <1>5, <1>9 DEF MachineFits, ReasoningFits
<1>12. /\ Now \in Views /\ Now.stage = "body" /\ Now' = Now
       /\ Now.count = Cardinality(DOMAIN toolIndex)
  BY <1>2, <1>5, ReceivingFacts DEF Now
<1>13. IndexOf(i) \in Nat /\ IndexOf(i) < Now.count
  BY <1>1, <1>2, <1>12, IndexFacts DEF IndexOf
<1>14. CASE IsPrefix(Sent(i), full)
  <2>1. Yields(Suffix(i, Sent(i), full)) /\ toolArgs' = [toolArgs EXCEPT ![i] = full]
    BY <1>3, <1>14
  <2>2. /\ DOMAIN toolArgs' = DOMAIN toolArgs
        /\ \A k \in DOMAIN toolArgs' : toolArgs'[k] \in Seq(Piece)
    BY <1>1, <1>4, <2>1 DEF MachineFits, IndexFits
  <2>3. IndexFits'
    BY <1>1, <1>5, <1>9, <2>2 DEF MachineFits, IndexFits
  <2>4. MachineFits'
    BY <1>10, <1>11, <2>3 DEF MachineFits
  <2>5. Path(items', Now, Suffix(i, Sent(i), full), Now)
    BY <1>1, <1>4, <1>12, <1>13, <1>14, SentType, SuffixPath
  <2>6. QED
    BY <1>2, <1>5, <1>9, <1>12, <2>1, <2>4, <2>5, YieldFits
<1>15. CASE ~ IsPrefix(Sent(i), full)
  <2>1. Fails("upstream") /\ UNCHANGED toolArgs
    BY <1>3, <1>15
  <2>2. IndexFits'
    BY <1>1, <1>5, <1>9, <2>1 DEF MachineFits, IndexFits
  <2>3. MachineFits'
    BY <1>10, <1>11, <2>2 DEF MachineFits
  <2>4. QED
    BY <1>2, <1>5, <1>9, <2>1, <2>3, FailFits
<1>16. QED
  BY <1>14, <1>15
-----------------------------------------------------------------------------
(* The end of the upstream *)

LEMMA TerminalFits ==
    ASSUME AdapterInv, NEW t \in {"completed", "incomplete"}, Terminal(t)
    PROVE  AdapterInv'
<1> DEFINE v == [Now EXCEPT !.think = FALSE]
<1>1. TypeOK /\ MachineFits
  BY MachineFitsBefore DEF AdapterInv
<1>2. PICK metered \in {<<>>, <<UsageChunk>>} :
         pending' = CloseThink \o <<FinishChunk(FinishReason(t))>> \o metered
  BY DEF Terminal
<1>3. /\ Receiving /\ over' = t /\ thinkOpen' = FALSE /\ items' = items
      /\ UNCHANGED <<style, router, client, capsule, input>>
      /\ UNCHANGED <<reasoning, summaryStreamed, toolIndex, toolArgs>>
  BY DEF Terminal, upstream
<1>4. Extends /\ items' \in Seq(Item)
  BY <1>1, <1>3 DEF Extends, TypeOK
<1>5. MachineFits'
  BY <1>1, <1>3 DEF MachineFits, ReasoningFits, IndexFits, CallsSeen, ThoughtsShort,
     ThoughtsOver
<1>6. Now \in Views /\ Now.stage = "body" /\ Now.count = Cardinality(DOMAIN toolIndex)
  BY <1>3, ReceivingFacts DEF Now
<1>7. v \in Views /\ v.stage = "body" /\ v.think = FALSE /\ v.count = Now.count
  BY <1>6 DEF Views
<1>8. Path(items', Now, CloseThink, v)
  BY <1>3, <1>4, CloseThinkPath
<1> HIDE DEF v
<1>9. FinishReason(t) \in {"stop", "length", "tool_calls"}
  BY DEF FinishReason
<1>10. PICK s \in {"finished", "metered"} :
          Path(items', v, <<FinishChunk(FinishReason(t))>> \o metered, [v EXCEPT !.stage = s])
  BY <1>7, <1>9, FinishPath
<1>11. Path(items', Now, CloseThink \o (<<FinishChunk(FinishReason(t))>> \o metered),
            [v EXCEPT !.stage = s])
  BY <1>8, <1>10, PathConcat
<1>12. CloseThink \o (<<FinishChunk(FinishReason(t))>> \o metered) = pending'
  <2>1. CloseThink \in Seq(Chunk) /\ metered \in Seq(Chunk)
    <3>1. CloseThink \in Seq(Chunk)
      BY <1>8 DEF Path
    <3>2. <<>> \in Seq(Chunk) /\ <<UsageChunk>> \in Seq(Chunk)
      BY UsageType
    <3>3. QED
      BY <3>1, <3>2
  <2>2. <<FinishChunk(FinishReason(t))>> \in Seq(Chunk)
    BY <1>9, FinishType
  <2>3. QED
    BY <1>2, <2>1, <2>2, ConcatAssociative
<1>13. [v EXCEPT !.stage = s] \in Views /\ [v EXCEPT !.stage = s].stage = s
       /\ [v EXCEPT !.stage = s].think = FALSE /\ [v EXCEPT !.stage = s].count = Now.count
  BY <1>7 DEF Views
<1>14. PICK w \in Views : /\ w = [v EXCEPT !.stage = s] /\ w.stage = s
                          /\ w.think = FALSE /\ w.count = Now.count
  BY <1>13
<1>15. Promised(w)'
  BY <1>3, <1>6, <1>14 DEF Promised, Cut
<1>16. Path(items', Now, pending', w)
  BY <1>11, <1>12, <1>14
<1>17. QED
  BY <1>3, <1>4, <1>5, <1>15, <1>16, HandlerFits

LEMMA UpstreamBreaksFits ==
    ASSUME AdapterInv, UpstreamBreaks
    PROVE  AdapterInv'
<1>1. TypeOK /\ MachineFits
  BY MachineFitsBefore DEF AdapterInv
<1>2. /\ Receiving /\ Fails("upstream") /\ items' = items /\ style' = style
      /\ UNCHANGED machine
  BY DEF UpstreamBreaks, upstream
<1>3. Extends
  BY <1>1, <1>2 DEF Extends, TypeOK
<1>4. MachineFits'
  BY <1>1, <1>2 DEF MachineFits, ReasoningFits, IndexFits, CallsSeen, ThoughtsShort,
     ThoughtsOver, machine, Fails
<1>5. QED
  BY <1>2, <1>3, <1>4, FailFits
-----------------------------------------------------------------------------
(* The client *)

\* The k-th piece of the text lies between the tags.
Within(text, k) ==
    \E o \in 1 .. k - 1 : text[o] = Open /\ \A c \in o .. k : text[c] # Close

LEMMA JoinFacts ==
    ASSUME NEW s \in Seq(Piece), NEW t \in Seq(Piece)
    PROVE  /\ s \o t \in Seq(Piece) /\ Len(s \o t) = Len(s) + Len(t)
           /\ Len(s) \in Nat /\ Len(t) \in Nat /\ DOMAIN (s \o t) = 1 .. Len(s) + Len(t)
           /\ DOMAIN s = 1 .. Len(s) /\ DOMAIN t = 1 .. Len(t)
           /\ \A k \in 1 .. Len(s) : (s \o t)[k] = s[k]
           /\ \A k \in 1 .. Len(t) : (s \o t)[Len(s) + k] = t[k]
           /\ \A k \in 1 .. Len(s) + Len(t) :
                 k \in 1 .. Len(s) \/ (k - Len(s) \in 1 .. Len(t) /\ k = Len(s) + (k - Len(s)))
BY ConcatProperties

\* The text of a chunk leaves the tag as the machine expects.
LEMMA JoinOpen ==
    ASSUME NEW its \in Seq(Item), NEW s \in Seq(Piece), NEW t \in Seq(Piece), NEW after,
           Reads(its, OpenAtEnd(s), t, after)
    PROVE  after = OpenAtEnd(s \o t)
<1> DEFINE n == Len(s)
           m == Len(t)
           st == s \o t
<1>1. /\ n \in Nat /\ m \in Nat /\ Len(st) = n + m /\ DOMAIN st = 1 .. n + m
      /\ DOMAIN s = 1 .. n /\ DOMAIN t = 1 .. m
      /\ \A k \in 1 .. n : st[k] = s[k]
      /\ \A k \in 1 .. m : st[n + k] = t[k]
      /\ \A k \in 1 .. n + m :
            k \in 1 .. n \/ (k - n \in 1 .. m /\ k = n + (k - n))
  BY JoinFacts, SMTT(60)
<1>2. /\ t # <<>> /\ after = (t[m] # Close /\ (OpenAtEnd(s) \/ t[1] = Open))
      /\ \A k \in 1 .. m : (t[k] = Open => k = 1) /\ (t[k] = Close => k = m)
  BY <1>1 DEF Reads
<1>3. m >= 1 /\ 1 \in 1 .. m /\ m \in 1 .. m
  <2>1. m # 0
    BY <1>2, EmptySeq
  <2> HIDE DEF m
  <2>2. QED
    BY <1>1, <2>1
<1> HIDE DEF n, m, st
<1>4. Open # Close
  BY DEF Open, Close
<1>5. OpenAtEnd(st) <=> \E o \in 1 .. n + m : st[o] = Open /\ \A c \in o .. n + m : st[c] # Close
  BY <1>1 DEF OpenAtEnd
<1>6. OpenAtEnd(s) <=> \E o \in 1 .. n : s[o] = Open /\ \A c \in o .. n : s[c] # Close
  BY <1>1 DEF OpenAtEnd, n
<1>7. ASSUME after PROVE OpenAtEnd(st)
  <2>1. \A k \in 1 .. m : t[k] # Close
    BY <1>2, <1>3, <1>7
  <2>2. CASE OpenAtEnd(s)
    <3>1. PICK o \in 1 .. n : s[o] = Open /\ \A c \in o .. n : s[c] # Close
      BY <1>6, <2>2
    <3>2. o \in 1 .. n + m /\ st[o] = Open
      BY <1>1, <3>1
    <3>3. ASSUME NEW c \in o .. n + m PROVE st[c] # Close
      <4>1. CASE c <= n
        <5>1. c \in 1 .. n /\ c \in o .. n
          BY <1>1, <4>1
        <5>2. QED
          BY <1>1, <3>1, <5>1
      <4>2. CASE c > n
        <5>1. c - n \in 1 .. m /\ c = n + (c - n)
          BY <1>1, <4>2
        <5>2. st[c] = t[c - n]
          BY <1>1, <5>1
        <5>3. QED
          BY <2>1, <5>1, <5>2
      <4>3. QED
        BY <1>1, <4>1, <4>2
    <3>4. QED
      BY <1>5, <3>2, <3>3
  <2>3. CASE t[1] = Open
    <3>1. n + 1 \in 1 .. n + m /\ st[n + 1] = Open
      BY <1>1, <1>3, <2>3
    <3>2. ASSUME NEW c \in n + 1 .. n + m PROVE st[c] # Close
      <4>1. c - n \in 1 .. m /\ c = n + (c - n)
        BY <1>1
      <4>2. st[c] = t[c - n]
        BY <1>1, <4>1
      <4>3. QED
        BY <2>1, <4>1, <4>2
    <3>3. QED
      BY <1>5, <3>1, <3>2
  <2>4. QED
    BY <1>2, <1>7, <2>2, <2>3
<1>8. ASSUME OpenAtEnd(st) PROVE after
  <2>1. PICK o \in 1 .. n + m : st[o] = Open /\ \A c \in o .. n + m : st[c] # Close
    BY <1>5, <1>8
  <2>2. n + m \in o .. n + m /\ st[n + m] = t[m]
    BY <1>1, <1>3
  <2>3. t[m] # Close
    BY <2>1, <2>2
  <2>4. CASE o \in 1 .. n
    <3>1. s[o] = Open /\ \A c \in o .. n : s[c] # Close
      <4>1. s[o] = Open
        BY <1>1, <2>1, <2>4
      <4>2. \A c \in o .. n : c \in o .. n + m /\ c \in 1 .. n
        BY <1>1, <2>4
      <4>3. QED
        BY <1>1, <2>1, <4>1, <4>2
    <3>2. QED
      BY <1>2, <1>6, <2>3, <2>4, <3>1
  <2>5. CASE o - n \in 1 .. m /\ o = n + (o - n)
    <3>1. t[o - n] = Open
      BY <1>1, <2>1, <2>5
    <3>2. QED
      BY <1>2, <2>3, <2>5, <3>1
  <2>6. QED
    BY <1>1, <2>4, <2>5
<1>9. after \in BOOLEAN /\ OpenAtEnd(st) \in BOOLEAN
  BY <1>2 DEF OpenAtEnd
<1>10. QED
  BY <1>7, <1>8, <1>9 DEF st

\* What is between the tags stays there, and a chunk puts thoughts between the
\* tags and answers outside.
LEMMA JoinWithin ==
    ASSUME NEW its \in Seq(Item), NEW s \in Seq(Piece), NEW t \in Seq(Piece), NEW after,
           Reads(its, OpenAtEnd(s), t, after)
    PROVE  /\ \A k \in 1 .. Len(s) : Within(s \o t, k) <=> Within(s, k)
           /\ \A k \in 1 .. Len(t) :
                 /\ Of(its, t[k], "reasoning") => Within(s \o t, Len(s) + k)
                 /\ Of(its, t[k], "message") => ~ Within(s \o t, Len(s) + k)
<1> DEFINE n == Len(s)
           m == Len(t)
           st == s \o t
<1>1. /\ n \in Nat /\ m \in Nat /\ Len(st) = n + m
      /\ DOMAIN s = 1 .. n /\ DOMAIN t = 1 .. m
      /\ \A k \in 1 .. n : st[k] = s[k]
      /\ \A k \in 1 .. m : st[n + k] = t[k]
      /\ \A k \in 1 .. n + m :
            k \in 1 .. n \/ (k - n \in 1 .. m /\ k = n + (k - n))
  BY JoinFacts, SMTT(60)
<1>2. \A k \in 1 .. m :
         /\ t[k] = Open => k = 1
         /\ t[k] = Close => k = m
         /\ Of(its, t[k], "reasoning") => OpenAtEnd(s) \/ t[1] = Open
         /\ Of(its, t[k], "message") => ~ OpenAtEnd(s) /\ t[1] # Open
  BY <1>1 DEF Reads
<1>3. OpenAtEnd(s) <=> \E o \in 1 .. n : s[o] = Open /\ \A c \in o .. n : s[c] # Close
  BY <1>1 DEF OpenAtEnd
<1>4. \A type : ~ Of(its, Open, type) /\ ~ Of(its, Close, type)
  BY TagFacts
<1>5. Within(s \o t, n) = Within(st, n)
  OBVIOUS
<1> HIDE DEF n, m, st
<1>6. ASSUME NEW k \in 1 .. n PROVE Within(st, k) <=> Within(s, k)
  <2>1. \A o \in 1 .. k - 1 : o \in 1 .. n /\ \A c \in o .. k : c \in 1 .. n
    BY <1>1
  <2>2. \A o \in 1 .. k - 1 : st[o] = s[o] /\ \A c \in o .. k : st[c] = s[c]
    BY <1>1, <2>1
  <2>3. QED
    BY <2>2 DEF Within
<1>7. ASSUME NEW k \in 1 .. m, Of(its, t[k], "reasoning") PROVE Within(st, n + k)
  <2>1. t[k] # Close /\ t[k] # Open
    BY <1>4, <1>7
  <2>2. ASSUME NEW c \in 1 .. k PROVE t[c] # Close
    <3>1. c \in 1 .. m /\ (c = m => c = k)
      BY <1>1
    <3>2. QED
      BY <1>2, <2>1, <3>1
  <2>3. CASE OpenAtEnd(s)
    <3>1. PICK o \in 1 .. n : s[o] = Open /\ \A c \in o .. n : s[c] # Close
      BY <1>3, <2>3
    <3>2. o \in 1 .. (n + k) - 1 /\ st[o] = Open
      BY <1>1, <3>1
    <3>3. ASSUME NEW c \in o .. n + k PROVE st[c] # Close
      <4>1. CASE c <= n
        <5>1. c \in 1 .. n /\ c \in o .. n
          BY <1>1, <4>1
        <5>2. QED
          BY <1>1, <3>1, <5>1
      <4>2. CASE c > n
        <5>1. c - n \in 1 .. k /\ c - n \in 1 .. m /\ c = n + (c - n)
          BY <1>1, <4>2
        <5>2. st[c] = t[c - n]
          BY <1>1, <5>1
        <5>3. QED
          BY <2>2, <5>1, <5>2
      <4>3. QED
        BY <1>1, <4>1, <4>2
    <3>4. QED
      BY <3>2, <3>3 DEF Within
  <2>4. CASE t[1] = Open
    <3>1. k # 1 /\ 1 \in 1 .. m
      BY <1>1, <2>1, <2>4
    <3>2. n + 1 \in 1 .. (n + k) - 1 /\ st[n + 1] = Open
      BY <1>1, <2>4, <3>1
    <3>3. ASSUME NEW c \in n + 1 .. n + k PROVE st[c] # Close
      <4>1. c - n \in 1 .. k /\ c - n \in 1 .. m /\ c = n + (c - n)
        BY <1>1
      <4>2. st[c] = t[c - n]
        BY <1>1, <4>1
      <4>3. QED
        BY <2>2, <4>1, <4>2
    <3>4. QED
      BY <3>2, <3>3 DEF Within
  <2>5. QED
    BY <1>2, <1>7, <2>3, <2>4
<1>8. ASSUME NEW k \in 1 .. m, Of(its, t[k], "message"), Within(st, n + k) PROVE FALSE
  <2>1. ~ OpenAtEnd(s) /\ t[1] # Open
    BY <1>2, <1>8
  <2>2. PICK o \in 1 .. (n + k) - 1 : st[o] = Open /\ \A c \in o .. n + k : st[c] # Close
    BY <1>8 DEF Within
  <2>3. o \in 1 .. n + m
    BY <1>1
  <2>4. CASE o \in 1 .. n
    <3>1. s[o] = Open
      BY <1>1, <2>2, <2>4
    <3>2. \A c \in o .. n : c \in o .. n + k /\ c \in 1 .. n
      BY <1>1, <2>4
    <3>3. \A c \in o .. n : s[c] # Close
      BY <1>1, <2>2, <3>2
    <3>4. QED
      BY <1>3, <2>1, <2>4, <3>1, <3>3
  <2>5. CASE o - n \in 1 .. m /\ o = n + (o - n)
    <3>1. t[o - n] = Open
      BY <1>1, <2>2, <2>5
    <3>2. QED
      BY <1>2, <2>1, <2>5, <3>1
  <2>6. QED
    BY <1>1, <2>3, <2>4, <2>5
<1>9. QED
  BY <1>6, <1>7, <1>8 DEF n, m, st
-----------------------------------------------------------------------------
(* What a chunk does to the client *)

\* What the client has, as far as it depends on nothing on its way.
ClientFits ==
    /\ role \in BOOLEAN /\ usage \in BOOLEAN /\ error \in BOOLEAN
    /\ content \in Seq(Piece) /\ finish \in {"none", "stop", "length", "tool_calls"}
    /\ CallsFit /\ ThinkSeparates /\ (usage => finish # "none")
    /\ \A k \in DOMAIN content : content[k][1] \in 0 .. Len(items)

LEMMA ClientFitsBefore ==
    ASSUME AdapterInv
    PROVE  ClientFits
BY DEF AdapterInv, TypeOK, ItemsFit, RouterFits, ClientFits

\* The tags of the content as seen by the lemmas on text.
LEMMA ThinkSeparatesAs ==
    ASSUME content \in Seq(Piece)
    PROVE  ThinkSeparates <=>
              /\ \A k \in 1 .. Len(content) :
                    /\ Of(items, content[k], "reasoning") => Within(content, k)
                    /\ Of(items, content[k], "message") => ~ Within(content, k)
              /\ calls # Empty \/ finish # "none" => ~ OpenAtEnd(content)
<1>1. DOMAIN content = 1 .. Len(content)
  OBVIOUS
<1>2. \A t : /\ IsThought(t) <=> Of(items, t, "reasoning")
             /\ IsAnswer(t) <=> Of(items, t, "message")
  BY DEF IsThought, IsAnswer, Of
<1>3. \A k : Inside(k) <=> Within(content, k)
  BY DEF Inside, Within
<1>4. QED
  BY <1>1, <1>2, <1>3 DEF ThinkSeparates

LEMMA SeenBody ==
    ASSUME Seen.stage = "body"
    PROVE  ~ usage /\ finish = "none" /\ role
BY DEF Seen, Heard

\* Content and calls that stay keep what was made of them.
LEMMA SameText ==
    ASSUME ClientFits, UNCHANGED <<items, content, calls>>,
           finish' # "none" => ~ OpenAtEnd(content)
    PROVE  /\ CallsFit' /\ ThinkSeparates' /\ content' \in Seq(Piece)
           /\ \A k \in DOMAIN content' : content'[k][1] \in 0 .. Len(items')
<1>1. CallsFit'
  BY DEF ClientFits, CallsFit
<1>2. content' \in Seq(Piece) /\ \A k \in DOMAIN content' : content'[k][1] \in 0 .. Len(items')
  BY DEF ClientFits
<1>3. ThinkSeparates'
  BY DEF ClientFits, ThinkSeparates, IsThought, IsAnswer, Inside, OpenAtEnd
<1>4. QED
  BY <1>1, <1>2, <1>3

LEMMA ReadRole ==
    ASSUME TypeOK, ClientFits, NEW c \in Chunk, NEW u \in Views, c.kind = "role",
           Leads(items, Seen, c, u), Read(c), UNCHANGED items
    PROVE  ClientFits' /\ Seen' = u
<1>1. /\ role' = TRUE /\ UNCHANGED <<content, calls, finish, usage, error>>
  BY DEF Read, ClientFits
<1>2. Seen.stage = "new" /\ u = [Seen EXCEPT !.stage = "body"]
  BY DEF Leads, RoleLeads
<1>3. ~ usage /\ finish = "none"
  BY <1>2 DEF Seen, Heard
<1>4. ClientFits'
  BY <1>1, <1>3, SameText DEF ClientFits
<1>5. Seen' = u
  BY <1>1, <1>2, <1>3 DEF Seen, Heard, OpenAtEnd
<1>6. QED
  BY <1>4, <1>5

LEMMA ReadFinish ==
    ASSUME TypeOK, ClientFits, NEW c \in Chunk, NEW u \in Views, c.kind = "finish",
           Leads(items, Seen, c, u), Read(c), UNCHANGED items
    PROVE  ClientFits' /\ Seen' = u
<1>1. /\ finish' = c.reason /\ role' = role /\ usage' = usage
      /\ UNCHANGED <<content, calls, error>>
  BY DEF Read, ClientFits
<1>2. /\ Seen.stage = "body" /\ u = [Seen EXCEPT !.stage = "finished"] /\ ~ Seen.think
      /\ c.reason \in {"stop", "length", "tool_calls"}
  BY DEF Leads, FinishLeads
<1>3. ~ usage /\ finish = "none" /\ ~ OpenAtEnd(content)
  BY <1>2, SeenBody DEF Seen
<1>4. ClientFits'
  <2>1. /\ CallsFit' /\ ThinkSeparates' /\ content' \in Seq(Piece)
        /\ \A k \in DOMAIN content' : content'[k][1] \in 0 .. Len(items')
    BY <1>1, <1>3, SameText
  <2>2. QED
    BY <1>1, <1>2, <1>3, <2>1 DEF ClientFits
<1>5. Seen' = u
  BY <1>1, <1>2, <1>3 DEF Seen, Heard, OpenAtEnd
<1>6. QED
  BY <1>4, <1>5

LEMMA ReadUsage ==
    ASSUME TypeOK, ClientFits, NEW c \in Chunk, NEW u \in Views, c.kind = "usage",
           Leads(items, Seen, c, u), Read(c), UNCHANGED items
    PROVE  ClientFits' /\ Seen' = u
<1>1. /\ usage' = TRUE /\ role' = role
      /\ UNCHANGED <<content, calls, finish, error>>
  BY DEF Read, ClientFits
<1>2. Seen.stage = "finished" /\ u = [Seen EXCEPT !.stage = "metered"]
  BY DEF Leads, UsageLeads
<1>3. finish # "none"
  BY <1>2 DEF Seen, Heard
<1>4. ~ OpenAtEnd(content)
  BY <1>3 DEF ClientFits, ThinkSeparates
<1>5. ClientFits'
  <2>1. /\ CallsFit' /\ ThinkSeparates' /\ content' \in Seq(Piece)
        /\ \A k \in DOMAIN content' : content'[k][1] \in 0 .. Len(items')
    BY <1>1, <1>4, SameText
  <2>2. QED
    BY <1>1, <1>3, <2>1 DEF ClientFits
<1>6. Seen' = u
  BY <1>1, <1>2 DEF Seen, Heard, OpenAtEnd
<1>7. QED
  BY <1>5, <1>6

LEMMA ReadContent ==
    ASSUME TypeOK, ClientFits, NEW c \in Chunk, NEW u \in Views, c.kind = "content",
           Leads(items, Seen, c, u), Read(c), UNCHANGED items
    PROVE  ClientFits' /\ Seen' = u
<1>1. /\ content' = content \o c.text /\ role' = role /\ usage' = usage
      /\ UNCHANGED <<calls, finish, error>>
  BY DEF Read, ClientFits
<1>2. /\ Seen.stage = "body" /\ Reads(items, Seen.think, c.text, u.think)
      /\ Seen.count # 0 => ~ u.think
      /\ u = [Seen EXCEPT !.think = u.think]
  BY DEF Leads, ContentLeads
<1>3. ~ usage /\ finish = "none"
  BY <1>2, SeenBody
<1>4. /\ items \in Seq(Item) /\ content \in Seq(Piece) /\ c.text \in Seq(Piece)
      /\ Seen.think = OpenAtEnd(content)
  BY DEF TypeOK, ClientFits, Chunk, Seen
<1>5. u.think = OpenAtEnd(content')
  BY <1>1, <1>2, <1>4, JoinOpen
<1>6. /\ \A k \in 1 .. Len(content) : Within(content', k) <=> Within(content, k)
      /\ \A k \in 1 .. Len(c.text) :
            /\ Of(items, c.text[k], "reasoning") => Within(content', Len(content) + k)
            /\ Of(items, c.text[k], "message") => ~ Within(content', Len(content) + k)
  BY <1>1, <1>2, <1>4, JoinWithin
<1>7. /\ content' \in Seq(Piece) /\ Len(content') = Len(content) + Len(c.text)
      /\ DOMAIN content' = 1 .. Len(content')
      /\ DOMAIN content = 1 .. Len(content) /\ DOMAIN c.text = 1 .. Len(c.text)
      /\ \A k \in 1 .. Len(content) : content'[k] = content[k]
      /\ \A k \in 1 .. Len(c.text) : content'[Len(content) + k] = c.text[k]
      /\ \A k \in 1 .. Len(content) + Len(c.text) :
            k \in 1 .. Len(content) \/
            (k - Len(content) \in 1 .. Len(c.text) /\ k = Len(content) + (k - Len(content)))
  BY <1>1, <1>4, JoinFacts
<1>8. ASSUME NEW k \in 1 .. Len(content')
      PROVE  /\ content'[k][1] \in 0 .. Len(items)
             /\ Of(items, content'[k], "reasoning") => Within(content', k)
             /\ Of(items, content'[k], "message") => ~ Within(content', k)
  <2>1. CASE k \in 1 .. Len(content)
    BY <1>4, <1>6, <1>7, <2>1, ThinkSeparatesAs DEF ClientFits
  <2>2. CASE k - Len(content) \in 1 .. Len(c.text) /\ k = Len(content) + (k - Len(content))
    <3> DEFINE j == k - Len(content)
    <3>1. j \in 1 .. Len(c.text) /\ k = Len(content) + j
      BY <2>2
    <3> HIDE DEF j
    <3>2. content'[k] = c.text[j] /\ c.text[j][1] \in 0 .. Len(items)
      BY <1>2, <1>7, <3>1 DEF Reads
    <3>3. QED
      BY <1>6, <3>1, <3>2
  <2>3. QED
    BY <1>7, <2>1, <2>2
<1>9. calls' # Empty \/ finish' # "none" => ~ OpenAtEnd(content')
  <2>1. ASSUME calls # Empty PROVE Seen.count # 0
    <3>1. /\ Cardinality(DOMAIN calls) \in Nat
          /\ DOMAIN calls = 0 .. Cardinality(DOMAIN calls) - 1
      BY DEF ClientFits, CallsFit
    <3>2. ASSUME Cardinality(DOMAIN calls) = 0 PROVE FALSE
      <4>1. DOMAIN calls = {}
        BY <3>1, <3>2
      <4>2. PICK k \in DOMAIN calls : TRUE
        BY <2>1, <4>1 DEF Empty
      <4>3. QED
        BY <4>1, <4>2
    <3>3. QED
      BY <3>2 DEF Seen
  <2>2. QED
    BY <1>1, <1>2, <1>3, <1>5, <2>1
<1>10. ThinkSeparates'
  <2>1. ASSUME NEW k \in DOMAIN content'
        PROVE  /\ IsThought(content[k])' => Inside(k)'
               /\ IsAnswer(content[k])' => ~ Inside(k)'
    <3>1. k \in 1 .. Len(content')
      BY <1>7
    <3>2. /\ IsThought(content[k])' <=> Of(items, content'[k], "reasoning")
          /\ IsAnswer(content[k])' <=> Of(items, content'[k], "message")
      BY DEF IsThought, IsAnswer, Of
    <3>3. Inside(k)' <=> Within(content', k)
      BY DEF Inside, Within
    <3>4. QED
      BY <1>8, <3>1, <3>2, <3>3
  <2>2. QED
    BY <1>9, <2>1 DEF ThinkSeparates
<1>11. ClientFits'
  BY <1>1, <1>3, <1>7, <1>8, <1>10 DEF ClientFits, CallsFit
<1>12. Seen' = u
  <2>1. Seen' = [Seen EXCEPT !.think = OpenAtEnd(content')]
    BY <1>1 DEF Seen, Heard
  <2>2. QED
    BY <1>2, <1>5, <2>1
<1>13. QED
  BY <1>11, <1>12

\* The calls the client has are numbered from 0.
LEMMA ReadCall ==
    ASSUME TypeOK, ClientFits, NEW c \in Chunk, NEW u \in Views, c.kind = "call",
           Leads(items, Seen, c, u), Read(c), UNCHANGED items
    PROVE  /\ ClientFits' /\ Seen' = u
           /\ c.index \in Nat /\ DOMAIN calls = 0 .. c.index - 1
           /\ calls' = With(calls, c.index,
                            [item |-> c.item, carries |-> c.carries, args |-> <<>>])
<1> DEFINE new == [item |-> c.item, carries |-> c.carries, args |-> <<>>]
           n   == c.index
<1>1. /\ calls' = With(calls, n, new) /\ role' = role /\ usage' = usage
      /\ UNCHANGED <<content, finish, error>>
  BY DEF Read, ClientFits
<1>2. /\ Seen.stage = "body" /\ ~ Seen.think /\ n = Seen.count
      /\ u = [Seen EXCEPT !.count = @ + 1]
  BY DEF Leads, CallLeads
<1>3. ~ usage /\ finish = "none" /\ ~ OpenAtEnd(content)
  BY <1>2, SeenBody DEF Seen
<1>4. /\ n = Cardinality(DOMAIN calls) /\ n \in Nat /\ DOMAIN calls = 0 .. n - 1
      /\ \A k \in DOMAIN calls : calls[k] \in ClientCall
  BY <1>2 DEF Seen, ClientFits, CallsFit
<1>5. new \in ClientCall
  BY DEF Chunk, ClientCall
<1> HIDE DEF new, n
<1>6. DOMAIN calls' = 0 .. n
  <2>1. (0 .. n - 1) \cup {n} = 0 .. n
    BY <1>4
  <2>2. DOMAIN calls' = DOMAIN calls \cup {n}
    BY <1>1 DEF With
  <2>3. QED
    BY <1>4, <2>1, <2>2
<1>7. \A k \in DOMAIN calls' : calls'[k] \in ClientCall
  BY <1>1, <1>4, <1>5 DEF With
<1>8. Cardinality(DOMAIN calls') = n + 1
  <2>1. 0 \in Int /\ n \in Int
    BY <1>4
  <2>2. Cardinality(0 .. n) = IF 0 > n THEN 0 ELSE n - 0 + 1
    BY <2>1, FS_Interval
  <2>3. Cardinality(0 .. n) = n + 1
    BY <1>4, <2>2
  <2>4. QED
    BY <1>6, <2>3
<1>9. CallsFit'
  <2>1. n + 1 \in Nat /\ (n + 1) - 1 = n
    BY <1>4
  <2>2. QED
    BY <1>6, <1>7, <1>8, <2>1 DEF CallsFit
<1>10. ThinkSeparates'
  BY <1>1, <1>3 DEF ClientFits, ThinkSeparates, IsThought, IsAnswer, Inside, OpenAtEnd
<1>11. ClientFits'
  BY <1>1, <1>9, <1>10 DEF ClientFits
<1>12. Seen' = u
  <2>1. Heard' = Heard /\ OpenAtEnd(content') = OpenAtEnd(content)
    BY <1>1 DEF Heard
  <2>2. Seen' = [Seen EXCEPT !.count = n + 1]
    BY <1>8, <2>1 DEF Seen
  <2>3. QED
    BY <1>2, <2>2
<1>13. QED
  BY <1>1, <1>4, <1>11, <1>12 DEF new, n

LEMMA ReadArgs ==
    ASSUME TypeOK, ClientFits, NEW c \in Chunk, NEW u \in Views, c.kind = "args",
           Leads(items, Seen, c, u), Read(c), UNCHANGED items
    PROVE  /\ ClientFits' /\ Seen' = u
           /\ c.index \in DOMAIN calls /\ DOMAIN calls' = DOMAIN calls
           /\ \A k \in DOMAIN calls \ {c.index} : calls'[k] = calls[k]
           /\ calls'[c.index].args = calls[c.index].args \o c.text
           /\ calls[c.index].args \in Seq(Piece) /\ c.text \in Seq(Piece) /\ c.text # <<>>
<1> DEFINE n == c.index
<1>1. /\ calls' = [calls EXCEPT ![n].args = @ \o c.text] /\ role' = role /\ usage' = usage
      /\ UNCHANGED <<content, finish, error>>
  BY DEF Read, ClientFits
<1>2. Seen.stage = "body" /\ n < Seen.count /\ c.text # <<>> /\ u = Seen
  BY DEF Leads, ArgsLeads
<1>3. ~ usage /\ finish = "none"
  BY <1>2, SeenBody
<1>4. /\ n \in DOMAIN calls /\ calls[n] \in ClientCall
      /\ \A k \in DOMAIN calls : calls[k] \in ClientCall
  <2>1. /\ Seen.count = Cardinality(DOMAIN calls) /\ Cardinality(DOMAIN calls) \in Nat
        /\ DOMAIN calls = 0 .. Cardinality(DOMAIN calls) - 1
        /\ \A k \in DOMAIN calls : calls[k] \in ClientCall
    BY DEF Seen, ClientFits, CallsFit
  <2>2. n \in Nat
    BY DEF Chunk
  <2>3. QED
    BY <1>2, <2>1, <2>2
<1>5. c.text \in Seq(Piece) /\ calls[n].args \in Seq(Piece)
  BY <1>4 DEF Chunk, ClientCall
<1> DEFINE new == [calls[n] EXCEPT !.args = @ \o c.text]
<1>6. calls[n].args \o c.text \in Seq(Piece)
  BY <1>5
<1>7. new \in ClientCall /\ new.args = calls[n].args \o c.text
  BY <1>4, <1>6 DEF ClientCall
<1>8. calls' = [calls EXCEPT ![n] = new]
  BY <1>1
<1> HIDE DEF new, n
<1>9. /\ DOMAIN calls' = DOMAIN calls /\ calls'[n] = new
      /\ \A k \in DOMAIN calls \ {n} : calls'[k] = calls[k]
  BY <1>4, <1>8
<1>10. CallsFit'
  BY <1>4, <1>7, <1>9 DEF ClientFits, CallsFit
<1>11. calls # Empty
  BY <1>4 DEF Empty
<1>12. ThinkSeparates'
  BY <1>1, <1>11 DEF ClientFits, ThinkSeparates, IsThought, IsAnswer, Inside, OpenAtEnd
<1>13. ClientFits'
  BY <1>1, <1>10, <1>12 DEF ClientFits
<1>14. Seen' = u
  BY <1>1, <1>2, <1>9 DEF Seen, Heard, OpenAtEnd
<1>15. QED
  BY <1>2, <1>4, <1>5, <1>7, <1>9, <1>13, <1>14 DEF n
-----------------------------------------------------------------------------
(* The router *)

\* One chunk takes the client one step along the path.
LEMMA ForwardRead ==
    ASSUME AdapterInv, Forward
    PROVE  \E u \in Views :
              /\ Head(pending) \in Chunk /\ Leads(items, Seen, Head(pending), u)
              /\ Read(Head(pending)) /\ UNCHANGED items
              /\ ClientFits' /\ Seen' = u /\ PendingFits' /\ Tail(pending) \in Seq(Chunk)
<1> DEFINE c == Head(pending)
<1>1. TypeOK /\ ClientFits /\ router = "forwarding" /\ pending # <<>> /\ c.kind # "failure"
  BY ClientFitsBefore DEF AdapterInv, Forward
<1>2. /\ Read(c) /\ pending' = Tail(pending) /\ UNCHANGED <<provider, router, input>>
  BY DEF Forward
<1>3. UNCHANGED items
  BY <1>2 DEF provider, upstream
<1>4. c \in Chunk /\ Tail(pending) \in Seq(Chunk)
  BY <1>1, HeadTailProperties DEF TypeOK
<1>5. PICK v \in Views : Path(items, Seen, pending, v) /\ Promised(v)
  BY <1>1 DEF AdapterInv, PendingFits
<1>6. PICK u \in Views : Leads(items, Seen, c, u) /\ Path(items, u, Tail(pending), v)
  BY <1>1, <1>5, PathHead
<1> HIDE DEF c
<1>7. c.kind \in {"role", "content", "call", "args", "finish", "usage"}
  BY <1>1, <1>4 DEF Chunk
<1>8. ClientFits' /\ Seen' = u
  <2>1. CASE c.kind = "role"
    BY <1>1, <1>2, <1>3, <1>4, <1>6, <2>1, ReadRole
  <2>2. CASE c.kind = "content"
    BY <1>1, <1>2, <1>3, <1>4, <1>6, <2>2, ReadContent
  <2>3. CASE c.kind = "call"
    BY <1>1, <1>2, <1>3, <1>4, <1>6, <2>3, ReadCall
  <2>4. CASE c.kind = "args"
    BY <1>1, <1>2, <1>3, <1>4, <1>6, <2>4, ReadArgs
  <2>5. CASE c.kind = "finish"
    BY <1>1, <1>2, <1>3, <1>4, <1>6, <2>5, ReadFinish
  <2>6. CASE c.kind = "usage"
    BY <1>1, <1>2, <1>3, <1>4, <1>6, <2>6, ReadUsage
  <2>7. QED
    BY <1>7, <2>1, <2>2, <2>3, <2>4, <2>5, <2>6
<1>9. PendingFits'
  <2>1. Path(items', Seen', pending', v)
    BY <1>2, <1>3, <1>6, <1>8
  <2>2. Promised(v)'
    BY <1>2, <1>5 DEF Promised, Cut, provider, machine
  <2>3. QED
    BY <2>1, <2>2 DEF PendingFits
<1>10. QED
  BY <1>2, <1>3, <1>4, <1>6, <1>8, <1>9 DEF c

LEMMA ForwardFits ==
    ASSUME AdapterInv, Forward
    PROVE  AdapterInv'
<1>1. ClientFits' /\ PendingFits' /\ Tail(pending) \in Seq(Chunk)
  BY ForwardRead
<1>2. /\ UNCHANGED <<capsule, style, items, over, reasoning, summaryStreamed, thinkOpen,
                     toolIndex, toolArgs, router, input>>
      /\ router = "forwarding" /\ pending' = Tail(pending) /\ error' = error
  BY DEF Forward, provider, upstream, machine, Read
<1>3. TypeOK'
  BY <1>1, <1>2 DEF AdapterInv, TypeOK, ClientFits
<1>4. ItemsFit'
  BY <1>1, <1>2 DEF AdapterInv, ItemsFit, ClientFits, ToolCallsSeen
<1>5. RouterFits' /\ VerdictBeforeDone'
  BY <1>1, <1>2 DEF AdapterInv, RouterFits, VerdictBeforeDone, ClientFits
<1>6. QED
  BY <1>1, <1>3, <1>4, <1>5 DEF AdapterInv, ClientFits

\* Steps that leave provider and text as they are keep what is said of them.
LEMMA RouterSteps ==
    ASSUME AdapterInv, UNCHANGED <<provider, role, content, calls, finish, usage>>,
           router' \in {"failed", "done", "dropped"},
           pending' \in Seq(Chunk), error' \in BOOLEAN,
           RouterFits', VerdictBeforeDone'
    PROVE  AdapterInv'
<1>1. UNCHANGED <<capsule, style, items, over, reasoning, summaryStreamed, thinkOpen,
                  toolIndex, toolArgs>>
  BY DEF provider, upstream, machine
<1>2. TypeOK'
  BY <1>1 DEF AdapterInv, TypeOK
<1>3. ItemsFit' /\ CallsFit'
  BY <1>1 DEF AdapterInv, ItemsFit, ToolCallsSeen, CallsFit
<1>4. ThinkSeparates'
  BY <1>1 DEF AdapterInv, ThinkSeparates, IsThought, IsAnswer, Inside, OpenAtEnd
<1>5. PendingFits'
  BY DEF PendingFits
<1>6. QED
  BY <1>2, <1>3, <1>4, <1>5 DEF AdapterInv

LEMMA ForwardErrorFits ==
    ASSUME AdapterInv, ForwardError
    PROVE  AdapterInv'
<1>1. /\ router = "forwarding" /\ pending # <<>> /\ Head(pending).kind = "failure"
      /\ router' = "failed" /\ pending' = <<>> /\ error' = TRUE
      /\ UNCHANGED <<provider, role, content, calls, finish, usage, input>>
  BY DEF ForwardError
<1>2. PICK v \in Views : Path(items, Seen, pending, v) /\ Promised(v)
  BY <1>1 DEF AdapterInv, PendingFits
<1>3. PICK u \in Views : Leads(items, Seen, Head(pending), u) /\ Path(items, u, Tail(pending), v)
  BY <1>1, <1>2, PathHead
<1>4. Seen.stage = "body" /\ u = [Seen EXCEPT !.stage = "failed"]
  BY <1>1, <1>3 DEF Leads, FailureLeads
<1>5. u.stage = "failed"
  BY <1>4 DEF Seen
<1>6. Tail(pending) = <<>>
  <2>1. SUFFICES ASSUME Tail(pending) # <<>> PROVE FALSE
    OBVIOUS
  <2>2. PICK w \in Views : Leads(items, u, Head(Tail(pending)), w)
    BY <1>3, <2>1, PathHead
  <2>3. Head(Tail(pending)) \in Chunk
    <3>1. Tail(pending) \in Seq(Chunk)
      BY <1>3 DEF Path
    <3>2. QED
      BY <2>1, <3>1, HeadTailProperties
  <2>4. QED
    BY <1>5, <2>2, <2>3 DEF Chunk, Leads, RoleLeads, ContentLeads, CallLeads, ArgsLeads,
       FinishLeads, UsageLeads, FailureLeads
<1>7. v.stage = "failed"
  BY <1>3, <1>5, <1>6, PathEnds
<1>8. over \in {"no", "completed", "incomplete", "upstream", "adapter"}
  BY DEF AdapterInv, TypeOK
<1>9. Cut
  BY <1>2, <1>7, <1>8 DEF Promised, Cut
<1>10. ~ usage /\ finish = "none"
  BY <1>4, SeenBody
<1>11. RouterFits'
  BY <1>1, <1>9, <1>10 DEF RouterFits, Cut, provider
<1>12. VerdictBeforeDone'
  BY <1>1 DEF VerdictBeforeDone
<1>13. QED
  BY <1>1, <1>11, <1>12, RouterSteps

LEMMA SendDoneFits ==
    ASSUME AdapterInv, SendDone
    PROVE  AdapterInv'
<1>1. /\ pending = <<>> /\ router' = "done"
      /\ router = "failed" \/ (router = "forwarding" /\ over # "no")
      /\ UNCHANGED <<over, pending, role, content, calls, finish, usage, error>>
      /\ UNCHANGED provider
  BY DEF SendDone, provider, client
<1>2. RouterFits'
  BY <1>1 DEF AdapterInv, RouterFits
<1>3. over \in {"no", "completed", "incomplete", "upstream", "adapter"}
  BY DEF AdapterInv, TypeOK
<1>4. VerdictBeforeDone'
  <2>1. CASE router = "failed"
    BY <1>1, <2>1 DEF AdapterInv, RouterFits, VerdictBeforeDone, Cut
  <2>2. CASE router = "forwarding" /\ over # "no"
    <3>1. PICK v \in Views : Path(items, Seen, pending, v) /\ Promised(v)
      BY <2>2 DEF AdapterInv, PendingFits
    <3>2. v = Seen
      BY <1>1, <3>1, PathEnds
    <3>3. Seen.stage # "failed"
      BY DEF Seen, Heard
    <3>4. over \in {"completed", "incomplete"}
      BY <1>3, <2>2, <3>1, <3>2, <3>3 DEF Promised, Cut
    <3>5. Seen.stage \in {"finished", "metered"}
      BY <3>1, <3>2, <3>4 DEF Promised
    <3>6. finish # "none"
      BY <3>5 DEF Seen, Heard, AdapterInv, RouterFits
    <3>7. ~ error
      BY <2>2 DEF AdapterInv, RouterFits
    <3>8. QED
      BY <1>1, <3>4, <3>6, <3>7 DEF VerdictBeforeDone
  <2>3. QED
    BY <1>1, <2>1, <2>2
<1>5. pending' \in Seq(Chunk) /\ error' \in BOOLEAN
  BY <1>1 DEF AdapterInv, TypeOK
<1>6. QED
  BY <1>1, <1>2, <1>4, <1>5, RouterSteps

LEMMA ClientDropFits ==
    ASSUME AdapterInv, ClientDrop
    PROVE  AdapterInv'
<1>1. /\ router' = "dropped"
      /\ UNCHANGED <<pending, role, content, calls, finish, usage, error>>
      /\ UNCHANGED provider
  BY DEF ClientDrop, client
<1>2. RouterFits' /\ VerdictBeforeDone'
  BY <1>1 DEF AdapterInv, RouterFits, VerdictBeforeDone
<1>3. pending' \in Seq(Chunk) /\ error' \in BOOLEAN
  BY <1>1 DEF AdapterInv, TypeOK
<1>4. QED
  BY <1>1, <1>2, <1>3, RouterSteps

\* The next turn is assembled when the stream is over.
LEMMA ContinueFits ==
    ASSUME AdapterInv, Continue
    PROVE  AdapterInv'
<1>1. /\ router = "done" /\ router' = "done"
      /\ UNCHANGED <<pending, role, content, calls, finish, usage, error>>
      /\ UNCHANGED provider
  BY DEF Continue, client
<1>2. over' = over
  BY <1>1 DEF provider
<1>3. RouterFits' /\ VerdictBeforeDone'
  BY <1>1, <1>2 DEF AdapterInv, RouterFits, VerdictBeforeDone
<1>4. pending' \in Seq(Chunk) /\ error' \in BOOLEAN
  BY <1>1 DEF AdapterInv, TypeOK
<1>5. QED
  BY <1>1, <1>3, <1>4, RouterSteps
-----------------------------------------------------------------------------
(* The invariant *)

LEMMA InitFits ==
    ASSUME Init
    PROVE  AdapterInv
<1> USE DEF Init
<1>1. Blank \in Chunk /\ pending = <<Blank>> /\ pending \in Seq(Chunk)
  BY BlankType
<1>2. DOMAIN Empty = {}
  BY DEF Empty
<1>3. TypeOK
  <2>1. DOMAIN reasoning = {} /\ DOMAIN toolIndex = {} /\ DOMAIN toolArgs = {}
    BY <1>2
  <2>2. items \in Seq(Item) /\ Len(items) <= MaxItems /\ content \in Seq(Piece)
    BY BoundsAssumption
  <2>3. router = "forwarding" /\ over = "no" /\ finish = "none"
    OBVIOUS
  <2>4. /\ summaryStreamed \in BOOLEAN /\ thinkOpen \in BOOLEAN
        /\ role \in BOOLEAN /\ usage \in BOOLEAN /\ error \in BOOLEAN
    OBVIOUS
  <2>5. capsule \in {"on", "off", "overflows"} /\ style \in Styles
    OBVIOUS
  <2> HIDE DEF Init
  <2>6. QED
    BY <1>1, <2>1, <2>2, <2>3, <2>4, <2>5 DEF TypeOK
<1>4. Cardinality({}) = 0
  BY FS_EmptySet
<1>5. ItemsFit
  BY DEF ItemsFit, ToolCallsSeen
<1>6. CallsFit
  BY <1>2, <1>4 DEF CallsFit
<1>7. RouterFits /\ VerdictBeforeDone
  BY DEF RouterFits, VerdictBeforeDone
<1>8. ~ OpenAtEnd(content)
  BY DEF OpenAtEnd
<1>9. ThinkSeparates
  BY <1>8 DEF ThinkSeparates
<1>10. Seen = [stage |-> "new", think |-> FALSE, count |-> 0]
  <2>1. Heard = "new"
    BY DEF Heard
  <2>2. Cardinality(DOMAIN calls) = 0
    BY <1>2, <1>4
  <2>3. OpenAtEnd(content) = FALSE
    BY <1>8 DEF OpenAtEnd
  <2> HIDE DEF Init
  <2>4. QED
    BY <2>1, <2>2, <2>3 DEF Seen
<1> DEFINE w == [stage |-> "body", think |-> FALSE, count |-> 0]
<1>11. Seen \in Views /\ w \in Views /\ w = [Seen EXCEPT !.stage = "body"]
  <2> HIDE DEF Init
  <2>1. Seen \in Views /\ w \in Views
    BY <1>10 DEF Views
  <2>2. w = [Seen EXCEPT !.stage = "body"]
    <3>1. Seen.think = FALSE /\ Seen.count = 0
      BY <1>10
    <3>2. w.stage = "body" /\ w.think = FALSE /\ w.count = 0
      OBVIOUS
    <3> HIDE DEF w
    <3>3. QED
      BY <2>1, <3>1, <3>2 DEF Views
  <2>3. QED
    BY <2>1, <2>2
<1>12. Blank.kind = "role"
  BY DEF Blank
<1>13. Path(items, Seen, pending, w)
  <2>1. Leads(items, Seen, Blank, w)
    BY <1>10, <1>11, <1>12 DEF Leads, RoleLeads
  <2> HIDE DEF w
  <2>2. QED
    BY <1>1, <1>11, <2>1, PathOne
<1>14. Promised(w)
  BY <1>2, <1>4 DEF Promised, Cut
<1>15. PendingFits
  <2> HIDE DEF w
  <2>1. QED
    BY <1>11, <1>13, <1>14 DEF PendingFits
<1>16. QED
  BY <1>3, <1>5, <1>6, <1>7, <1>9, <1>15 DEF AdapterInv

LEMMA NextFits ==
    ASSUME AdapterInv, Next
    PROVE  AdapterInv'
<1>1. CASE ReasoningAdded
  BY <1>1, ReasoningAddedFits
<1>2. CASE MessageAdded
  BY <1>2, MessageAddedFits
<1>3. CASE CallAdded
  <2>1. NewItem("call", FALSE, 0, FALSE) /\ CallItem(Len(items) + 1, <<>>)
    BY <1>3 DEF CallAdded
  <2>2. Text(Len(items) + 1, 0) = <<>>
    BY DEF Text
  <2>3. QED
    BY <2>1, <2>2, CallAddedFits
<1>4. CASE CallWhole
  <2>1. PICK n \in 0 .. Room : /\ NewItem("call", FALSE, n, TRUE)
                              /\ CallItem(Len(items) + 1, Text(Len(items) + 1, n))
    BY <1>4 DEF CallWhole
  <2>2. n \in Nat
    BY RoomFacts DEF AdapterInv
  <2>3. QED
    BY <2>1, <2>2, CallAddedFits
<1>5. CASE OtherItem
  BY <1>5, OtherItemFits
<1>6. ASSUME NEW i \in DOMAIN items,
             \/ SummaryDelta(i) \/ SummaryDone(i) \/ ReasoningDone(i)
             \/ TextDelta(i) \/ MessageDone(i)
             \/ ArgsDelta(i) \/ ArgsDone(i) \/ CallDone(i)
      PROVE  AdapterInv'
  BY <1>6, SummaryDeltaFits, SummaryDoneFits, ReasoningDoneFits, TextDeltaFits,
     MessageDoneFits, ArgsDeltaFits, ArgsDoneFits, CallDoneFits
<1>7. CASE Terminal("completed") \/ Terminal("incomplete")
  BY <1>7, TerminalFits
<1>8. CASE UpstreamBreaks
  BY <1>8, UpstreamBreaksFits
<1>9. CASE Forward
  BY <1>9, ForwardFits
<1>10. CASE ForwardError
  BY <1>10, ForwardErrorFits
<1>11. CASE SendDone
  BY <1>11, SendDoneFits
<1>12. CASE ClientDrop
  BY <1>12, ClientDropFits
<1>13. CASE Continue
  BY <1>13, ContinueFits
<1>14. QED
  BY <1>1, <1>2, <1>3, <1>4, <1>5, <1>6, <1>7, <1>8, <1>9, <1>10, <1>11, <1>12, <1>13 DEF Next

LEMMA StutterFits ==
    ASSUME AdapterInv, UNCHANGED vars
    PROVE  AdapterInv'
<1>1. UNCHANGED <<capsule, style, items, over, reasoning, summaryStreamed, thinkOpen,
                  toolIndex, toolArgs, pending, router, role, content, calls, finish, usage,
                  error>>
  BY DEF vars, upstream, machine, client
<1>2. TypeOK'
  BY <1>1 DEF AdapterInv, TypeOK
<1>3. ItemsFit' /\ CallsFit' /\ RouterFits' /\ VerdictBeforeDone'
  BY <1>1 DEF AdapterInv, ItemsFit, ToolCallsSeen, CallsFit, RouterFits, VerdictBeforeDone, Cut
<1>4. ThinkSeparates'
  BY <1>1 DEF AdapterInv, ThinkSeparates, IsThought, IsAnswer, Inside, OpenAtEnd
<1>5. PendingFits'
  <2>1. Seen' = Seen
    BY <1>1 DEF Seen, Heard, OpenAtEnd
  <2>2. \A v : Promised(v) => Promised(v)'
    BY <1>1 DEF Promised, Cut
  <2>3. QED
    BY <1>1, <2>1, <2>2 DEF AdapterInv, PendingFits
<1>6. QED
  BY <1>2, <1>3, <1>4, <1>5 DEF AdapterInv

LEMMA AdapterInvariant == Spec => []AdapterInv
<1>1. Init => AdapterInv
  BY InitFits
<1>2. AdapterInv /\ [Next]_vars => AdapterInv'
  BY NextFits, StutterFits
<1>3. QED
  BY <1>1, <1>2, PTL DEF Spec

\* Every variable keeps its type, and tool indices are handed out in the order
\* of the calls, whatever order the upstream's events come in.
THEOREM TypeCorrect == Spec => []TypeOK
<1>1. AdapterInv => TypeOK
  BY DEF AdapterInv
<1>2. QED
  BY <1>1, AdapterInvariant, PTL

\* A client that hides what is between the tags shows the answer and nothing
\* else, and no call or finish comes while a tag is open.
THEOREM TagsSeparate == Spec => []ThinkSeparates
<1>1. AdapterInv => ThinkSeparates
  BY DEF AdapterInv
<1>2. QED
  BY <1>1, AdapterInvariant, PTL

\* [DONE] comes after a finish or after an error, never after both and never
\* after neither, and the error tells that the upstream's part was cut.
THEOREM VerdictGiven == Spec => []VerdictBeforeDone
<1>1. AdapterInv => VerdictBeforeDone
  BY DEF AdapterInv
<1>2. QED
  BY <1>1, AdapterInvariant, PTL
-----------------------------------------------------------------------------
(* The adapter implements the chat wire *)

\* A step that leaves the client and the router leaves the wire.
LEMMA WireStutter ==
    ASSUME UNCHANGED client, Stage' = Stage
    PROVE  UNCHANGED Wire!wire
<1>1. content' = content /\ calls' = calls
  BY DEF client
<1>2. ThinkShown' = ThinkShown /\ Argued' = Argued
  BY <1>1 DEF ThinkShown, OpenAtEnd, Argued
<1>3. QED
  BY <1>1, <1>2 DEF Wire!wire

LEMMA WireInit ==
    ASSUME Init
    PROVE  Wire!Init
<1>1. Stage = "new"
  BY DEF Init, Stage, Heard
<1>2. ThinkShown = FALSE /\ Len(content) = 0
  BY DEF Init, ThinkShown, OpenAtEnd
<1>3. Argued = [i \in {} |-> 0]
  BY DEF Init, Argued, Empty
<1>4. QED
  BY <1>1, <1>2, <1>3 DEF Wire!Init

\* Nothing of what the upstream sends is seen before the router forwards it.
LEMMA WireMachine ==
    ASSUME \/ ReasoningAdded \/ MessageAdded \/ CallAdded \/ CallWhole \/ OtherItem
           \/ \E i \in DOMAIN items :
                 \/ SummaryDelta(i) \/ SummaryDone(i) \/ ReasoningDone(i)
                 \/ TextDelta(i) \/ MessageDone(i)
                 \/ ArgsDelta(i) \/ ArgsDone(i) \/ CallDone(i)
           \/ Terminal("completed") \/ Terminal("incomplete") \/ UpstreamBreaks
           \/ Continue
    PROVE  UNCHANGED Wire!wire
<1>1. \A chunks : Yields(chunks) => UNCHANGED <<router, client>>
  BY DEF Yields
<1>2. \A cause : Fails(cause) => UNCHANGED <<router, client>>
  BY DEF Fails
<1>3. \A i, full : CallItem(i, full) => UNCHANGED <<router, client>>
  BY <1>1, <1>2 DEF CallItem
<1>4. UNCHANGED <<router, client>>
  <2>1. CASE ReasoningAdded
    BY <1>1, <1>2, <2>1 DEF ReasoningAdded
  <2>2. CASE MessageAdded \/ OtherItem
    BY <1>1, <1>2, <2>2 DEF MessageAdded, OtherItem
  <2>3. CASE CallAdded \/ CallWhole
    BY <1>3, <2>3 DEF CallAdded, CallWhole
  <2>4. ASSUME NEW i \in DOMAIN items, SummaryDelta(i)
        PROVE  UNCHANGED <<router, client>>
    BY <1>1, <2>4 DEF SummaryDelta
  <2>5. ASSUME NEW i \in DOMAIN items, SummaryDone(i)
        PROVE  UNCHANGED <<router, client>>
    BY <1>1, <2>5 DEF SummaryDone
  <2>6. ASSUME NEW i \in DOMAIN items, ReasoningDone(i)
        PROVE  UNCHANGED <<router, client>>
    BY <1>1, <1>2, <2>6 DEF ReasoningDone
  <2>7. ASSUME NEW i \in DOMAIN items, TextDelta(i) \/ MessageDone(i) \/ ArgsDelta(i)
        PROVE  UNCHANGED <<router, client>>
    BY <1>1, <2>7 DEF TextDelta, MessageDone, ArgsDelta
  <2>8. ASSUME NEW i \in DOMAIN items, ArgsDone(i) \/ CallDone(i)
        PROVE  UNCHANGED <<router, client>>
    BY <1>1, <1>2, <1>3, <2>8 DEF ArgsDone, CallDone
  <2>9. CASE Terminal("completed") \/ Terminal("incomplete")
    BY <2>9 DEF Terminal
  <2>10. CASE UpstreamBreaks \/ Continue
    BY <1>2, <2>10 DEF UpstreamBreaks, Continue
  <2>11. QED
    BY <2>1, <2>2, <2>3, <2>4, <2>5, <2>6, <2>7, <2>8, <2>9, <2>10
<1>5. Stage' = Stage
  BY <1>4 DEF Stage, Heard, client
<1>6. QED
  BY <1>4, <1>5, WireStutter

\* Each chunk the router forwards is a step of the wire.
LEMMA WireForward ==
    ASSUME AdapterInv, Forward
    PROVE  Wire!Next
<1> DEFINE c == Head(pending)
<1>1. PICK u \in Views :
         /\ c \in Chunk /\ Leads(items, Seen, c, u) /\ Read(c) /\ UNCHANGED items
         /\ ClientFits' /\ Seen' = u
  BY ForwardRead
<1>2. /\ TypeOK /\ ClientFits /\ c.kind # "failure"
      /\ router = "forwarding" /\ router' = "forwarding"
  BY ClientFitsBefore DEF AdapterInv, Forward
<1> HIDE DEF c
<1>3. c.kind \in {"role", "content", "call", "args", "finish", "usage"}
  BY <1>1, <1>2 DEF Chunk
<1>4. /\ Stage = Seen.stage /\ ThinkShown = Seen.think
      /\ Stage' = u.stage /\ ThinkShown' = u.think
  BY <1>1, <1>2 DEF Stage, ThinkShown, Seen
<1>5. c.kind # "content" => content' = content
  BY <1>1 DEF Read
<1>6. c.kind \notin {"call", "args"} => Argued' = Argued
  BY <1>1 DEF Read, Argued
<1>7. CASE c.kind = "role"
  <2>1. Stage = "new" /\ u = [Seen EXCEPT !.stage = "body"]
    BY <1>1, <1>4, <1>7 DEF Leads, RoleLeads
  <2>2. Stage' = "body" /\ ThinkShown' = ThinkShown
    BY <1>4, <2>1 DEF Seen
  <2>3. QED
    BY <1>5, <1>6, <1>7, <2>1, <2>2 DEF Wire!Next, Wire!Role
<1>8. CASE c.kind = "content"
  <2>1. Stage = "body" /\ u = [Seen EXCEPT !.think = u.think]
    BY <1>1, <1>4, <1>8 DEF Leads, ContentLeads
  <2>2. Stage' = Stage /\ ThinkShown' \in BOOLEAN
    BY <1>4, <2>1 DEF Seen, ThinkShown, OpenAtEnd
  <2>3. Len(content') \in Nat /\ Len(content') >= Len(content)
    <3>1. content' = content \o c.text /\ content \in Seq(Piece) /\ c.text \in Seq(Piece)
      BY <1>1, <1>2, <1>8 DEF Read, ClientFits, Chunk
    <3>2. /\ Len(content') = Len(content) + Len(c.text)
          /\ Len(content) \in Nat /\ Len(c.text) \in Nat
      BY <3>1, JoinFacts
    <3>3. QED
      BY <3>2
  <2>4. QED
    BY <1>6, <1>8, <2>1, <2>2, <2>3 DEF Wire!Next, Wire!Content
<1>9. CASE c.kind = "call"
  <2> DEFINE n   == c.index
             new == [item |-> c.item, carries |-> c.carries, args |-> <<>>]
  <2>1. n \in Nat /\ DOMAIN calls = 0 .. n - 1 /\ calls' = With(calls, n, new)
    BY <1>1, <1>2, <1>9, ReadCall
  <2>2. Stage = "body" /\ u = [Seen EXCEPT !.count = @ + 1]
    BY <1>1, <1>4, <1>9 DEF Leads, CallLeads
  <2>3. Stage' = Stage /\ ThinkShown' = ThinkShown
    BY <1>4, <2>2 DEF Seen
  <2>4. Len(new.args) = 0
    OBVIOUS
  <2> HIDE DEF n, new
  <2>5. (0 .. n - 1) \cup {n} = 0 .. n /\ \A i \in 0 .. n : i = n \/ i \in 0 .. n - 1
    BY <2>1
  <2>6. /\ DOMAIN calls' = 0 .. n /\ calls'[n] = new
        /\ \A i \in 0 .. n - 1 : calls'[i] = calls[i]
    BY <2>1, <2>5 DEF With
  <2>7. DOMAIN Argued = 0 .. n - 1 /\ n \in DOMAIN Argued'
    BY <2>1, <2>6 DEF Argued
  <2>8. Argued' = [i \in 0 .. n |-> IF i < n THEN Argued[i] ELSE 0]
    <3>1. Argued' = [i \in 0 .. n |-> Len(calls'[i].args)]
      BY <2>6 DEF Argued
    <3>2. ASSUME NEW i \in 0 .. n
          PROVE  Len(calls'[i].args) = IF i < n THEN Argued[i] ELSE 0
      <4>1. CASE i = n
        BY <2>1, <2>4, <2>6, <4>1
      <4>2. CASE i # n
        <5>1. i \in 0 .. n - 1 /\ i < n
          BY <2>1, <4>2
        <5>2. Argued[i] = Len(calls[i].args)
          BY <2>1, <5>1 DEF Argued
        <5>3. QED
          BY <2>6, <5>1, <5>2
      <4>3. QED
        BY <4>1, <4>2
    <3>3. QED
      BY <3>1, <3>2
  <2>9. Wire!Announce
    BY <1>5, <1>9, <2>2, <2>3, <2>7, <2>8 DEF Wire!Announce
  <2>10. QED
    BY <2>9 DEF Wire!Next
<1>10. CASE c.kind = "args"
  <2> DEFINE n == c.index
  <2>1. /\ n \in DOMAIN calls /\ DOMAIN calls' = DOMAIN calls
        /\ \A k \in DOMAIN calls \ {n} : calls'[k] = calls[k]
        /\ calls'[n].args = calls[n].args \o c.text
        /\ calls[n].args \in Seq(Piece) /\ c.text \in Seq(Piece) /\ c.text # <<>>
    BY <1>1, <1>2, <1>10, ReadArgs
  <2>2. Stage = "body" /\ u = Seen
    BY <1>1, <1>4, <1>10 DEF Leads, ArgsLeads
  <2>3. Stage' = Stage /\ ThinkShown' = ThinkShown
    BY <1>4, <2>2
  <2> HIDE DEF n
  <2>4. n \in DOMAIN Argued /\ Argued[n] = Len(calls[n].args) /\ Argued'[n] = Len(calls'[n].args)
    BY <2>1 DEF Argued
  <2>5. Argued'[n] > Argued[n]
    <3>1. /\ Len(calls'[n].args) = Len(calls[n].args) + Len(c.text)
          /\ Len(calls[n].args) \in Nat /\ Len(c.text) \in Nat
      BY <2>1, JoinFacts
    <3>2. Len(c.text) # 0
      BY <2>1, EmptySeq
    <3>3. \A a, b \in Nat : b # 0 => a + b > a
      OBVIOUS
    <3>4. Len(calls'[n].args) > Len(calls[n].args)
      <4> DEFINE a == Len(calls[n].args)
                 b == Len(c.text)
      <4>1. Len(calls'[n].args) = a + b /\ a \in Nat /\ b \in Nat /\ b # 0
        BY <3>1, <3>2
      <4> HIDE DEF a, b
      <4>2. a + b > a
        BY <4>1, <3>3
      <4>3. QED
        BY <4>1, <4>2 DEF a
    <3>5. QED
      BY <2>4, <3>4
  <2>6. Argued' = [Argued EXCEPT ![n] = Argued'[n]]
    BY <2>1 DEF Argued
  <2>7. Wire!Argue(n)
    BY <1>5, <1>10, <2>2, <2>3, <2>5, <2>6 DEF Wire!Argue
  <2>8. QED
    BY <2>4, <2>7 DEF Wire!Next
<1>11. CASE c.kind = "finish"
  <2>1. Stage = "body" /\ ~ ThinkShown /\ u = [Seen EXCEPT !.stage = "finished"]
    BY <1>1, <1>4, <1>11 DEF Leads, FinishLeads
  <2>2. Stage' = "finished" /\ ThinkShown' = FALSE
    BY <1>4, <2>1 DEF Seen, ThinkShown, OpenAtEnd
  <2>3. QED
    BY <1>5, <1>6, <1>11, <2>1, <2>2 DEF Wire!Next, Wire!Finish
<1>12. CASE c.kind = "usage"
  <2>1. Stage = "finished" /\ u = [Seen EXCEPT !.stage = "metered"]
    BY <1>1, <1>4, <1>12 DEF Leads, UsageLeads
  <2>2. Stage' = "metered" /\ ThinkShown' = ThinkShown
    BY <1>4, <2>1 DEF Seen
  <2>3. QED
    BY <1>5, <1>6, <1>12, <2>1, <2>2 DEF Wire!Next, Wire!Meter
<1>13. QED
  BY <1>3, <1>7, <1>8, <1>9, <1>10, <1>11, <1>12

\* An error, the end of the stream and a disconnect are steps of the wire.
LEMMA WireLeave ==
    ASSUME AdapterInv, ForwardError \/ SendDone \/ ClientDrop
    PROVE  Wire!Next
<1>1. UNCHANGED <<content, calls>>
  BY DEF ForwardError, SendDone, ClientDrop, client
<1>2. ThinkShown' = ThinkShown /\ Len(content') = Len(content) /\ Argued' = Argued
  BY <1>1 DEF ThinkShown, OpenAtEnd, Argued
<1>3. CASE ForwardError
  <2>1. Stage \notin {"failed", "ended"} /\ Stage' = "failed"
    BY <1>3 DEF ForwardError, Stage, Heard
  <2>2. QED
    BY <1>2, <2>1 DEF Wire!Next, Wire!Error
<1>4. CASE SendDone \/ ClientDrop
  <2>1. Stage # "ended" /\ Stage' = "ended"
    BY <1>4 DEF SendDone, ClientDrop, Stage, Heard
  <2>2. QED
    BY <1>2, <2>1 DEF Wire!Next, Wire!Done
<1>5. QED
  BY <1>3, <1>4

\* The adapter keeps the protocol of a chat stream: what its client gets, chunk
\* by chunk, is a behaviour of ChatWire, as it is on the Converse lane.
THEOREM WireImplemented == Spec => WireHolds
<1>1. Init => Wire!Init
  BY WireInit
<1>2. AdapterInv /\ Next => Wire!Next \/ UNCHANGED Wire!wire
  BY WireMachine, WireForward, WireLeave DEF Next
<1>3. UNCHANGED vars => UNCHANGED Wire!wire
  <2>1. ASSUME UNCHANGED vars PROVE UNCHANGED client /\ Stage' = Stage
    BY <2>1 DEF vars, client, Stage, Heard
  <2>2. QED
    BY <2>1, WireStutter
<1>4. AdapterInv /\ [Next]_vars => [Wire!Next]_(Wire!wire)
  BY <1>2, <1>3
<1>5. QED
  BY <1>1, <1>4, AdapterInvariant, PTL DEF Spec, WireHolds, Wire!Spec
-----------------------------------------------------------------------------
(* What the client has when it has read what is on its way *)

Transcript == [content |-> content, calls |-> calls]

\* The transcript after one more chunk (the data part of Read).
Hears(t, c) ==
    [content |-> IF c.kind = "content" THEN t.content \o c.text ELSE t.content,
     calls   |-> IF c.kind = "call"
                 THEN With(t.calls, c.index,
                           [item |-> c.item, carries |-> c.carries, args |-> <<>>])
                 ELSE IF c.kind = "args"
                 THEN [t.calls EXCEPT ![c.index].args = @ \o c.text]
                 ELSE t.calls]

\* A sequence of chunks turns one transcript into another.
Turns(from, chunks, to) ==
    /\ chunks \in Seq(Chunk)
    /\ \E path : /\ path[1] = from /\ path[Len(chunks) + 1] = to
                 /\ \A k \in 1 .. Len(chunks) : path[k + 1] = Hears(path[k], chunks[k])

LEMMA TurnsEmpty ==
    ASSUME NEW t
    PROVE  Turns(t, <<>>, t)
<1> DEFINE path == [k \in 1 .. 1 |-> t]
<1>1. path[1] = t /\ path[Len(<<>>) + 1] = t /\ <<>> \in Seq(Chunk)
  OBVIOUS
<1>2. \A k \in 1 .. Len(<<>>) : path[k + 1] = Hears(path[k], <<>>[k])
  OBVIOUS
<1> HIDE DEF path
<1>3. QED
  BY <1>1, <1>2 DEF Turns

LEMMA TurnsOne ==
    ASSUME NEW t, NEW u, NEW c \in Chunk, u = Hears(t, c)
    PROVE  Turns(t, <<c>>, u)
<1> DEFINE path == [k \in 1 .. 2 |-> IF k = 1 THEN t ELSE u]
<1>1. /\ <<c>> \in Seq(Chunk) /\ Len(<<c>>) = 1
      /\ path[1] = t /\ path[Len(<<c>>) + 1] = u
  OBVIOUS
<1>2. \A k \in 1 .. Len(<<c>>) : k = 1 /\ path[k] = t /\ <<c>>[k] = c /\ path[k + 1] = u
  OBVIOUS
<1> HIDE DEF path
<1>3. QED
  BY <1>1, <1>2 DEF Turns

LEMMA TurnsConcat ==
    ASSUME NEW t, NEW u, NEW v, NEW r, NEW s, Turns(t, r, u), Turns(u, s, v)
    PROVE  Turns(t, r \o s, v)
<1>1. r \in Seq(Chunk) /\ s \in Seq(Chunk)
  BY DEF Turns
<1>2. PICK p : /\ p[1] = t /\ p[Len(r) + 1] = u
               /\ \A k \in 1 .. Len(r) : p[k + 1] = Hears(p[k], r[k])
  BY DEF Turns
<1>3. PICK q : /\ q[1] = u /\ q[Len(s) + 1] = v
               /\ \A k \in 1 .. Len(s) : q[k + 1] = Hears(q[k], s[k])
  BY DEF Turns
<1> DEFINE n == Len(r)
           m == Len(s)
           path == [k \in 1 .. n + m + 1 |-> IF k <= n + 1 THEN p[k] ELSE q[k - n]]
<1>4. n \in Nat /\ m \in Nat /\ r \o s \in Seq(Chunk) /\ Len(r \o s) = n + m
  BY <1>1, ConcatProperties
<1>5. \A k \in 1 .. n + m : (r \o s)[k] = IF k <= n THEN r[k] ELSE s[k - n]
  BY <1>1, ConcatProperties
<1> HIDE DEF n, m
<1>6. \A k \in 1 .. n + 1 : path[k] = p[k]
  BY <1>4
<1>7. \A k \in n + 1 .. n + m + 1 : path[k] = q[k - n]
  <2>1. n + 1 - n = 1
    BY <1>4
  <2>2. path[n + 1] = q[1]
    BY <1>2, <1>3, <1>4 DEF n
  <2>3. QED
    BY <1>4, <2>1, <2>2
<1> HIDE DEF path
<1>8. path[1] = t /\ path[n + m + 1] = v
  <2>1. 1 \in 1 .. n + 1 /\ n + m + 1 \in n + 1 .. n + m + 1 /\ n + m + 1 - n = m + 1
    BY <1>4
  <2>2. path[1] = t
    BY <1>2, <1>6, <2>1
  <2>3. path[n + m + 1] = q[n + m + 1 - n]
    <3>1. PICK l : l = n + m + 1
      OBVIOUS
    <3>2. l \in n + 1 .. n + m + 1
      BY <2>1, <3>1
    <3>3. path[l] = q[l - n]
      BY <1>4, <1>7, <3>2
    <3>4. l - n = n + m + 1 - n
      BY <1>4, <3>1
    <3>5. path[l] = q[n + m + 1 - n]
      BY <3>3, <3>4
    <3>6. QED
      BY <3>1, <3>5
  <2>4. q[m + 1] = v
    BY <1>3 DEF m
  <2>5. QED
    BY <2>1, <2>2, <2>3, <2>4
<1>9. ASSUME NEW k \in 1 .. n + m PROVE path[k + 1] = Hears(path[k], (r \o s)[k])
  <2>1. CASE k <= n
    <3>1. k \in 1 .. n /\ k \in 1 .. n + 1 /\ k + 1 \in 1 .. n + 1
      BY <1>4, <2>1
    <3>2. path[k] = p[k] /\ path[k + 1] = p[k + 1] /\ (r \o s)[k] = r[k]
      BY <1>5, <1>6, <2>1, <3>1
    <3>3. QED
      BY <1>2, <3>1, <3>2 DEF n
  <2>2. CASE ~ (k <= n)
    <3>1. k - n \in 1 .. m /\ k \in n + 1 .. n + m + 1 /\ k + 1 \in n + 1 .. n + m + 1
          /\ (k + 1) - n = (k - n) + 1
      BY <1>4, <2>2
    <3>2. path[k] = q[k - n] /\ path[k + 1] = q[(k - n) + 1] /\ (r \o s)[k] = s[k - n]
      BY <1>4, <1>5, <1>7, <2>2, <3>1
    <3>3. QED
      BY <1>3, <3>1, <3>2 DEF m
  <2>3. QED
    BY <2>1, <2>2
<1>10. QED
  BY <1>4, <1>8, <1>9 DEF Turns

LEMMA TurnsHead ==
    ASSUME NEW t, NEW v, NEW s, Turns(t, s, v), s # <<>>
    PROVE  Turns(Hears(t, Head(s)), Tail(s), v)
<1>1. s \in Seq(Chunk)
  BY DEF Turns
<1>2. PICK p : /\ p[1] = t /\ p[Len(s) + 1] = v
               /\ \A k \in 1 .. Len(s) : p[k + 1] = Hears(p[k], s[k])
  BY DEF Turns
<1> DEFINE n == Len(s)
           q == [k \in 1 .. n |-> p[k + 1]]
<1>3. n \in Nat \ {0} /\ Head(s) = s[1]
  BY <1>1
<1>4. Tail(s) \in Seq(Chunk) /\ Len(Tail(s)) = n - 1
  BY <1>1
<1>5. \A k \in 1 .. n - 1 : Tail(s)[k] = s[k + 1]
  BY <1>1
<1> HIDE DEF n
<1>6. \A k \in 1 .. n : q[k] = p[k + 1]
  OBVIOUS
<1> HIDE DEF q
<1>7. 1 \in 1 .. n /\ n \in 1 .. n /\ n - 1 + 1 = n /\ 1 + 1 = 2
  BY <1>3
<1>8. q[n] = v
  BY <1>2, <1>6, <1>7 DEF n
<1>9. q[1] = Hears(t, Head(s))
  <2>1. q[1] = p[1 + 1]
    BY <1>6, <1>7
  <2>2. p[1 + 1] = Hears(p[1], s[1])
    BY <1>2, <1>7 DEF n
  <2>3. QED
    BY <1>2, <1>3, <2>1, <2>2
<1>10. ASSUME NEW k \in 1 .. n - 1 PROVE q[k + 1] = Hears(q[k], Tail(s)[k])
  <2>1. k \in 1 .. n /\ k + 1 \in 1 .. n
    BY <1>3
  <2>2. p[k + 1 + 1] = Hears(p[k + 1], s[k + 1])
    BY <1>2, <2>1 DEF n
  <2>3. QED
    BY <1>5, <1>6, <2>1, <2>2
<1>11. QED
  BY <1>4, <1>7, <1>8, <1>9, <1>10 DEF Turns

LEMMA TurnsEnds ==
    ASSUME NEW t, NEW u, Turns(t, <<>>, u)
    PROVE  t = u
BY DEF Turns
-----------------------------------------------------------------------------
(* The text of the items *)

LEMMA PieceConcat == \A a, b, c \in Seq(Piece) : (a \o b) \o c = a \o (b \o c)
BY ConcatThree

TextOf(its, type) ==
    FlattenSeq([i \in DOMAIN its |-> IF its[i].type = type THEN Text(i, its[i].size) ELSE <<>>])

\* What item k adds to the text of a type.
Part(its, type, k) == IF its[k].type = type THEN Text(k, its[k].size) ELSE <<>>

Parts(its, type) == [k \in DOMAIN its |-> Part(its, type, k)]

LEMMA PartsFacts ==
    ASSUME NEW its \in Seq(Item), NEW type
    PROVE  /\ Parts(its, type) \in Seq(Seq(Piece)) /\ Len(Parts(its, type)) = Len(its)
           /\ \A k \in DOMAIN its :
                 Parts(its, type)[k] = Part(its, type, k) /\ Part(its, type, k) \in Seq(Piece)
           /\ TextOf(its, type) = FlattenSeq(Parts(its, type))
           /\ TextOf(its, type) \in Seq(Piece)
<1>1. DOMAIN its = 1 .. Len(its) /\ Len(its) \in Nat
  OBVIOUS
<1>2. ASSUME NEW k \in 1 .. Len(its) PROVE Part(its, type, k) \in Seq(Piece)
  <2>1. its[k] \in Item /\ k \in Nat
    BY <1>1
  <2>2. its[k].size \in Nat
    BY <2>1 DEF Item
  <2>3. Text(k, its[k].size) \in Seq(Piece)
    BY <2>1, <2>2, TextFacts
  <2>4. QED
    BY <2>3 DEF Part
<1>3. Parts(its, type) = [k \in 1 .. Len(its) |-> Part(its, type, k)]
  BY <1>1 DEF Parts
<1>4. Parts(its, type) \in Seq(Seq(Piece)) /\ Len(Parts(its, type)) = Len(its)
  BY <1>1, <1>2, <1>3
<1>5. TextOf(its, type) = FlattenSeq(Parts(its, type))
  BY DEF TextOf, Parts, Part
<1>6. TextOf(its, type) \in Seq(Piece)
  BY <1>4, <1>5, FlattenType
<1>7. QED
  BY <1>1, <1>2, <1>3, <1>4, <1>5, <1>6

\* Items that have the same text in them are told the same way.
LEMMA TextSame ==
    ASSUME NEW its \in Seq(Item), NEW jts \in Seq(Item), NEW type, Len(jts) = Len(its),
           \A k \in DOMAIN its : Part(jts, type, k) = Part(its, type, k)
    PROVE  TextOf(jts, type) = TextOf(its, type)
<1>1. DOMAIN its = 1 .. Len(its) /\ DOMAIN jts = DOMAIN its
  OBVIOUS
<1>2. Parts(jts, type) = Parts(its, type)
  BY <1>1 DEF Parts
<1>3. QED
  BY <1>2, PartsFacts

\* The text of the last item is the end of the text.
LEMMA TextLast ==
    ASSUME NEW its \in Seq(Item), its # <<>>, NEW type
    PROVE  \E front \in Seq(Item) :
              /\ Len(front) = Len(its) - 1
              /\ \A k \in DOMAIN front : front[k] = its[k]
              /\ TextOf(its, type) = TextOf(front, type) \o Part(its, type, Len(its))
<1>1. PICK front \in Seq(Item), it \in Item : its = Append(front, it)
  BY SequenceEmptyOrAppend
<1> DEFINE n == Len(front)
<1>2. /\ n \in Nat /\ Len(its) = n + 1 /\ DOMAIN front = 1 .. n /\ DOMAIN its = 1 .. n + 1
      /\ \A k \in 1 .. n : its[k] = front[k]
  BY <1>1, AppendProperties, LenProperties
<1>3. /\ Parts(front, type) \in Seq(Seq(Piece)) /\ Len(Parts(front, type)) = n
      /\ Parts(its, type) \in Seq(Seq(Piece)) /\ Len(Parts(its, type)) = n + 1
      /\ \A k \in DOMAIN front : Parts(front, type)[k] = Part(front, type, k)
      /\ \A k \in DOMAIN its :
            Parts(its, type)[k] = Part(its, type, k) /\ Part(its, type, k) \in Seq(Piece)
  BY <1>2, PartsFacts
<1>4. ASSUME NEW k \in 1 .. n PROVE Parts(its, type)[k] = Parts(front, type)[k]
  <2>1. k \in DOMAIN front /\ k \in DOMAIN its
    BY <1>2
  <2>2. Part(its, type, k) = Part(front, type, k)
    BY <1>2 DEF Part
  <2>3. QED
    BY <1>3, <2>1, <2>2
<1>5. Parts(its, type)[n + 1] = Part(its, type, n + 1) /\ Part(its, type, n + 1) \in Seq(Piece)
  <2>1. n + 1 \in 1 .. n + 1
    BY <1>2
  <2>2. QED
    BY <1>2, <1>3, <2>1
<1> HIDE DEF n
<1>6. Parts(its, type) = Append(Parts(front, type), Part(its, type, n + 1))
  <2> DEFINE r == Append(Parts(front, type), Part(its, type, n + 1))
  <2>1. /\ r \in Seq(Seq(Piece)) /\ Len(r) = n + 1
        /\ \A k \in 1 .. n : r[k] = Parts(front, type)[k]
        /\ r[n + 1] = Part(its, type, n + 1)
    BY <1>2, <1>3, <1>5, AppendProperties
  <2> HIDE DEF r
  <2>2. ASSUME NEW k \in 1 .. n + 1 PROVE r[k] = Parts(its, type)[k]
    <3>1. CASE k \in 1 .. n
      BY <1>4, <2>1, <3>1
    <3>2. CASE k = n + 1
      BY <1>5, <2>1, <3>2
    <3>3. QED
      BY <1>2, <3>1, <3>2
  <2>3. QED
    BY <1>3, <2>1, <2>2, SeqEqual DEF r
<1>7. TextOf(its, type) = TextOf(front, type) \o Part(its, type, n + 1)
  <2>1. FlattenSeq(Parts(its, type)) = FlattenSeq(Parts(front, type)) \o Part(its, type, n + 1)
    BY <1>3, <1>5, <1>6, FlattenAppend
  <2>2. /\ TextOf(its, type) = FlattenSeq(Parts(its, type))
        /\ TextOf(front, type) = FlattenSeq(Parts(front, type))
    BY PartsFacts
  <2>3. QED
    BY <2>1, <2>2
<1>8. Len(front) = Len(its) - 1 /\ Len(its) = n + 1
  BY <1>2 DEF n
<1>9. \A k \in DOMAIN front : front[k] = its[k]
  BY <1>2
<1>10. TextOf(its, type) = TextOf(front, type) \o Part(its, type, Len(its))
  BY <1>7, <1>8
<1>11. QED
  BY <1>8, <1>9, <1>10

SameBefore(its, jts, type) ==
    \A k \in 1 .. Len(its) - 1 : Part(jts, type, k) = Part(its, type, k)
LastGains(its, jts, type, more) ==
    Part(jts, type, Len(its)) = Part(its, type, Len(its)) \o more
TextGains(its, jts, type, more) == TextOf(jts, type) = TextOf(its, type) \o more

\* What the last item gains, the text gains.
LEMMA TextGrows ==
    ASSUME NEW its \in Seq(Item), NEW jts \in Seq(Item), NEW type, Len(jts) = Len(its), its # <<>>,
           SameBefore(its, jts, type),
           NEW more \in Seq(Piece), LastGains(its, jts, type, more)
    PROVE  TextGains(its, jts, type, more)
<1>1. jts # <<>> /\ Len(its) \in Nat \ {0}
  OBVIOUS
<1>2. PICK f \in Seq(Item) :
         /\ Len(f) = Len(its) - 1 /\ \A k \in DOMAIN f : f[k] = its[k]
         /\ TextOf(its, type) = TextOf(f, type) \o Part(its, type, Len(its))
  BY TextLast
<1>3. PICK g \in Seq(Item) :
         /\ Len(g) = Len(jts) - 1 /\ \A k \in DOMAIN g : g[k] = jts[k]
         /\ TextOf(jts, type) = TextOf(g, type) \o Part(jts, type, Len(jts))
  BY <1>1, TextLast
<1>4. TextOf(g, type) = TextOf(f, type)
  <2>1. DOMAIN f = 1 .. Len(its) - 1 /\ DOMAIN g = DOMAIN f
    BY <1>1, <1>2, <1>3
  <2>2. \A k \in DOMAIN f : Part(g, type, k) = Part(f, type, k)
    BY <1>2, <1>3, <2>1 DEF Part, SameBefore
  <2>3. Len(g) = Len(f)
    BY <1>1, <1>2, <1>3
  <2>4. QED
    BY <2>2, <2>3, TextSame
<1>5. /\ TextOf(f, type) \in Seq(Piece)
      /\ Part(its, type, Len(its)) \in Seq(Piece)
  <2>1. Len(its) \in DOMAIN its
    BY <1>1
  <2>2. Part(its, type, Len(its)) \in Seq(Piece)
    BY <2>1, PartsFacts
  <2>3. TextOf(f, type) \in Seq(Piece)
    BY PartsFacts
  <2>4. QED
    BY <2>2, <2>3
<1>6. TextOf(f, type) \o (Part(its, type, Len(its)) \o more)
         = (TextOf(f, type) \o Part(its, type, Len(its))) \o more
  <2>1. PICK a \in Seq(Piece) : a = TextOf(f, type)
    BY <1>5
  <2>2. PICK b \in Seq(Piece) : b = Part(its, type, Len(its))
    BY <1>5
  <2>3. (a \o b) \o more = a \o (b \o more)
    BY PieceConcat
  <2>4. QED
    BY <2>1, <2>2, <2>3
<1>7. QED
  BY <1>2, <1>3, <1>4, <1>6 DEF LastGains, TextGains

\* An item without text of its type adds none.
LEMMA TextNew ==
    ASSUME NEW its \in Seq(Item), NEW jts \in Seq(Item), NEW type, Len(jts) = Len(its) + 1,
           \A k \in DOMAIN its : jts[k] = its[k],
           Part(jts, type, Len(jts)) = <<>>
    PROVE  TextOf(jts, type) = TextOf(its, type)
<1>1. Len(its) \in Nat /\ jts # <<>> /\ DOMAIN its = 1 .. Len(its)
  OBVIOUS
<1>2. PICK g \in Seq(Item) :
         /\ Len(g) = Len(jts) - 1 /\ \A k \in DOMAIN g : g[k] = jts[k]
         /\ TextOf(jts, type) = TextOf(g, type) \o Part(jts, type, Len(jts))
  BY <1>1, TextLast
<1>3. Len(g) = Len(its) /\ DOMAIN g = DOMAIN its
  BY <1>1, <1>2
<1>4. \A k \in DOMAIN its : Part(g, type, k) = Part(its, type, k)
  BY <1>2, <1>3 DEF Part
<1>5. TextOf(g, type) = TextOf(its, type)
  BY <1>3, <1>4, TextSame
<1>6. TextOf(g, type) \in Seq(Piece)
  BY PartsFacts
<1>7. QED
  BY <1>2, <1>5, <1>6, ConcatEmptySeq
-----------------------------------------------------------------------------
(* Shown text *)

PiecesOf(its, type) == {i \in DOMAIN its : its[i].type = type} \X Nat

\* The client has the whole text of the items, apart from a summary that the
\* upstream did not stream.
TextAgrees(its, how, text) ==
    /\ text \in Seq((0 .. Len(its)) \X Nat)
    /\ Among(text, PiecesOf(its, "message")) = TextOf(its, "message")
    /\ how # "done" => Among(text, PiecesOf(its, "reasoning")) = TextOf(its, "reasoning")

Tags == {<<>>, <<Open>>, <<Close>>}

LEMMA TagsType ==
    ASSUME NEW T, Open \in T, Close \in T, NEW tag \in Tags
    PROVE  tag \in Seq(T)
<1>1. <<>> \in Seq(T) /\ <<Open>> \in Seq(T) /\ <<Close>> \in Seq(T)
  OBVIOUS
<1>2. QED
  BY <1>1 DEF Tags

\* What text z of item i adds to the text of a type.
Adds(its, type, i, z) == IF its[i].type = type THEN z ELSE <<>>

\* Text of item i.
OfItem(z, i) == z \in Seq({i} \X Nat)

\* What is shown of item i: some of its text, in tags or not.
LEMMA ShownFacts ==
    ASSUME NEW its \in Seq(Item), NEW i \in DOMAIN its, NEW z, OfItem(z, i),
           NEW pre \in Tags, NEW post \in Tags, NEW type
    PROVE  /\ pre \o z \o post \in Seq((0 .. Len(its)) \X Nat)
           /\ Among(pre \o z \o post, PiecesOf(its, type)) = Adds(its, type, i, z)
<1> DEFINE T == (0 .. Len(its)) \X Nat
           S == PiecesOf(its, type)
<1>1. DOMAIN its = 1 .. Len(its) /\ Len(its) \in Nat
  OBVIOUS
<1>2. Open \in T /\ Close \in T /\ Open \notin S /\ Close \notin S
  BY <1>1 DEF Open, Close, PiecesOf
<1>3. {i} \X Nat \subseteq T
  BY <1>1
<1> HIDE DEF T, S
<1>4. ASSUME NEW x \in Tags PROVE x \in Seq(T)
  BY <1>2, TagsType
<1>5. pre \in Seq(T) /\ post \in Seq(T)
  BY <1>4
<1>6. z \in Seq(T)
  BY <1>3 DEF OfItem
<1>7. ASSUME NEW x \in Tags PROVE Among(x, S) = <<>>
  <2>1. x \in Seq(T)
    BY <1>4, <1>7
  <2>2. \A k \in DOMAIN x : x[k] \notin S
    BY <1>2, <1>7 DEF Tags
  <2>3. QED
    BY <2>1, <2>2, AmongNone
<1>8. Among(z, S) = Adds(its, type, i, z)
  <2>1. \A k \in DOMAIN z : z[k] \in {i} \X Nat
    BY DEF OfItem
  <2>2. CASE its[i].type = type
    <3>1. \A k \in DOMAIN z : z[k] \in S
      BY <2>1, <2>2 DEF S, PiecesOf
    <3>2. QED
      BY <1>6, <2>2, <3>1, AmongAll DEF Adds
  <2>3. CASE its[i].type # type
    <3>1. \A k \in DOMAIN z : z[k] \notin S
      BY <2>1, <2>3 DEF S, PiecesOf
    <3>2. QED
      BY <1>6, <2>3, <3>1, AmongNone DEF Adds
  <2>4. QED
    BY <2>2, <2>3
<1>9. Among(pre \o z \o post, S) = Among(pre, S) \o Among(z, S) \o Among(post, S)
  <2>1. PICK a \in Seq(T) : a = pre \o z
    BY <1>5, <1>6, ConcatProperties
  <2>2. Among(a \o post, S) = Among(a, S) \o Among(post, S)
    BY <1>5, AmongConcat, SMTT(60)
  <2>3. Among(pre \o z, S) = Among(pre, S) \o Among(z, S)
    <3>1. pre \in Seq(T)
      BY <1>5
    <3>2. QED
      BY <1>6, <3>1, AmongConcat, SMTT(60)
  <2>4. QED
    BY <2>1, <2>2, <2>3
<1>10. pre \o z \o post \in Seq(T)
  BY <1>5, <1>6, ConcatProperties
<1>11. Among(z, S) \in Seq(T)
  BY <1>6, AmongType
<1>12. Among(pre \o z \o post, S) = Among(z, S)
  <2>1. PICK m \in Seq(T) : m = Among(z, S)
    BY <1>11
  <2>2. Among(pre, S) = <<>> /\ Among(post, S) = <<>>
    BY <1>7
  <2>3. <<>> \o m = m /\ m \o <<>> = m
    BY ConcatEmptySeq
  <2>4. QED
    BY <1>9, <2>1, <2>2, <2>3
<1>13. QED
  BY <1>8, <1>10, <1>12 DEF T, S

LEMMA ShownAdds ==
    ASSUME NEW its \in Seq(Item), NEW i \in DOMAIN its, NEW z, OfItem(z, i),
           NEW pre \in Tags, NEW post \in Tags, NEW type
    PROVE  Among(pre \o z \o post, PiecesOf(its, type)) = Adds(its, type, i, z)
BY ShownFacts, ZenonT(60)

\* Items that are added or change move nothing that was shown.
LEMMA ShownStays ==
    ASSUME NEW its \in Seq(Item), NEW jts \in Seq(Item), Len(its) <= Len(jts),
           \A k \in DOMAIN its : jts[k].type = its[k].type,
           NEW text \in Seq((0 .. Len(its)) \X Nat), NEW type
    PROVE  /\ text \in Seq((0 .. Len(jts)) \X Nat)
           /\ Among(text, PiecesOf(jts, type)) = Among(text, PiecesOf(its, type))
<1> DEFINE T == (0 .. Len(its)) \X Nat
<1>1. /\ DOMAIN its = 1 .. Len(its) /\ DOMAIN jts = 1 .. Len(jts)
      /\ Len(its) \in Nat /\ Len(jts) \in Nat
  OBVIOUS
<1>2. T \subseteq (0 .. Len(jts)) \X Nat
  BY <1>1
<1>3. \A x \in T : x \in PiecesOf(jts, type) <=> x \in PiecesOf(its, type)
  BY <1>1 DEF PiecesOf
<1> HIDE DEF T
<1>4. text \in Seq(T)
  BY DEF T
<1>5. text \in Seq((0 .. Len(jts)) \X Nat)
  BY <1>2, <1>4
<1>6. \A k \in DOMAIN text : text[k] \in PiecesOf(jts, type) <=> text[k] \in PiecesOf(its, type)
  BY <1>3, <1>4
<1>7. Among(text, PiecesOf(jts, type)) = Among(text, PiecesOf(its, type))
  BY <1>4, <1>6, AmongSame
<1>8. QED
  BY <1>5, <1>7

\* The client is shown what the items gain.
LEMMA TextAgreesNext ==
    ASSUME NEW its \in Seq(Item), NEW jts \in Seq(Item), Len(its) <= Len(jts),
           \A k \in DOMAIN its : jts[k].type = its[k].type,
           NEW how, NEW text, TextAgrees(its, how, text),
           NEW i \in DOMAIN jts, NEW z, OfItem(z, i),
           NEW pre \in Tags, NEW post \in Tags,
           \A type \in {"message", "reasoning"} :
              type = "message" \/ how # "done" =>
                 TextOf(jts, type) = TextOf(its, type) \o Adds(jts, type, i, z)
    PROVE  TextAgrees(jts, how, text \o (pre \o z \o post))
<1> DEFINE new == pre \o z \o post
           T == (0 .. Len(jts)) \X Nat
<1>1. text \in Seq((0 .. Len(its)) \X Nat)
  BY DEF TextAgrees
<1>2. text \in Seq(T) /\ new \in Seq(T)
  BY <1>1, ShownStays, ShownFacts
<1>3. ASSUME NEW type
      PROVE  /\ Among(text, PiecesOf(jts, type)) = Among(text, PiecesOf(its, type))
             /\ Among(new, PiecesOf(jts, type)) = Adds(jts, type, i, z)
  <2>1. Among(text, PiecesOf(jts, type)) = Among(text, PiecesOf(its, type))
    BY <1>1, ShownStays
  <2>2. Among(new, PiecesOf(jts, type)) = Adds(jts, type, i, z)
    BY ShownAdds
  <2>3. QED
    BY <2>1, <2>2
<1> HIDE DEF new, T
<1>4. \A type : Among(text \o new, PiecesOf(jts, type))
                   = Among(text, PiecesOf(jts, type)) \o Among(new, PiecesOf(jts, type))
  BY <1>2, AmongConcat
<1>5. text \o new \in Seq(T)
  BY <1>2, ConcatProperties
<1>6. Among(text \o new, PiecesOf(jts, "message")) = TextOf(jts, "message")
  BY <1>3, <1>4 DEF TextAgrees
<1>7. how # "done" => Among(text \o new, PiecesOf(jts, "reasoning")) = TextOf(jts, "reasoning")
  BY <1>3, <1>4 DEF TextAgrees
<1>8. QED
  BY <1>5, <1>6, <1>7 DEF TextAgrees, T, new

\* Nothing is shown but perhaps a tag, and the items gain nothing.
LEMMA TextAgreesStill ==
    ASSUME NEW its \in Seq(Item), NEW jts \in Seq(Item), Len(its) <= Len(jts),
           \A k \in DOMAIN its : jts[k].type = its[k].type,
           NEW how, NEW text, TextAgrees(its, how, text), NEW tag \in Tags,
           \A type \in {"message", "reasoning"} :
              type = "message" \/ how # "done" => TextOf(jts, type) = TextOf(its, type)
    PROVE  TextAgrees(jts, how, text \o tag)
<1> DEFINE T == (0 .. Len(jts)) \X Nat
<1>1. text \in Seq((0 .. Len(its)) \X Nat)
  BY DEF TextAgrees
<1>2. Len(jts) \in Nat /\ DOMAIN jts = 1 .. Len(jts)
  OBVIOUS
<1>3. text \in Seq(T)
  BY <1>1, ShownStays
<1>4. Open \in T /\ Close \in T
  BY <1>2 DEF Open, Close
<1> HIDE DEF T
<1>5. tag \in Seq(T)
  BY <1>4, TagsType
<1>6. \A type : Among(text, PiecesOf(jts, type)) = Among(text, PiecesOf(its, type))
  BY <1>1, ShownStays
<1>7. ASSUME NEW type PROVE Among(tag, PiecesOf(jts, type)) = <<>>
  <2>1. Open \notin PiecesOf(jts, type) /\ Close \notin PiecesOf(jts, type)
    BY <1>2 DEF PiecesOf, Open, Close
  <2>2. \A k \in DOMAIN tag : tag[k] \notin PiecesOf(jts, type)
    BY <2>1 DEF Tags
  <2>3. QED
    BY <1>5, <2>2, AmongNone
<1>8. ASSUME NEW type PROVE Among(text \o tag, PiecesOf(jts, type)) = Among(text, PiecesOf(its, type))
  <2>1. Among(text, PiecesOf(jts, type)) \in Seq(T)
    BY <1>3, AmongType
  <2>2. Among(text \o tag, PiecesOf(jts, type))
           = Among(text, PiecesOf(jts, type)) \o Among(tag, PiecesOf(jts, type))
    BY <1>3, <1>5, AmongConcat
  <2>3. QED
    BY <1>6, <1>7, <2>1, <2>2, ConcatEmptySeq
<1>9. text \o tag \in Seq(T)
  BY <1>3, <1>5, ConcatProperties
<1>10. QED
  BY <1>8, <1>9 DEF TextAgrees, T
-----------------------------------------------------------------------------
(* Shown calls *)

IsFcn(f) == f = [x \in DOMAIN f |-> f[x]]

\* The client has every call that was announced, with the reasoning it carries
\* and the arguments sent.
CallsAgree(shown, index, carried, args) ==
    /\ IsFcn(shown)
    /\ DOMAIN shown = 0 .. Cardinality(DOMAIN index) - 1
    /\ DOMAIN shown = {index[i] : i \in DOMAIN index}
    /\ \A i \in DOMAIN index :
          shown[index[i]] = [item |-> i, carries |-> carried, args |-> args[i]]

Distinct(index) == \A i, j \in DOMAIN index : index[i] = index[j] => i = j

\* Tool indices tell calls apart.
LEMMA IndexDistinct ==
    ASSUME NEW its \in Seq(Item), NEW index, DOMAIN index \subseteq DOMAIN its,
           \A i \in DOMAIN index : index[i] = Cardinality({j \in DOMAIN index : j < i})
    PROVE  Distinct(index)
<1>1. IsFiniteSet(DOMAIN index) /\ DOMAIN index \subseteq Nat
  BY FewIndices
<1>2. ASSUME NEW i \in DOMAIN index, NEW j \in DOMAIN index, i < j
      PROVE  index[i] # index[j]
  <2> DEFINE a == {k \in DOMAIN index : k < i}
             b == {k \in DOMAIN index : k < j}
  <2>1. i \in Nat /\ j \in Nat
    BY <1>1
  <2>2. a \subseteq b /\ i \in b /\ i \notin a
    BY <1>1, <1>2, <2>1
  <2>3. b \subseteq DOMAIN index
    OBVIOUS
  <2>4. index[i] = Cardinality(a) /\ index[j] = Cardinality(b)
    OBVIOUS
  <2> HIDE DEF a, b
  <2>5. IsFiniteSet(b) /\ IsFiniteSet(a)
    BY <1>1, <2>2, <2>3, FS_Subset
  <2>6. Cardinality(a) < Cardinality(b) /\ Cardinality(a) \in Nat /\ Cardinality(b) \in Nat
    BY <2>2, <2>5, FS_Subset, FS_CardinalityType
  <2>7. QED
    BY <2>4, <2>6
<1>3. \A i, j \in DOMAIN index : i < j \/ j < i \/ i = j
  BY <1>1
<1>4. QED
  BY <1>2, <1>3 DEF Distinct

LEMMA ContentTurns ==
    ASSUME NEW c, NEW f, NEW x \in Seq(Piece)
    PROVE  Turns([content |-> c, calls |-> f], <<ContentChunk(x)>>,
                 [content |-> c \o x, calls |-> f])
<1>1. /\ ContentChunk(x) \in Chunk /\ ContentChunk(x).kind = "content"
      /\ ContentChunk(x).text = x
  BY ContentType
<1>2. Hears([content |-> c, calls |-> f], ContentChunk(x)) = [content |-> c \o x, calls |-> f]
  BY <1>1 DEF Hears
<1>3. QED
  BY <1>1, <1>2, TurnsOne

\* What CloseThink shows.
Closing == IF thinkOpen THEN <<Close>> ELSE <<>>

LEMMA CloseTurns ==
    ASSUME NEW T, NEW c \in Seq(T), NEW f
    PROVE  /\ Turns([content |-> c, calls |-> f], CloseThink,
                    [content |-> c \o Closing, calls |-> f])
           /\ Closing \in Tags
<1>1. Closing \in Tags
  BY DEF Closing, Tags
<1>2. CASE thinkOpen
  <2>1. <<Close>> \in Seq(Piece)
    BY DEF Close, Piece
  <2>2. CloseThink = <<ContentChunk(<<Close>>)>> /\ Closing = <<Close>>
    BY <1>2 DEF CloseThink, Closing
  <2>3. QED
    BY <1>1, <2>1, <2>2, ContentTurns
<1>3. CASE ~ thinkOpen
  <2>1. CloseThink = <<>> /\ Closing = <<>> /\ c \o <<>> = c
    BY <1>3, ConcatEmptySeq DEF CloseThink, Closing
  <2>2. QED
    BY <1>1, <2>1, TurnsEmpty
<1>4. QED
  BY <1>2, <1>3

LEMMA SilentTurns ==
    ASSUME NEW c, NEW f, NEW chunk \in Chunk, chunk.kind \in {"finish", "usage", "role"}
    PROVE  Turns([content |-> c, calls |-> f], <<chunk>>, [content |-> c, calls |-> f])
<1>1. Hears([content |-> c, calls |-> f], chunk) = [content |-> c, calls |-> f]
  BY DEF Hears
<1>2. QED
  BY <1>1, TurnsOne

\* With these chunks the client has these calls, and no more text.
Announce(c, f, chunks, index, carried, args) ==
    \E g : /\ Turns([content |-> c, calls |-> f], chunks, [content |-> c, calls |-> g])
           /\ CallsAgree(g, index, carried, args)

\* A new call, announced without arguments.
LEMMA CallTurns ==
    ASSUME NEW c, NEW f, NEW index, NEW carried \in Capsules, NEW args,
           CallsAgree(f, index, carried, args),
           NEW i \in 1 .. MaxItems, i \notin DOMAIN index,
           IsFiniteSet(DOMAIN index), IndexOf(i) = Cardinality(DOMAIN index),
           \A j \in DOMAIN index : index[j] # IndexOf(i),
           NEW more, more[i] = <<>>, \A j \in DOMAIN index : more[j] = args[j]
    PROVE  Announce(c, f, <<CallChunk(i, carried)>>, With(index, i, IndexOf(i)), carried, more)
<1> DEFINE v == [item |-> i, carries |-> carried, args |-> <<>>]
           k == IndexOf(i)
           g == With(f, k, v)
           later == With(index, i, k)
<1>1. /\ CallChunk(i, carried) \in Chunk /\ CallChunk(i, carried).kind = "call"
      /\ CallChunk(i, carried).index = k
      /\ CallChunk(i, carried).item = i /\ CallChunk(i, carried).carries = carried
  <2>1. CallChunk(i, carried).item = i /\ CallChunk(i, carried).carries = carried
    BY DEF CallChunk, Blank
  <2>2. IndexOf(i) \in Nat
    BY FS_CardinalityType
  <2>3. QED
    BY <2>1, <2>2, CallType
<1>2. Hears([content |-> c, calls |-> f], CallChunk(i, carried)) = [content |-> c, calls |-> g]
  BY <1>1 DEF Hears
<1>3. Turns([content |-> c, calls |-> f], <<CallChunk(i, carried)>>, [content |-> c, calls |-> g])
  BY <1>1, <1>2, TurnsOne
<1> HIDE DEF v, k
<1>4. /\ DOMAIN g = DOMAIN f \cup {k} /\ g[k] = v
      /\ \A j \in DOMAIN f \ {k} : g[j] = f[j]
  BY DEF With
<1>5. /\ DOMAIN later = DOMAIN index \cup {i} /\ later[i] = k
      /\ \A j \in DOMAIN index : later[j] = index[j]
  BY DEF With
<1> HIDE DEF g, later
<1>6. DOMAIN g = {later[j] : j \in DOMAIN later}
  <2>1. DOMAIN f = {index[j] : j \in DOMAIN index}
    BY DEF CallsAgree
  <2>2. {later[j] : j \in DOMAIN later} = {index[j] : j \in DOMAIN index} \cup {k}
    BY <1>5
  <2>3. QED
    BY <1>4, <2>1, <2>2
<1>7. ASSUME NEW j \in DOMAIN later
      PROVE  g[later[j]] = [item |-> j, carries |-> carried, args |-> more[j]]
  <2>1. CASE j = i
    BY <1>4, <1>5, <2>1 DEF v
  <2>2. CASE j # i
    <3>1. j \in DOMAIN index /\ later[j] = index[j] /\ index[j] # k
      BY <1>5, <2>2 DEF k
    <3>2. index[j] \in DOMAIN f /\ f[index[j]] = [item |-> j, carries |-> carried, args |-> args[j]]
      BY <3>1 DEF CallsAgree
    <3>3. g[index[j]] = f[index[j]]
      BY <1>4, <3>1, <3>2
    <3>4. more[j] = args[j]
      BY <3>1
    <3>5. QED
      BY <3>1, <3>2, <3>3, <3>4
  <2>3. QED
    BY <2>1, <2>2
<1>8. CallsAgree(g, later, carried, more)
  <2>1. IsFcn(g)
    BY DEF IsFcn, g, With
  <2>2. DOMAIN g = 0 .. Cardinality(DOMAIN later) - 1
    <3>1. k = Cardinality(DOMAIN index) /\ k \in Nat
      BY FS_CardinalityType DEF k
    <3>2. Cardinality(DOMAIN later) = k + 1
      BY <1>5, <3>1, FS_AddElement, ZenonT(60)
    <3>3. DOMAIN f = 0 .. k - 1
      BY <3>1 DEF CallsAgree
    <3>4. DOMAIN g = 0 .. k
      BY <1>4, <3>1, <3>3
    <3>5. QED
      BY <3>1, <3>2, <3>4
  <2>3. QED
    BY <1>6, <1>7, <2>1, <2>2 DEF CallsAgree
<1>9. QED
  BY <1>3, <1>8 DEF later, k, g, Announce

CallIs(r, a, b, y) == r = [item |-> a, carries |-> b, args |-> y]
Longer(r, x) == [r EXCEPT !.args = @ \o x]

LEMMA MoreArgs ==
    ASSUME NEW r, NEW a, NEW b, NEW y, NEW x, CallIs(r, a, b, y)
    PROVE  CallIs(Longer(r, x), a, b, y \o x)
<1> DEFINE r1 == [r EXCEPT !.args = @ \o x]
           r2 == [item |-> a, carries |-> b, args |-> y \o x]
<1>1. r.args = y /\ r.item = a /\ r.carries = b /\ DOMAIN r = {"item", "carries", "args"}
  BY DEF CallIs
<1>2. r2.args = y \o x /\ r2.item = a /\ r2.carries = b
  OBVIOUS
<1>3. DOMAIN r1 = DOMAIN r /\ r1.item = r.item /\ r1.carries = r.carries /\ r1.args = r.args \o x
  <2>1. "args" \in DOMAIN r
    BY <1>1
  <2>2. QED
    BY <2>1
<1>4. r1 = [j \in DOMAIN r1 |-> r1[j]] /\ r2 = [j \in {"item", "carries", "args"} |-> r2[j]]
  OBVIOUS
<1> HIDE DEF r1, r2
<1>5. \A j \in {"item", "carries", "args"} : r1[j] = r2[j]
  BY <1>1, <1>2, <1>3
<1>6. r1 = r2
  BY <1>1, <1>3, <1>4, <1>5
<1>7. QED
  BY <1>6 DEF r1, r2, Longer, CallIs

\* More arguments of a call.
LEMMA ArgsTurns ==
    ASSUME NEW c, NEW f, NEW index, NEW carried, NEW args, NEW x \in Seq(Piece),
           CallsAgree(f, index, carried, args), Distinct(index),
           NEW i \in DOMAIN index, IndexOf(i) = index[i], IndexOf(i) \in Nat,
           NEW more, more[i] = args[i] \o x, \A j \in DOMAIN index \ {i} : more[j] = args[j]
    PROVE  Announce(c, f, <<ArgsChunk(i, x)>>, index, carried, more)
<1> DEFINE k == index[i]
           g == [f EXCEPT ![k].args = @ \o x]
<1>1. /\ ArgsChunk(i, x) \in Chunk /\ ArgsChunk(i, x).kind = "args"
      /\ ArgsChunk(i, x).index = k /\ ArgsChunk(i, x).text = x
  BY ArgsType
<1>2. Hears([content |-> c, calls |-> f], ArgsChunk(i, x)) = [content |-> c, calls |-> g]
  BY <1>1 DEF Hears
<1>3. Turns([content |-> c, calls |-> f], <<ArgsChunk(i, x)>>, [content |-> c, calls |-> g])
  BY <1>1, <1>2, TurnsOne
<1>4. k \in DOMAIN f /\ f[k] = [item |-> i, carries |-> carried, args |-> args[i]]
  BY DEF CallsAgree
<1>5. /\ DOMAIN g = DOMAIN f /\ \A j \in DOMAIN f \ {k} : g[j] = f[j]
      /\ g[k] = [f[k] EXCEPT !.args = @ \o x]
  BY <1>4
<1>6. g[k] = [item |-> i, carries |-> carried, args |-> more[i]]
  <2>1. CallIs(f[k], i, carried, args[i])
    BY <1>4 DEF CallIs
  <2>2. CallIs(Longer(f[k], x), i, carried, args[i] \o x)
    BY <2>1, MoreArgs
  <2>3. QED
    BY <1>5, <2>2 DEF Longer, CallIs
<1>7. IsFcn(g)
  BY DEF IsFcn
<1> HIDE DEF g
<1>8. ASSUME NEW j \in DOMAIN index
      PROVE  g[index[j]] = [item |-> j, carries |-> carried, args |-> more[j]]
  <2>1. CASE j = i
    BY <1>6, <2>1
  <2>2. CASE j # i
    <3>1. index[j] # k /\ index[j] \in DOMAIN f
      BY <2>2 DEF Distinct, CallsAgree
    <3>2. g[index[j]] = f[index[j]]
      BY <1>5, <3>1
    <3>3. more[j] = args[j]
      BY <2>2
    <3>4. f[index[j]] = [item |-> j, carries |-> carried, args |-> args[j]]
      BY DEF CallsAgree
    <3>5. QED
      BY <3>2, <3>3, <3>4
  <2>3. QED
    BY <2>1, <2>2
<1>9. CallsAgree(g, index, carried, more)
  BY <1>5, <1>8, <1>7 DEF CallsAgree
<1>10. QED
  BY <1>3, <1>9 DEF Announce

\* What of a text comes after a beginning of it.
LEMMA PrefixRest ==
    ASSUME NEW T, NEW s \in Seq(T), NEW t \in Seq(T), IsPrefix(s, t)
    PROVE  /\ SubSeq(t, Len(s) + 1, Len(t)) \in Seq(T)
           /\ s \o SubSeq(t, Len(s) + 1, Len(t)) = t
<1> DEFINE n == Len(s)
           m == Len(t)
           r == SubSeq(t, n + 1, m)
<1>1. n \in Nat /\ m \in Nat /\ n <= m
  BY DEF IsPrefix
<1>2. /\ r \in Seq(T) /\ Len(r) = m - n
      /\ \A k \in 1 .. m - n : r[k] = t[n + k]
  <2>1. \A k \in n + 1 .. m : t[k] \in T
    BY <1>1
  <2>2. r \in Seq(T)
    BY <1>1, <2>1, SubSeqProperties
  <2>3. Len(r) = IF n + 1 <= m THEN m - (n + 1) + 1 ELSE 0
    BY <1>1, <2>1, SubSeqProperties
  <2>4. \A k \in 1 .. m - (n + 1) + 1 : r[k] = t[n + 1 + k - 1]
    BY <1>1, <2>1, SubSeqProperties
  <2>5. QED
    BY <1>1, <2>2, <2>3, <2>4
<1>3. \A k \in 1 .. n : s[k] = t[k]
  <2>1. SubSeq(s, 1, n) = SubSeq(t, 1, n)
    BY DEF IsPrefix
  <2>2. \A k \in 1 .. n : SubSeq(s, 1, n)[k] = s[k] /\ SubSeq(t, 1, n)[k] = t[k]
    BY <1>1
  <2>3. QED
    BY <2>1, <2>2
<1> HIDE DEF n, m, r
<1>4. s \o r \in Seq(T) /\ Len(s \o r) = m
  BY <1>1, <1>2, ConcatProperties DEF n
<1>5. ASSUME NEW k \in 1 .. m PROVE (s \o r)[k] = t[k]
  <2>1. (s \o r)[k] = IF k <= n THEN s[k] ELSE r[k - n]
    BY <1>1, <1>2, <1>5, ConcatProperties DEF n
  <2>2. CASE k <= n
    BY <1>1, <1>3, <1>5, <2>1, <2>2
  <2>3. CASE ~ (k <= n)
    <3>1. k - n \in 1 .. m - n /\ n + (k - n) = k
      BY <1>1, <1>5, <2>3
    <3>2. QED
      BY <1>2, <2>1, <2>3, <3>1
  <2>4. QED
    BY <2>2, <2>3
<1>6. s \o r = t
  BY <1>4, <1>5, SeqEqual DEF m
<1>7. QED
  BY <1>2, <1>6 DEF r, n, m

\* The arguments that were left out so far.
LEMMA SuffixTurns ==
    ASSUME NEW c, NEW f, NEW index, NEW carried, NEW args,
           NEW sent \in Seq(Piece), NEW full \in Seq(Piece), IsPrefix(sent, full),
           CallsAgree(f, index, carried, args), Distinct(index),
           NEW i \in DOMAIN index, IndexOf(i) = index[i], IndexOf(i) \in Nat,
           args[i] = sent,
           NEW more, more[i] = full, \A j \in DOMAIN index \ {i} : more[j] = args[j]
    PROVE  Announce(c, f, Suffix(i, sent, full), index, carried, more)
<1>1. CASE sent = full
  <2>1. \A j \in DOMAIN index : more[j] = args[j]
    BY <1>1
  <2>2. CallsAgree(f, index, carried, more)
    BY <2>1 DEF CallsAgree
  <2>3. Suffix(i, sent, full) = <<>>
    BY <1>1 DEF Suffix
  <2>4. QED
    BY <2>2, <2>3, TurnsEmpty DEF Announce
<1>2. CASE sent # full
  <2> DEFINE x == SubSeq(full, Len(sent) + 1, Len(full))
  <2>1. x \in Seq(Piece) /\ sent \o x = full
    BY PrefixRest
  <2>2. Suffix(i, sent, full) = <<ArgsChunk(i, x)>>
    BY <1>2 DEF Suffix
  <2> HIDE DEF x
  <2>3. more[i] = args[i] \o x
    BY <2>1
  <2>4. Announce(c, f, <<ArgsChunk(i, x)>>, index, carried, more)
    BY <2>1, <2>3, ArgsTurns
  <2>5. QED
    BY <2>2, <2>4
<1>3. QED
  BY <1>1, <1>2
-----------------------------------------------------------------------------
(* The invariant *)

ThoughtAgrees(r) ==
    /\ reasoning[r].sealed = items[r].sealed
    /\ items[r].done => reasoning[r].size = items[r].size
    /\ style = "deltas" /\ ~ summaryStreamed => items[r].size = 0 /\ ~ items[r].partOpen
    /\ style = "item" => items[r].done \/ items[r].size = 0

CallAgrees(c) ==
    /\ toolArgs[c] = Text(c, items[c].size)
    /\ \A r \in Indices("reasoning") :
          r < c /\ capsule = "on" /\ items[r].sealed /\ items[r].done

OpenIsLast ==
    \A i \in DOMAIN items :
        items[i].type \in {"message", "reasoning"} /\ ~ items[i].done => i = Len(items)

\* What the machine knows of the items.
ItemsAgree ==
    /\ OpenIsLast
    /\ summaryStreamed => style = "deltas"
    /\ Indices("foreign") = {}
    /\ IsFcn(toolIndex) /\ DOMAIN toolIndex = Indices("call")
    /\ IsFcn(reasoning) /\ DOMAIN reasoning = Indices("reasoning")
    /\ \A r \in Indices("reasoning") : ThoughtAgrees(r)
    /\ \A c \in Indices("call") : CallAgrees(c)

\* The client will have what the machine knows when it has read what is on
\* its way.
Told ==
    \E text, shown :
        /\ Turns(Transcript, pending, [content |-> text, calls |-> shown])
        /\ TextAgrees(items, style, text)
        /\ CallsAgree(shown, toolIndex, Carried, toolArgs)

AgreeInv ==
    /\ ~ Cut => ItemsAgree
    /\ ~ Cut /\ router \in {"forwarding", "done"} => Told
    /\ over = "completed" => \A i \in DOMAIN items : items[i].done
    /\ over = "adapter" => WholeFails

LEMMA TextIs == \A type : AllText(type) = TextOf(items, type) /\ Pieces(type) = PiecesOf(items, type)
BY DEF AllText, TextOf, Pieces, PiecesOf, Indices

LEMMA TurnsNothing ==
    ASSUME NEW c, NEW f, NEW d, NEW g,
           Turns([content |-> c, calls |-> f], <<>>, [content |-> d, calls |-> g])
    PROVE  c = d /\ f = g
<1>1. [content |-> c, calls |-> f] = [content |-> d, calls |-> g]
  BY TurnsEnds
<1>2. QED
  BY <1>1

\* When nothing is on its way the client has it all.
LEMMA ToldNow ==
    ASSUME Told, pending = <<>>
    PROVE  TextAgrees(items, style, content) /\ CallsAgree(calls, toolIndex, Carried, toolArgs)
<1>1. PICK text, shown :
         /\ Turns(Transcript, pending, [content |-> text, calls |-> shown])
         /\ TextAgrees(items, style, text)
         /\ CallsAgree(shown, toolIndex, Carried, toolArgs)
  BY DEF Told
<1>2. content = text /\ calls = shown
  BY <1>1, TurnsNothing DEF Transcript
<1>3. QED
  BY <1>1, <1>2

\* What an event finds.
LEMMA ReceivingAgree ==
    ASSUME AdapterInv, AgreeInv, Receiving
    PROVE  /\ ~ Cut /\ ItemsAgree /\ content \in Seq(Piece)
           /\ TextAgrees(items, style, content)
           /\ CallsAgree(calls, toolIndex, Carried, toolArgs)
           /\ Transcript = [content |-> content, calls |-> calls]
<1>1. ~ Cut /\ pending = <<>> /\ router = "forwarding"
  BY DEF Receiving, Cut
<1>2. ItemsAgree /\ Told
  BY <1>1 DEF AgreeInv
<1>3. TextAgrees(items, style, content) /\ CallsAgree(calls, toolIndex, Carried, toolArgs)
  BY <1>1, <1>2, ToldNow
<1>4. content \in Seq(Piece)
  BY DEF AdapterInv, TypeOK
<1>5. QED
  BY <1>1, <1>2, <1>3, <1>4 DEF Transcript

\* What an event has to leave behind,
LEMMA YieldAgrees ==
    ASSUME AdapterInv, Receiving, NEW chunks, Yields(chunks), ItemsAgree',
           NEW text, NEW shown,
           Turns([content |-> content, calls |-> calls], chunks,
                 [content |-> text, calls |-> shown]),
           TextAgrees(items', style', text),
           CallsAgree(shown, toolIndex', Carried', toolArgs')
    PROVE  AgreeInv'
<1>1. over' = "no" /\ pending' = chunks /\ content' = content /\ calls' = calls
  BY DEF Yields, client, Receiving
<1>2. Transcript' = [content |-> content, calls |-> calls]
  BY <1>1 DEF Transcript
<1>3. Told'
  BY <1>1, <1>2 DEF Told
<1>4. QED
  BY <1>1, <1>3 DEF AgreeInv

\* or to justify.
LEMMA FailAgrees ==
    ASSUME NEW cause \in {"upstream", "adapter"}, Fails(cause),
           cause = "adapter" => WholeFails'
    PROVE  AgreeInv'
<1>1. over' = cause
  BY DEF Fails
<1>2. Cut'
  BY <1>1 DEF Cut
<1>3. QED
  BY <1>1, <1>2 DEF AgreeInv

\* With everything read, the client has what the other mode answers with.
LEMMA CallsWhole ==
    ASSUME TypeOK, ItemsAgree, CallsAgree(calls, toolIndex, Carried, toolArgs),
           \A r \in Indices("reasoning") : items[r].done
    PROVE  calls = WholeCalls
<1> DEFINE D == Indices("call")
           N == 0 .. Cardinality(D) - 1
           at(k) == CHOOSE i \in D : Cardinality({j \in D : j < i}) = k
<1>1. D = DOMAIN toolIndex /\ DOMAIN calls = N
  BY DEF ItemsAgree, CallsAgree
<1>2. \A i \in D : toolIndex[i] = Cardinality({j \in D : j < i})
  BY <1>1 DEF TypeOK
<1>3. Distinct(toolIndex)
  <2>1. /\ items \in Seq(Item) /\ DOMAIN toolIndex \subseteq DOMAIN items
        /\ \A i \in DOMAIN toolIndex :
              toolIndex[i] = Cardinality({j \in DOMAIN toolIndex : j < i})
    BY DEF TypeOK
  <2>2. QED
    BY <2>1, IndexDistinct
<1>4. Carried = [r \in Indices("reasoning") |-> items[r].size]
  BY DEF Carried, ItemsAgree, ThoughtAgrees
<1>5. ASSUME NEW k \in N
      PROVE  calls[k] = [item |-> at(k), carries |-> Carried,
                         args |-> Text(at(k), items[at(k)].size)]
  <2>1. PICK i \in D : toolIndex[i] = k
    BY <1>1, <1>5 DEF CallsAgree
  <2>2. \A j \in D : Cardinality({l \in D : l < j}) = k => j = i
    BY <1>1, <1>2, <1>3, <2>1 DEF Distinct
  <2> HIDE DEF D
  <2>3. at(k) = i
    BY <1>2, <2>1, <2>2
  <2>4. calls[k] = [item |-> i, carries |-> Carried, args |-> toolArgs[i]]
    BY <1>1, <2>1 DEF CallsAgree
  <2>5. toolArgs[i] = Text(i, items[i].size)
    BY <2>1 DEF ItemsAgree, CallAgrees, D
  <2>6. QED
    BY <2>3, <2>4, <2>5
<1>6. calls = [k \in N |-> [item |-> at(k), carries |-> Carried,
                            args |-> Text(at(k), items[at(k)].size)]]
  <2> HIDE DEF D, N, at
  <2>1. calls = [k \in N |-> calls[k]]
    BY <1>1 DEF CallsAgree, IsFcn
  <2>2. QED
    BY <1>5, <2>1
<1>7. QED
  BY <1>4, <1>6 DEF WholeCalls

LEMMA AgreeMeans ==
    ASSUME AdapterInv, AgreeInv
    PROVE  StreamAgreesWithWhole
<1>1. ASSUME over = "completed", Delivered
      PROVE  /\ ~ WholeFails /\ calls = WholeCalls
             /\ Among(content, Pieces("message")) = AllText("message")
             /\ style # "done" => Among(content, Pieces("reasoning")) = AllText("reasoning")
  <2>1. ~ Cut /\ ItemsAgree /\ Told /\ pending = <<>>
    BY <1>1 DEF AgreeInv, Cut, Delivered
  <2>2. TextAgrees(items, style, content) /\ CallsAgree(calls, toolIndex, Carried, toolArgs)
    BY <2>1, ToldNow
  <2>3. TypeOK
    BY DEF AdapterInv
  <2>4. \A r \in Indices("reasoning") : items[r].done
    BY <1>1 DEF AgreeInv, Indices
  <2>5. calls = WholeCalls
    BY <2>1, <2>2, <2>3, <2>4, CallsWhole
  <2>6. ~ WholeFails
    <3>1. items \in Seq(Item)
      BY <2>3 DEF TypeOK
    <3>2. Indices("call") \subseteq Nat /\ Indices("reasoning") \subseteq Nat
      BY <3>1 DEF Indices
    <3>3. QED
      BY <2>1, <3>2 DEF WholeFails, ItemsAgree, CallAgrees
  <2>7. QED
    BY <2>2, <2>5, <2>6, TextIs DEF TextAgrees
<1>2. over = "adapter" => WholeFails
  BY DEF AgreeInv
<1>3. QED
  BY <1>1, <1>2 DEF StreamAgreesWithWhole
-----------------------------------------------------------------------------
(* Text of items that change *)

LEMMA TextPlus ==
    ASSUME NEW i \in Nat, NEW n \in Nat
    PROVE  /\ Text(i, 0) = <<>>
           /\ <<i, n + 1>> \in Piece /\ <<<<i, n + 1>>>> \in Seq(Piece)
           /\ OfItem(<<<<i, n + 1>>>>, i) /\ OfItem(Text(i, n), i)
           /\ Text(i, n + 1) = Text(i, n) \o <<<<i, n + 1>>>>
<1>1. Text(i, 0) = <<>>
  BY TextFacts
<1>2. <<i, n + 1>> \in Piece /\ <<<<i, n + 1>>>> \in Seq(Piece) /\ n + 1 \in Nat
  BY DEF Piece
<1>3. OfItem(<<<<i, n + 1>>>>, i) /\ OfItem(Text(i, n), i)
  <2>1. OfItem(<<<<i, n + 1>>>>, i)
    BY DEF OfItem
  <2>2. OfItem(Text(i, n), i)
    BY DEF OfItem, Text
  <2>3. QED
    BY <2>1, <2>2
<1> DEFINE a == Text(i, n)
           b == <<<<i, n + 1>>>>
           c == Text(i, n + 1)
<1>4. /\ a \in Seq(Piece) /\ Len(a) = n /\ \A k \in 1 .. n : a[k] = <<i, k>>
      /\ c \in Seq(Piece) /\ Len(c) = n + 1 /\ \A k \in 1 .. n + 1 : c[k] = <<i, k>>
  BY <1>2, TextFacts
<1>5. b \in Seq(Piece) /\ Len(b) = 1 /\ b[1] = <<i, n + 1>>
  BY <1>2
<1> HIDE DEF a, b, c
<1>6. a \o b \in Seq(Piece) /\ Len(a \o b) = n + 1
  BY <1>4, <1>5, ConcatProperties, SMTT(60)
<1>7. ASSUME NEW k \in 1 .. n + 1 PROVE (a \o b)[k] = c[k]
  <2>1. (a \o b)[k] = IF k <= n THEN a[k] ELSE b[k - n]
    BY <1>4, <1>5, ConcatProperties
  <2>2. CASE k <= n
    <3>1. k \in 1 .. n
      BY <2>2
    <3>2. a[k] = <<i, k>> /\ c[k] = <<i, k>>
      BY <1>4, <3>1
    <3>3. QED
      BY <2>1, <2>2, <3>2
  <2>3. CASE k = n + 1
    <3>1. ~ (k <= n) /\ k - n = 1
      BY <2>3
    <3>2. c[k] = <<i, n + 1>>
      BY <1>4, <2>3
    <3>3. QED
      BY <1>5, <2>1, <3>1, <3>2
  <2>4. QED
    <3>1. k <= n \/ k = n + 1
      OBVIOUS
    <3>2. QED
      BY <2>2, <2>3, <3>1
<1>8. a \o b = c
  BY <1>4, <1>6, <1>7, SeqEqual
<1>9. QED
  BY <1>1, <1>2, <1>3, <1>8 DEF a, b, c

\* Item i becomes r.
Becomes(its, i, r, jts) ==
    /\ its \in Seq(Item) /\ jts \in Seq(Item) /\ i \in DOMAIN its /\ r \in Item
    /\ r.type = its[i].type /\ jts = [its EXCEPT ![i] = r]

LEMMA TextOfChange ==
    ASSUME NEW its, NEW i, NEW r, NEW jts, Becomes(its, i, r, jts), NEW type,
           r.type # type \/ r.size = its[i].size
    PROVE  TextOf(jts, type) = TextOf(its, type)
<1>1. /\ Len(jts) = Len(its) /\ DOMAIN jts = DOMAIN its
      /\ its \in Seq(Item) /\ jts \in Seq(Item) /\ i \in DOMAIN its
      /\ r.type = its[i].type /\ jts = [its EXCEPT ![i] = r]
  BY DEF Becomes
<1>2. ASSUME NEW k \in DOMAIN its PROVE Part(jts, type, k) = Part(its, type, k)
  <2>1. CASE k = i
    BY <1>1, <2>1 DEF Part
  <2>2. CASE k # i
    BY <1>1, <2>2 DEF Part
  <2>3. QED
    BY <2>1, <2>2
<1>3. QED
  BY <1>1, <1>2, TextSame

LEMMA TextOfLonger ==
    ASSUME NEW its, NEW i, NEW r, NEW jts, Becomes(its, i, r, jts), NEW type, i = Len(its),
           NEW more \in Seq(Piece), Text(i, r.size) = Text(i, its[i].size) \o more
    PROVE  TextGains(its, jts, type, Adds(jts, type, i, more))
<1>1. /\ Len(jts) = Len(its) /\ DOMAIN jts = DOMAIN its /\ jts[i] = r /\ its # <<>>
      /\ its \in Seq(Item) /\ jts \in Seq(Item) /\ i \in DOMAIN its
      /\ r.type = its[i].type /\ jts = [its EXCEPT ![i] = r]
  BY DEF Becomes
<1>2. CASE r.type # type
  <2>1. TextOf(jts, type) = TextOf(its, type)
    BY <1>2, TextOfChange
  <2>2. Adds(jts, type, i, more) = <<>>
    BY <1>1, <1>2 DEF Adds
  <2>3. TextOf(its, type) \in Seq(Piece)
    BY <1>1, PartsFacts
  <2>4. QED
    BY <2>1, <2>2, <2>3, ConcatEmptySeq DEF TextGains
<1>3. CASE r.type = type
  <2>1. Adds(jts, type, i, more) = more
    BY <1>1, <1>3 DEF Adds
  <2>2. ASSUME NEW k \in 1 .. Len(its) - 1 PROVE Part(jts, type, k) = Part(its, type, k)
    <3>1. k \in DOMAIN its /\ k # i
      BY <1>1
    <3>2. jts[k] = its[k]
      BY <1>1, <3>1
    <3>3. QED
      BY <3>2 DEF Part
  <2>3. LastGains(its, jts, type, more)
    BY <1>1, <1>3 DEF Part, LastGains
  <2>4. SameBefore(its, jts, type)
    BY <2>2 DEF SameBefore
  <2>5. TextGains(its, jts, type, more)
    BY <1>1, <2>3, <2>4, TextGrows
  <2>6. QED
    BY <2>1, <2>5 DEF TextGains
<1>4. QED
  BY <1>2, <1>3

LEMMA TextOfNew ==
    ASSUME NEW its \in Seq(Item), NEW jts \in Seq(Item), NEW type, Len(jts) = Len(its) + 1,
           \A k \in DOMAIN its : jts[k] = its[k],
           jts[Len(its) + 1].type # type \/ jts[Len(its) + 1].size = 0
    PROVE  TextOf(jts, type) = TextOf(its, type)
<1>1. Len(jts) \in Nat /\ Len(jts) = Len(its) + 1
  OBVIOUS
<1>2. Part(jts, type, Len(jts)) = <<>>
  BY <1>1, TextPlus DEF Part
<1>3. QED
  BY <1>2, TextNew
-----------------------------------------------------------------------------
(* Items that change *)

\* Without calls it does not matter what they would carry.
LEMMA NoCalls ==
    ASSUME NEW f, NEW carried, NEW args, CallsAgree(f, Empty, carried, args),
           NEW carrying, NEW more
    PROVE  CallsAgree(f, Empty, carrying, more)
BY DEF CallsAgree, Empty

LEMMA NoCallsSeen ==
    ASSUME TypeOK, ItemsAgree, ~ ToolCallsSeen
    PROVE  toolIndex = Empty /\ DOMAIN toolIndex = {} /\ Indices("call") = {}
<1>1. toolIndex = Empty
  BY DEF ToolCallsSeen
<1>2. DOMAIN toolIndex = {}
  BY <1>1 DEF Empty
<1>3. QED
  BY <1>1, <1>2 DEF ItemsAgree

LEMMA SomeCallSeen ==
    ASSUME TypeOK, ItemsAgree, ToolCallsSeen
    PROVE  \E c : c \in Indices("call") /\ c \in DOMAIN items
<1>1. DOMAIN toolIndex # {}
  <2>1. SUFFICES ASSUME DOMAIN toolIndex = {} PROVE FALSE
    OBVIOUS
  <2>2. toolIndex = [x \in {} |-> toolIndex[x]]
    BY <2>1 DEF ItemsAgree, IsFcn
  <2>3. toolIndex = Empty
    BY <2>2 DEF Empty
  <2>4. QED
    BY <2>3 DEF ToolCallsSeen
<1>2. QED
  BY <1>1 DEF ItemsAgree, Indices

\* An item that changes stays where and of what type it is.
LEMMA IndicesStay ==
    ASSUME TypeOK, NEW i \in DOMAIN items, NEW r \in Item, r.type = items[i].type,
           items' = [items EXCEPT ![i] = r]
    PROVE  /\ items' \in Seq(Item) /\ Len(items') = Len(items) /\ DOMAIN items' = DOMAIN items
           /\ items'[i] = r /\ \A j \in DOMAIN items \ {i} : items'[j] = items[j]
           /\ \A type : Indices(type)' = Indices(type)
<1>1. items \in Seq(Item)
  BY DEF TypeOK
<1>2. /\ items' \in Seq(Item) /\ Len(items') = Len(items) /\ DOMAIN items' = DOMAIN items
      /\ items'[i] = r /\ \A j \in DOMAIN items \ {i} : items'[j] = items[j]
  BY <1>1
<1>3. \A j \in DOMAIN items : items'[j].type = items[j].type
  BY <1>2
<1>4. ASSUME NEW type PROVE Indices(type)' = Indices(type)
  BY <1>2, <1>3 DEF Indices
<1>5. QED
  BY <1>2, <1>4

LEMMA LastStays ==
    ASSUME TypeOK, OpenIsLast, NEW i \in DOMAIN items, NEW r \in Item, r.type = items[i].type,
           items' = [items EXCEPT ![i] = r], items[i].done => r.done
    PROVE  OpenIsLast'
<1>1. /\ Len(items') = Len(items) /\ DOMAIN items' = DOMAIN items
      /\ items'[i] = r /\ \A j \in DOMAIN items \ {i} : items'[j] = items[j]
  BY IndicesStay
<1>2. ASSUME NEW j \in DOMAIN items', items'[j].type \in {"message", "reasoning"}, ~ items'[j].done
      PROVE  j = Len(items')
  <2>1. CASE j = i
    BY <1>1, <1>2, <2>1 DEF OpenIsLast
  <2>2. CASE j # i
    BY <1>1, <1>2, <2>2 DEF OpenIsLast
  <2>3. QED
    BY <2>1, <2>2
<1>3. QED
  BY <1>2 DEF OpenIsLast

LEMMA MessageChanges ==
    ASSUME TypeOK, ItemsAgree, NEW i \in DOMAIN items, NEW r \in Item, r.type = items[i].type,
           items' = [items EXCEPT ![i] = r], items[i].done => r.done, items[i].type = "message",
           UNCHANGED <<style, capsule, reasoning, summaryStreamed, toolIndex, toolArgs>>
    PROVE  ItemsAgree'
<1>1. /\ DOMAIN items' = DOMAIN items
      /\ \A j \in DOMAIN items \ {i} : items'[j] = items[j]
      /\ \A type : Indices(type)' = Indices(type)
  BY IndicesStay
<1>2. OpenIsLast'
  BY LastStays DEF ItemsAgree
<1>3. ASSUME NEW j \in Indices("reasoning") \cup Indices("call")
      PROVE  j \in DOMAIN items /\ items'[j] = items[j]
  BY <1>1, <1>3 DEF Indices
<1>4. \A q \in Indices("reasoning") : ThoughtAgrees(q)'
  BY <1>3 DEF ItemsAgree, ThoughtAgrees
<1>5. ASSUME NEW c \in Indices("call") PROVE CallAgrees(c)'
  <2>1. CallAgrees(c)
    BY <1>5 DEF ItemsAgree
  <2>2. QED
    BY <1>1, <1>3, <2>1 DEF CallAgrees
<1>6. QED
  BY <1>1, <1>2, <1>4, <1>5 DEF ItemsAgree

LEMMA ThoughtChanges ==
    ASSUME TypeOK, ItemsAgree, ~ ToolCallsSeen, NEW i \in DOMAIN items,
           NEW r \in Item, r.type = items[i].type,
           items' = [items EXCEPT ![i] = r], items[i].done => r.done, items[i].type = "reasoning",
           UNCHANGED <<style, capsule, toolIndex, toolArgs>>,
           IsFcn(reasoning)', DOMAIN reasoning' = DOMAIN reasoning,
           \A j \in DOMAIN reasoning \ {i} : reasoning'[j] = reasoning[j],
           summaryStreamed' = summaryStreamed \/ (style = "deltas" /\ summaryStreamed' = TRUE),
           ThoughtAgrees(i)'
    PROVE  ItemsAgree'
<1>1. /\ DOMAIN items' = DOMAIN items
      /\ \A j \in DOMAIN items \ {i} : items'[j] = items[j]
      /\ \A type : Indices(type)' = Indices(type)
  BY IndicesStay
<1>2. OpenIsLast'
  BY LastStays DEF ItemsAgree
<1>3. ASSUME NEW q \in Indices("reasoning") PROVE ThoughtAgrees(q)'
  <2>1. CASE q = i
    BY <2>1
  <2>2. CASE q # i
    <3>1. q \in DOMAIN items /\ items'[q] = items[q]
      BY <1>1, <1>3, <2>2 DEF Indices
    <3>2. q \in DOMAIN reasoning /\ reasoning'[q] = reasoning[q]
      BY <1>3, <2>2 DEF ItemsAgree
    <3>3. ThoughtAgrees(q)
      BY <1>3 DEF ItemsAgree
    <3>4. CASE summaryStreamed' = summaryStreamed
      BY <3>1, <3>2, <3>3, <3>4 DEF ThoughtAgrees
    <3>5. CASE style = "deltas" /\ summaryStreamed' = TRUE
      BY <3>1, <3>2, <3>3, <3>5 DEF ThoughtAgrees
    <3>6. QED
      BY <3>4, <3>5
  <2>3. QED
    BY <2>1, <2>2
<1>4. Indices("call") = {}
  BY NoCallsSeen
<1>5. QED
  BY <1>1, <1>2, <1>3, <1>4 DEF ItemsAgree

LEMMA CallChanges ==
    ASSUME TypeOK, ItemsAgree, NEW i \in DOMAIN items, NEW r \in Item, r.type = items[i].type,
           items' = [items EXCEPT ![i] = r], items[i].done => r.done, items[i].type = "call",
           UNCHANGED <<style, capsule, reasoning, summaryStreamed>>,
           IsFcn(toolIndex)', DOMAIN toolIndex' = DOMAIN toolIndex,
           toolArgs'[i] = Text(i, r.size),
           \A j \in DOMAIN toolIndex \ {i} : toolArgs'[j] = toolArgs[j]
    PROVE  ItemsAgree'
<1>1. /\ DOMAIN items' = DOMAIN items /\ items'[i] = r
      /\ \A j \in DOMAIN items \ {i} : items'[j] = items[j]
      /\ \A type : Indices(type)' = Indices(type)
  BY IndicesStay
<1>2. OpenIsLast'
  BY LastStays DEF ItemsAgree
<1>3. ASSUME NEW q \in Indices("reasoning") PROVE q \in DOMAIN items /\ items'[q] = items[q]
  BY <1>1, <1>3 DEF Indices
<1>4. \A q \in Indices("reasoning") : ThoughtAgrees(q)'
  BY <1>3 DEF ItemsAgree, ThoughtAgrees
<1>5. ASSUME NEW c \in Indices("call") PROVE CallAgrees(c)'
  <2>1. CallAgrees(c) /\ c \in DOMAIN toolIndex /\ c \in DOMAIN items
    BY <1>5 DEF ItemsAgree, Indices
  <2>2. toolArgs'[c] = Text(c, items'[c].size)
    <3>1. CASE c = i
      BY <1>1, <3>1
    <3>2. CASE c # i
      BY <1>1, <2>1, <3>2 DEF CallAgrees
    <3>3. QED
      BY <3>1, <3>2
  <2>3. \A q \in Indices("reasoning") :
           q < c /\ capsule' = "on" /\ items'[q].sealed /\ items'[q].done
    BY <1>3, <2>1 DEF CallAgrees
  <2>4. QED
    BY <1>1, <2>2, <2>3 DEF CallAgrees
<1>6. QED
  BY <1>1, <1>2, <1>4, <1>5 DEF ItemsAgree

LEMMA NewItemStays ==
    ASSUME TypeOK, NEW type \in Types, NEW sealed \in BOOLEAN,
           NEW size \in Nat, NEW done \in BOOLEAN, NewItem(type, sealed, size, done)
    PROVE  /\ items' \in Seq(Item) /\ Len(items') = Len(items) + 1
           /\ items'[Len(items) + 1].sealed = sealed /\ ~ items'[Len(items) + 1].partOpen
           /\ Indices(type)' = Indices(type) \cup {Len(items) + 1}
           /\ \A other : other # type => Indices(other)' = Indices(other)
           /\ OpenIsLast'
<1> DEFINE n == Len(items) + 1
           it == [type |-> type, size |-> size, parts |-> 0, partOpen |-> FALSE,
                  sealed |-> sealed, done |-> done]
<1>1. /\ items \in Seq(Item) /\ Len(items) \in Nat /\ it \in Item
      /\ items' = Append(items, it) /\ Closed
  BY DEF TypeOK, NewItem, Item
<1>2. /\ items' \in Seq(Item) /\ Len(items') = n /\ items'[n] = it
      /\ DOMAIN items' = 1 .. n /\ DOMAIN items = 1 .. Len(items)
      /\ \A j \in DOMAIN items : items'[j] = items[j]
  BY <1>1, AppendProperties, LenProperties
<1>3. it.sealed = sealed /\ ~ it.partOpen /\ it.type = type
  OBVIOUS
<1>4. n \in Nat /\ n \notin DOMAIN items /\ DOMAIN items' = DOMAIN items \cup {n}
  BY <1>1, <1>2
<1> HIDE DEF n, it
<1>5. Indices(type)' = Indices(type) \cup {n}
  BY <1>2, <1>3, <1>4 DEF Indices
<1>6. ASSUME NEW other, other # type PROVE Indices(other)' = Indices(other)
  BY <1>2, <1>3, <1>4, <1>6 DEF Indices
<1>7. OpenIsLast'
  <2>1. ASSUME NEW j \in DOMAIN items', items'[j].type \in {"message", "reasoning"},
               ~ items'[j].done
        PROVE  j = Len(items')
    <3>1. CASE j \in DOMAIN items
      BY <1>1, <1>2, <2>1, <3>1 DEF Closed
    <3>2. CASE j = n
      BY <1>2, <3>2
    <3>3. QED
      BY <1>4, <3>1, <3>2
  <2>2. QED
    BY <2>1 DEF OpenIsLast
<1>8. QED
  BY <1>2, <1>3, <1>5, <1>6, <1>7 DEF n

LEMMA SilentItem ==
    ASSUME TypeOK, ItemsAgree, NEW type \in {"message", "inert"}, NEW done \in BOOLEAN,
           NewItem(type, FALSE, 0, done), UNCHANGED machine, UNCHANGED capsule
    PROVE  ItemsAgree'
<1>1. type \in Types /\ type \notin {"foreign", "call", "reasoning"}
  BY DEF Types
<1>2. OpenIsLast' /\ \A other : other # type => Indices(other)' = Indices(other)
  BY <1>1, NewItemStays
<1>3. style' = style /\ \A j \in DOMAIN items : items'[j] = items[j]
  BY <1>1, NewItemFacts
<1>4. /\ Indices("foreign")' = Indices("foreign") /\ Indices("call")' = Indices("call")
      /\ Indices("reasoning")' = Indices("reasoning")
  BY <1>1, <1>2
<1>5. /\ \A j \in Indices("reasoning") : j \in DOMAIN items /\ items'[j] = items[j]
      /\ \A j \in Indices("call") : j \in DOMAIN items /\ items'[j] = items[j]
  BY <1>3 DEF Indices
<1>6. ASSUME NEW q \in Indices("reasoning") PROVE ThoughtAgrees(q)'
  <2>1. ThoughtAgrees(q)
    BY <1>6 DEF ItemsAgree
  <2>2. QED
    BY <1>3, <1>5, <2>1 DEF ThoughtAgrees, machine
<1>7. ASSUME NEW c \in Indices("call") PROVE CallAgrees(c)'
  <2>1. CallAgrees(c)
    BY <1>7 DEF ItemsAgree
  <2>2. QED
    BY <1>4, <1>5, <2>1 DEF CallAgrees, machine
<1>8. (summaryStreamed => style = "deltas")' /\ IsFcn(toolIndex)' /\ IsFcn(reasoning)'
  BY <1>3 DEF ItemsAgree, machine
<1>9. QED
  BY <1>2, <1>4, <1>6, <1>7, <1>8 DEF ItemsAgree, machine

\* An item that is new has no text yet.
LEMMA TextOfNewItem ==
    ASSUME TypeOK, NEW type \in Types, NEW sealed \in BOOLEAN,
           NEW size \in Nat, NEW done \in BOOLEAN, NewItem(type, sealed, size, done),
           size = 0 \/ type \notin {"message", "reasoning"},
           NEW text, TextAgrees(items, style, text), NEW tag \in Tags
    PROVE  TextAgrees(items', style', text \o tag)
<1>1. /\ items' \in Seq(Item) /\ Len(items') = Len(items) + 1
      /\ items \in Seq(Item) /\ Len(items) <= Len(items')
      /\ \A j \in DOMAIN items : items'[j] = items[j]
      /\ items'[Len(items) + 1].type = type /\ items'[Len(items) + 1].size = size
      /\ style' = style
  BY NewItemStays, NewItemFacts DEF TypeOK
<1>2. \A j \in DOMAIN items : items'[j].type = items[j].type
  BY <1>1
<1>3. \A k \in {"message", "reasoning"} : TextOf(items', k) = TextOf(items, k)
  BY <1>1, TextOfNew
<1>4. TextAgrees(items', style, text \o tag)
  BY <1>1, <1>2, <1>3, TextAgreesStill
<1>5. QED
  BY <1>1, <1>4

LEMMA NothingShown ==
    ASSUME NEW T, NEW text \in Seq(T)
    PROVE  <<>> \in Tags /\ text \o <<>> = text
BY ConcatEmptySeq DEF Tags

LEMMA MessageAddedAgrees ==
    ASSUME AdapterInv, AgreeInv, MessageAdded
    PROVE  AgreeInv'
<1>1. /\ NewItem("message", FALSE, 0, FALSE) /\ Yields(<<>>) /\ UNCHANGED machine
      /\ Receiving /\ UNCHANGED capsule /\ TypeOK
  BY DEF MessageAdded, NewItem, Yields, AdapterInv
<1>2. /\ ItemsAgree /\ content \in Seq(Piece) /\ TextAgrees(items, style, content)
      /\ CallsAgree(calls, toolIndex, Carried, toolArgs)
  BY <1>1, ReceivingAgree
<1>3. ItemsAgree'
  BY <1>1, <1>2, SilentItem
<1>4. TextAgrees(items', style', content)
  <2>1. <<>> \in Tags /\ content \o <<>> = content
    BY <1>2, NothingShown
  <2>2. TextAgrees(items', style', content \o <<>>)
    BY <1>1, <1>2, <2>1, TextOfNewItem DEF Types
  <2>3. QED
    BY <2>1, <2>2
<1>5. Carried' = Carried /\ toolIndex' = toolIndex /\ toolArgs' = toolArgs
  BY <1>1 DEF Carried, machine
<1>6. QED
  BY <1>1, <1>2, <1>3, <1>4, <1>5, TurnsEmpty, YieldAgrees

LEMMA OtherItemAgrees ==
    ASSUME AdapterInv, AgreeInv, OtherItem
    PROVE  AgreeInv'
<1>1. UNCHANGED machine /\ TypeOK
  BY DEF OtherItem, AdapterInv
<1>2. CASE NewItem("inert", FALSE, 0, TRUE) /\ Yields(<<>>)
  <2>1. Receiving /\ UNCHANGED capsule
    BY <1>2 DEF NewItem, Yields
  <2>2. /\ ItemsAgree /\ content \in Seq(Piece) /\ TextAgrees(items, style, content)
        /\ CallsAgree(calls, toolIndex, Carried, toolArgs)
    BY <2>1, ReceivingAgree
  <2>3. ItemsAgree'
    BY <1>1, <1>2, <2>1, <2>2, SilentItem
  <2>4. TextAgrees(items', style', content)
    <3>1. <<>> \in Tags /\ content \o <<>> = content
      BY <2>2, NothingShown
    <3>2. TextAgrees(items', style', content \o <<>>)
      BY <1>1, <1>2, <2>2, <3>1, TextOfNewItem DEF Types
    <3>3. QED
      BY <3>1, <3>2
  <2>5. Carried' = Carried /\ toolIndex' = toolIndex /\ toolArgs' = toolArgs
    BY <1>1 DEF Carried, machine
  <2>6. QED
    BY <1>2, <2>1, <2>2, <2>3, <2>4, <2>5, TurnsEmpty, YieldAgrees
<1>3. CASE NewItem("foreign", FALSE, 0, TRUE) /\ Fails("adapter")
  <2>1. Indices("foreign")' # {}
    BY <1>1, <1>3, NewItemStays DEF Types
  <2>2. WholeFails'
    BY <2>1 DEF WholeFails
  <2>3. QED
    BY <1>3, <2>2, FailAgrees
<1>4. QED
  BY <1>2, <1>3 DEF OtherItem

LEMMA ReasoningAddedAgrees ==
    ASSUME AdapterInv, AgreeInv, ReasoningAdded
    PROVE  AgreeInv'
<1> DEFINE n == Len(items) + 1
<1>1. PICK sealed \in BOOLEAN :
         /\ NewItem("reasoning", sealed, 0, FALSE)
         /\ IF ToolCallsSeen
            THEN Fails("adapter") /\ UNCHANGED machine
            ELSE /\ reasoning' = Stored(n, sealed, 0)
                 /\ Yields(<<>>)
                 /\ UNCHANGED <<summaryStreamed, thinkOpen, toolIndex, toolArgs>>
  BY DEF ReasoningAdded
<1>2. TypeOK /\ Receiving /\ "reasoning" \in Types
  BY <1>1 DEF NewItem, AdapterInv, Types
<1>3. /\ ItemsAgree /\ content \in Seq(Piece) /\ TextAgrees(items, style, content)
      /\ CallsAgree(calls, toolIndex, Carried, toolArgs)
  BY <1>2, ReceivingAgree
<1>4. /\ OpenIsLast' /\ Indices("reasoning")' = Indices("reasoning") \cup {n}
      /\ Indices("call")' = Indices("call") /\ Indices("foreign")' = Indices("foreign")
      /\ items'[n].sealed = sealed /\ ~ items'[n].partOpen
  <2>1. \A other : other # "reasoning" => Indices(other)' = Indices(other)
    BY <1>1, <1>2, NewItemStays
  <2>2. QED
    BY <1>1, <1>2, <2>1, NewItemStays
<1>5. /\ style' = style /\ n \in Nat /\ n \notin DOMAIN items
      /\ items'[n].type = "reasoning" /\ items'[n].done = FALSE /\ items'[n].size = 0
      /\ \A j \in DOMAIN items : items'[j] = items[j]
      /\ \A j \in DOMAIN items : j \in Nat /\ j < n
  <2>1. /\ style' = style /\ n \notin DOMAIN items
        /\ items'[n].type = "reasoning" /\ items'[n].done = FALSE /\ items'[n].size = 0
        /\ \A j \in DOMAIN items : items'[j] = items[j]
    BY <1>1, <1>2, NewItemFacts
  <2>2. items \in Seq(Item)
    BY <1>2 DEF TypeOK
  <2>3. n \in Nat /\ \A j \in DOMAIN items : j \in Nat /\ j < n
    BY <2>2
  <2>4. QED
    BY <2>1, <2>3
<1> HIDE DEF n
<1>6. CASE ToolCallsSeen
  <2>1. PICK c : c \in Indices("call") /\ c \in DOMAIN items
    BY <1>2, <1>3, <1>6, SomeCallSeen
  <2>2. c \in Indices("call")' /\ n \in Indices("reasoning")' /\ c < n
    BY <1>4, <1>5, <2>1
  <2>3. WholeFails'
    BY <2>2 DEF WholeFails
  <2>4. QED
    BY <1>1, <1>6, <2>3, FailAgrees
<1>7. CASE ~ ToolCallsSeen
  <2>1. /\ reasoning' = Stored(n, sealed, 0) /\ Yields(<<>>)
        /\ UNCHANGED <<summaryStreamed, thinkOpen, toolIndex, toolArgs>>
    BY <1>1, <1>7
  <2>2. toolIndex = Empty /\ Indices("call") = {}
    BY <1>2, <1>3, <1>7, NoCallsSeen
  <2>3. n \notin DOMAIN reasoning /\ DOMAIN reasoning = Indices("reasoning")
    BY <1>2, <1>3, <1>5 DEF TypeOK, ItemsAgree
  <2>4. /\ DOMAIN reasoning' = DOMAIN reasoning \cup {n}
        /\ reasoning'[n] = [sealed |-> sealed, size |-> 0]
        /\ \A j \in DOMAIN reasoning : reasoning'[j] = reasoning[j]
        /\ IsFcn(reasoning)'
    <3>1. reasoning' = With(reasoning, n, [sealed |-> sealed, size |-> 0])
      BY <2>1, <2>3 DEF Stored
    <3>2. QED
      BY <2>3, <3>1 DEF With, IsFcn
  <2>5. ASSUME NEW q \in Indices("reasoning")' PROVE ThoughtAgrees(q)'
    <3>1. CASE q = n
      BY <1>4, <1>5, <2>4, <3>1 DEF ThoughtAgrees
    <3>2. CASE q # n
      <4>1. q \in Indices("reasoning") /\ q \in DOMAIN items /\ q \in DOMAIN reasoning
        BY <1>4, <2>3, <3>2 DEF Indices
      <4>2. ThoughtAgrees(q)
        BY <1>3, <4>1 DEF ItemsAgree
      <4>3. QED
        BY <1>5, <2>1, <2>4, <4>1, <4>2 DEF ThoughtAgrees
    <3>3. QED
      BY <3>1, <3>2
  <2>6. ItemsAgree'
    <3>1. \A c \in Indices("call")' : CallAgrees(c)'
      BY <1>4, <2>2
    <3>2. DOMAIN toolIndex' = Indices("call")' /\ IsFcn(toolIndex)'
      BY <1>3, <1>4, <2>1 DEF ItemsAgree
    <3>3. Indices("foreign")' = {} /\ (summaryStreamed => style = "deltas")'
      BY <1>3, <1>4, <1>5, <2>1 DEF ItemsAgree
    <3>4. DOMAIN reasoning' = Indices("reasoning")' /\ IsFcn(reasoning)'
      BY <1>4, <2>3, <2>4
    <3>5. QED
      BY <1>4, <2>5, <3>1, <3>2, <3>3, <3>4 DEF ItemsAgree
  <2>7. TextAgrees(items', style', content)
    <3>1. <<>> \in Tags /\ content \o <<>> = content
      BY <1>3, NothingShown
    <3>2. TextAgrees(items', style', content \o <<>>)
      BY <1>1, <1>2, <1>3, <3>1, TextOfNewItem
    <3>3. QED
      BY <3>1, <3>2
  <2>8. CallsAgree(calls, toolIndex', Carried', toolArgs')
    BY <1>3, <2>1, <2>2, NoCalls
  <2>9. QED
    BY <1>2, <2>1, <2>6, <2>7, <2>8, TurnsEmpty, YieldAgrees
<1>8. QED
  BY <1>6, <1>7

\* What an open item gains is shown,
LEMMA ItemShown ==
    ASSUME TypeOK, ItemsAgree, NEW i \in DOMAIN items,
           items[i].type \in {"message", "reasoning"}, ~ items[i].done,
           NEW r \in Item, r.type = items[i].type,
           items' = [items EXCEPT ![i] = r], style' = style,
           NEW text, TextAgrees(items, style, text),
           NEW z \in Seq(Piece), OfItem(z, i), NEW pre \in Tags, NEW post \in Tags,
           items[i].type = "message" \/ style # "done" =>
              Text(i, r.size) = Text(i, items[i].size) \o z
    PROVE  TextAgrees(items', style', text \o (pre \o z \o post))
<1>1. /\ items \in Seq(Item) /\ items' \in Seq(Item) /\ Len(items') = Len(items)
      /\ DOMAIN items' = DOMAIN items /\ Len(items) <= Len(items')
      /\ \A k \in DOMAIN items : items'[k].type = items[k].type
      /\ items'[i] = r /\ i = Len(items)
  BY IndicesStay DEF TypeOK, ItemsAgree, OpenIsLast
<1>2. Becomes(items, i, r, items')
  BY <1>1 DEF Becomes
<1>3. ASSUME NEW type \in {"message", "reasoning"}, type = "message" \/ style # "done"
      PROVE  TextOf(items', type) = TextOf(items, type) \o Adds(items', type, i, z)
  <2>1. CASE items[i].type = "message" \/ style # "done"
    <3>1. TextGains(items, items', type, Adds(items', type, i, z))
      BY <1>1, <1>2, <2>1, TextOfLonger
    <3>2. QED
      BY <3>1 DEF TextGains
  <2>2. CASE ~ (items[i].type = "message" \/ style # "done")
    <3>1. r.type # type
      BY <1>3, <2>2
    <3>2. TextOf(items', type) = TextOf(items, type)
      BY <1>2, <3>1, TextOfChange
    <3>3. Adds(items', type, i, z) = <<>>
      BY <1>1, <3>1 DEF Adds
    <3>4. TextOf(items, type) \in Seq(Piece)
      BY <1>1, PartsFacts
    <3>5. QED
      BY <3>2, <3>3, <3>4, ConcatEmptySeq
  <2>3. QED
    BY <2>1, <2>2
<1>4. i \in DOMAIN items'
  BY <1>1
<1>5. TextAgrees(items', style, text \o (pre \o z \o post))
  <2>1. \A type \in {"message", "reasoning"} :
           type = "message" \/ style # "done" =>
              TextOf(items', type) = TextOf(items, type) \o Adds(items', type, i, z)
    BY <1>3
  <2>2. PICK its \in Seq(Item), jts \in Seq(Item) : its = items /\ jts = items'
    BY <1>1
  <2>3. /\ Len(its) <= Len(jts) /\ i \in DOMAIN jts
        /\ \A k \in DOMAIN its : jts[k].type = its[k].type
    BY <1>1, <1>4, <2>2
  <2>4. /\ TextAgrees(its, style, text)
        /\ \A type \in {"message", "reasoning"} :
              type = "message" \/ style # "done" =>
                 TextOf(jts, type) = TextOf(its, type) \o Adds(jts, type, i, z)
    BY <2>1, <2>2
  <2>5. TextAgrees(jts, style, text \o (pre \o z \o post))
    BY <2>3, <2>4, TextAgreesNext
  <2>6. QED
    BY <2>2, <2>5
<1>6. QED
  BY <1>5

\* and an item that gains nothing, or what need not be shown, leaves it at tags.
LEMMA ItemQuiet ==
    ASSUME TypeOK, NEW i \in DOMAIN items,
           NEW r \in Item, r.type = items[i].type,
           items' = [items EXCEPT ![i] = r], style' = style,
           NEW text, TextAgrees(items, style, text), NEW tag \in Tags,
           r.size = items[i].size \/ r.type \notin {"message", "reasoning"}
    PROVE  TextAgrees(items', style', text \o tag)
<1>1. /\ items \in Seq(Item) /\ items' \in Seq(Item) /\ Len(items') = Len(items)
      /\ Len(items) <= Len(items')
      /\ \A k \in DOMAIN items : items'[k].type = items[k].type
  BY IndicesStay DEF TypeOK
<1>2. Becomes(items, i, r, items')
  BY <1>1 DEF Becomes
<1>3. \A type \in {"message", "reasoning"} : TextOf(items', type) = TextOf(items, type)
  BY <1>2, TextOfChange
<1>4. TextAgrees(items', style, text \o tag)
  BY <1>1, <1>3, TextAgreesStill
<1>5. QED
  BY <1>4

LEMMA MessageDoneAgrees ==
    ASSUME AdapterInv, AgreeInv, NEW i \in DOMAIN items, MessageDone(i)
    PROVE  AgreeInv'
<1> DEFINE r == [items[i] EXCEPT !.done = TRUE]
<1>1. /\ Receiving /\ items[i].type = "message" /\ Yields(<<>>) /\ TypeOK
      /\ UNCHANGED machine /\ style' = style /\ UNCHANGED capsule
  BY DEF MessageDone, OpenItem, AdapterInv, Yields
<1>2. items[i] \in Item
  BY <1>1 DEF TypeOK
<1>3. r \in Item /\ r.type = items[i].type /\ r.done /\ r.size = items[i].size
  BY <1>2 DEF Item
<1>4. items' = [items EXCEPT ![i] = r]
  BY DEF MessageDone
<1> HIDE DEF r
<1>5. /\ ItemsAgree /\ content \in Seq(Piece) /\ TextAgrees(items, style, content)
      /\ CallsAgree(calls, toolIndex, Carried, toolArgs)
  BY <1>1, ReceivingAgree
<1>6. ItemsAgree'
  BY <1>1, <1>3, <1>4, <1>5, MessageChanges DEF machine
<1>7. TextAgrees(items', style', content)
  <2>1. <<>> \in Tags /\ content \o <<>> = content
    BY <1>5, NothingShown
  <2>2. TextAgrees(items', style', content \o <<>>)
    BY <1>1, <1>3, <1>4, <1>5, <2>1, ItemQuiet
  <2>3. QED
    BY <2>1, <2>2
<1>8. Carried' = Carried /\ toolIndex' = toolIndex /\ toolArgs' = toolArgs
  BY <1>1 DEF Carried, machine
<1>9. QED
  BY <1>1, <1>5, <1>6, <1>7, <1>8, TurnsEmpty, YieldAgrees

\* A piece in tags or not.
LEMMA Tagged ==
    ASSUME NEW p \in Piece
    PROVE  /\ <<p>> = <<>> \o <<p>> \o <<>> /\ <<Open, p>> = <<Open>> \o <<p>> \o <<>>
           /\ <<Open, p, Close>> = <<Open>> \o <<p>> \o <<Close>>
           /\ <<>> \in Tags /\ <<Open>> \in Tags /\ <<Close>> \in Tags
           /\ <<p>> \in Seq(Piece) /\ <<Open, p>> \in Seq(Piece) /\ <<Open, p, Close>> \in Seq(Piece)
<1>1. Open \in Piece /\ Close \in Piece
  BY DEF Open, Close, Piece
<1>2. <<p>> \in Seq(Piece) /\ <<Open, p>> \in Seq(Piece) /\ <<Open, p, Close>> \in Seq(Piece)
  BY <1>1
<1>3. <<p>> = <<>> \o <<p>> \o <<>>
  BY <1>2, ConcatEmptySeq
<1>4. <<Open, p>> = <<Open>> \o <<p>> \o <<>>
  BY <1>2, ConcatEmptySeq
<1>5. <<Open, p, Close>> = <<Open>> \o <<p>> \o <<Close>>
  <2>1. <<Open>> \in Seq(Piece) /\ <<Close>> \in Seq(Piece)
    BY <1>1
  <2>2. <<Open>> \o <<p>> = <<Open, p>>
    <3> DEFINE s == <<Open>> \o <<p>>
               t == <<Open, p>>
    <3>1. s \in Seq(Piece) /\ t \in Seq(Piece) /\ Len(s) = 2 /\ Len(t) = 2
      BY <1>2, <2>1
    <3>2. s[1] = Open /\ s[2] = p
      BY <1>2, <2>1
    <3>3. t[1] = Open /\ t[2] = p
      OBVIOUS
    <3> HIDE DEF s, t
    <3>4. \A k \in 1 .. 2 : s[k] = t[k]
      BY <3>2, <3>3
    <3>5. s = t
      BY <3>1, <3>4, SeqEqual
    <3>6. QED
      BY <3>5 DEF s, t
  <2>3. <<Open, p>> \o <<Close>> = <<Open, p, Close>>
    <3> DEFINE s == <<Open, p>> \o <<Close>>
               t == <<Open, p, Close>>
    <3>1. s \in Seq(Piece) /\ t \in Seq(Piece) /\ Len(s) = 3 /\ Len(t) = 3
      BY <1>2, <2>1
    <3>2. s[1] = Open /\ s[2] = p /\ s[3] = Close
      BY <1>2, <2>1
    <3>3. t[1] = Open /\ t[2] = p /\ t[3] = Close
      OBVIOUS
    <3> HIDE DEF s, t
    <3>4. \A k \in 1 .. 3 : s[k] = t[k]
      BY <3>2, <3>3
    <3>5. s = t
      BY <3>1, <3>4, SeqEqual
    <3>6. QED
      BY <3>5 DEF s, t
  <2>4. QED
    BY <2>2, <2>3
<1>6. QED
  BY <1>2, <1>3, <1>4, <1>5 DEF Tags

LEMMA SummaryDeltaAgrees ==
    ASSUME AdapterInv, AgreeInv, NEW i \in DOMAIN items, SummaryDelta(i)
    PROVE  AgreeInv'
<1> DEFINE r == [items[i] EXCEPT !.size = @ + 1, !.partOpen = TRUE,
                   !.parts = IF items[i].partOpen THEN @ ELSE @ + 1]
           piece == <<i, items[i].size + 1>>
           text == IF thinkOpen THEN <<piece>> ELSE <<Open, piece>>
           pre == IF thinkOpen THEN <<>> ELSE <<Open>>
<1>1. /\ OpenItem(i, "reasoning") /\ Receiving /\ items[i].type = "reasoning" /\ ~ items[i].done
      /\ items' = [items EXCEPT ![i] = r] /\ style' = style /\ style = "deltas"
      /\ Yields(<<ContentChunk(text)>>) /\ summaryStreamed' = TRUE /\ TypeOK
      /\ UNCHANGED <<reasoning, toolIndex, toolArgs>> /\ UNCHANGED capsule
  BY DEF SummaryDelta, OpenItem, AdapterInv, Yields
<1>2. items[i] \in Item /\ items[i].size \in Nat /\ i \in Nat
  <2>1. items[i] \in Item /\ i \in Nat
    BY <1>1 DEF TypeOK
  <2>2. QED
    BY <2>1, LongerItem
<1>3. /\ r \in Item /\ r.type = items[i].type /\ r.done = items[i].done
      /\ r.size = items[i].size + 1 /\ r.sealed = items[i].sealed
  <2>1. items[i].size + 1 \in Nat /\ items[i].parts \in Nat /\ items[i].parts + 1 \in Nat
    BY <1>2 DEF Item
  <2>2. QED
    BY <1>2, <2>1 DEF Item
<1> HIDE DEF r
<1>4. /\ ItemsAgree /\ content \in Seq(Piece) /\ TextAgrees(items, style, content)
      /\ CallsAgree(calls, toolIndex, Carried, toolArgs)
  BY <1>1, ReceivingAgree
<1>5. ~ ToolCallsSeen
  BY <1>1, NoCallYet
<1>6. /\ piece \in Piece /\ <<piece>> \in Seq(Piece) /\ OfItem(<<piece>>, i)
      /\ Text(i, r.size) = Text(i, items[i].size) \o <<piece>>
  BY <1>2, <1>3, TextPlus
<1> HIDE DEF piece
<1>7. /\ text = pre \o <<piece>> \o <<>> /\ pre \in Tags /\ <<>> \in Tags
      /\ text \in Seq(Piece)
  BY <1>6, Tagged
<1> HIDE DEF text, pre
<1>8. ItemsAgree'
  <2>1. items'[i] = r
    BY <1>1, <1>3, IndicesStay
  <2>2. ThoughtAgrees(i)
    BY <1>1, <1>4 DEF ItemsAgree, Indices
  <2>3. ThoughtAgrees(i)'
    BY <1>1, <1>3, <2>1, <2>2 DEF ThoughtAgrees
  <2>4. IsFcn(reasoning)'
    BY <1>1, <1>4 DEF ItemsAgree
  <2>5. QED
    BY <1>1, <1>3, <1>4, <1>5, <2>3, <2>4, ThoughtChanges
<1>9. TextAgrees(items', style', content \o text)
  <2>1. TextAgrees(items', style', content \o (pre \o <<piece>> \o <<>>))
    BY <1>1, <1>3, <1>4, <1>6, <1>7, ItemShown
  <2>2. QED
    BY <1>7, <2>1
<1>10. Carried' = Carried /\ toolIndex' = toolIndex /\ toolArgs' = toolArgs
  BY <1>1 DEF Carried
<1>11. Turns([content |-> content, calls |-> calls], <<ContentChunk(text)>>,
             [content |-> content \o text, calls |-> calls])
  BY <1>7, ContentTurns
<1>12. QED
  BY <1>1, <1>4, <1>8, <1>9, <1>10, <1>11, YieldAgrees

LEMMA SummaryDoneAgrees ==
    ASSUME AdapterInv, AgreeInv, NEW i \in DOMAIN items, SummaryDone(i)
    PROVE  AgreeInv'
<1> DEFINE piece == <<i, items[i].size + 1>>
           text == <<Open, piece, Close>>
<1>1. /\ OpenItem(i, "reasoning") /\ Receiving /\ items[i].type = "reasoning" /\ ~ items[i].done
      /\ TypeOK /\ UNCHANGED <<reasoning, summaryStreamed, toolIndex, toolArgs>>
      /\ IF ~ summaryStreamed
         THEN Yields(<<ContentChunk(text)>>) /\ UNCHANGED thinkOpen
         ELSE Yields(CloseThink) /\ thinkOpen' = FALSE
  BY DEF SummaryDone, OpenItem, AdapterInv
<1>2. UNCHANGED capsule
  BY <1>1 DEF Yields
<1>3. items[i] \in Item /\ items[i].size \in Nat /\ i \in Nat
  <2>1. items[i] \in Item /\ i \in Nat
    BY <1>1 DEF TypeOK
  <2>2. QED
    BY <2>1, LongerItem
<1>4. /\ ItemsAgree /\ content \in Seq(Piece) /\ TextAgrees(items, style, content)
      /\ CallsAgree(calls, toolIndex, Carried, toolArgs)
  BY <1>1, ReceivingAgree
<1>5. ~ ToolCallsSeen
  BY <1>1, NoCallYet
<1>6. ThoughtAgrees(i) /\ (summaryStreamed => style = "deltas")
  BY <1>1, <1>4 DEF ItemsAgree, Indices
<1>7. ASSUME NEW r \in Item, r.type = items[i].type, r.done = items[i].done,
             r.sealed = items[i].sealed, items' = [items EXCEPT ![i] = r], style' = style,
             style = "deltas" => summaryStreamed /\ r.size = items[i].size, style # "item"
      PROVE  ItemsAgree'
  <2>1. items'[i] = r
    BY <1>7, <1>1, IndicesStay
  <2>2. ThoughtAgrees(i)'
    BY <1>1, <1>6, <1>7, <2>1 DEF ThoughtAgrees
  <2>3. IsFcn(reasoning)'
    BY <1>1, <1>4 DEF ItemsAgree
  <2>4. QED
    BY <1>1, <1>2, <1>4, <1>5, <1>7, <2>2, <2>3, ThoughtChanges
<1>8. Carried' = Carried /\ toolIndex' = toolIndex /\ toolArgs' = toolArgs
  BY <1>1 DEF Carried
<1>9. CASE style = "deltas" /\ items[i].partOpen /\ UNCHANGED style
           /\ items' = [items EXCEPT ![i].partOpen = FALSE]
  <2> DEFINE r == [items[i] EXCEPT !.partOpen = FALSE]
  <2>1. /\ r \in Item /\ r.type = items[i].type /\ r.done = items[i].done
        /\ r.size = items[i].size /\ r.sealed = items[i].sealed
    BY <1>3 DEF Item
  <2>2. items' = [items EXCEPT ![i] = r] /\ style' = style /\ style = "deltas"
    BY <1>9
  <2> HIDE DEF r
  <2>3. summaryStreamed /\ Yields(CloseThink)
    BY <1>1, <1>6, <1>9 DEF ThoughtAgrees, TypeOK
  <2>4. ItemsAgree'
    BY <1>7, <2>1, <2>2, <2>3
  <2>5. /\ Turns([content |-> content, calls |-> calls], CloseThink,
                 [content |-> content \o Closing, calls |-> calls])
        /\ Closing \in Tags
    BY <1>4, CloseTurns
  <2>6. TextAgrees(items', style', content \o Closing)
    BY <1>1, <1>4, <2>1, <2>2, <2>5, ItemQuiet
  <2>7. QED
    BY <1>1, <1>4, <1>8, <2>3, <2>4, <2>5, <2>6, YieldAgrees
<1>10. CASE style = "done" /\ Grow(i)
  <2> DEFINE r == [items[i] EXCEPT !.size = @ + 1]
  <2>1. /\ r \in Item /\ r.type = items[i].type /\ r.done = items[i].done
        /\ items' = [items EXCEPT ![i] = r] /\ style' = style
    BY <1>1, <1>10, GrowFacts
  <2>2. r.sealed = items[i].sealed
    BY <1>3 DEF Item
  <2> HIDE DEF r
  <2>3. ~ summaryStreamed /\ Yields(<<ContentChunk(text)>>)
    BY <1>1, <1>6, <1>10
  <2>4. ItemsAgree'
    BY <1>7, <1>10, <2>1, <2>2
  <2>5. piece \in Piece /\ <<piece>> \in Seq(Piece) /\ OfItem(<<piece>>, i)
    BY <1>3, TextPlus
  <2> HIDE DEF piece
  <2>6. /\ text = <<Open>> \o <<piece>> \o <<Close>> /\ text \in Seq(Piece)
        /\ <<Open>> \in Tags /\ <<Close>> \in Tags
    BY <2>5, Tagged
  <2> HIDE DEF text
  <2>7. ~ (items[i].type = "message" \/ style # "done")
    BY <1>1, <1>10
  <2>8. TextAgrees(items', style', content \o (<<Open>> \o <<piece>> \o <<Close>>))
    BY <1>1, <1>4, <2>1, <2>5, <2>6, <2>7, ItemShown
  <2>9. TextAgrees(items', style', content \o text)
    BY <2>6, <2>8
  <2>10. Turns([content |-> content, calls |-> calls], <<ContentChunk(text)>>,
               [content |-> content \o text, calls |-> calls])
    BY <2>6, ContentTurns
  <2>11. QED
    BY <1>1, <1>4, <1>8, <2>3, <2>4, <2>9, <2>10, YieldAgrees
<1>11. QED
  BY <1>9, <1>10 DEF SummaryDone

LEMMA StyleIs ==
    ASSUME TypeOK
    PROVE  style \in {"deltas", "done", "item"}
BY StylesAssumption DEF TypeOK

LEMMA ReasoningDoneAgrees ==
    ASSUME AdapterInv, AgreeInv, NEW i \in DOMAIN items, ReasoningDone(i)
    PROVE  AgreeInv'
<1>1. PICK sealed \in BOOLEAN, size \in IF style = "item" THEN 0 .. Room ELSE {items[i].size} :
         /\ OpenItem(i, "reasoning")
         /\ items' = [items EXCEPT ![i].done = TRUE, ![i].sealed = @ \/ sealed,
                                   ![i].size = size]
         /\ UNCHANGED style
         /\ IF ToolCallsSeen
            THEN Fails("adapter") /\ UNCHANGED machine
            ELSE /\ reasoning' = Stored(i, sealed, size)
                 /\ Yields(IF summaryStreamed \/ size = 0 THEN <<>>
                           ELSE <<ContentChunk(<<Open>> \o Text(i, size) \o <<Close>>)>>)
                 /\ UNCHANGED <<summaryStreamed, thinkOpen, toolIndex, toolArgs>>
  BY DEF ReasoningDone
<1>2. ~ ToolCallsSeen /\ Receiving /\ items[i].type = "reasoning" /\ ~ items[i].done /\ TypeOK
  BY <1>1, NoCallYet DEF OpenItem, AdapterInv
<1>3. items[i] \in Item /\ items[i].size \in Nat /\ i \in Nat
  <2>1. items[i] \in Item /\ i \in Nat
    BY <1>2 DEF TypeOK
  <2>2. QED
    BY <2>1, LongerItem
<1>4. size \in Nat
  <2>1. Room \in Int
    BY <1>2, RoomFacts
  <2>2. QED
    BY <1>1, <1>3, <2>1
<1>5. /\ reasoning' = Stored(i, sealed, size)
      /\ Yields(IF summaryStreamed \/ size = 0 THEN <<>>
                ELSE <<ContentChunk(<<Open>> \o Text(i, size) \o <<Close>>)>>)
      /\ UNCHANGED <<summaryStreamed, thinkOpen, toolIndex, toolArgs>>
  BY <1>1, <1>2
<1>6. UNCHANGED capsule
  BY <1>5 DEF Yields
<1> DEFINE r == [items[i] EXCEPT !.done = TRUE, !.sealed = @ \/ sealed, !.size = size]
<1>7. /\ r \in Item /\ r.type = items[i].type /\ r.done /\ r.size = size
      /\ r.partOpen = items[i].partOpen /\ r.sealed = (items[i].sealed \/ sealed)
  BY <1>3, <1>4 DEF Item
<1>8. items' = [items EXCEPT ![i] = r] /\ style' = style
  BY <1>1
<1> HIDE DEF r
<1>9. /\ ItemsAgree /\ content \in Seq(Piece) /\ TextAgrees(items, style, content)
      /\ CallsAgree(calls, toolIndex, Carried, toolArgs)
  BY <1>2, ReceivingAgree
<1>10. /\ ThoughtAgrees(i) /\ (summaryStreamed => style = "deltas")
       /\ i \in DOMAIN reasoning
  BY <1>2, <1>9 DEF ItemsAgree, Indices
<1>11. /\ DOMAIN reasoning' = DOMAIN reasoning /\ IsFcn(reasoning)'
       /\ reasoning'[i] = [sealed |-> sealed \/ reasoning[i].sealed, size |-> size]
       /\ \A j \in DOMAIN reasoning \ {i} : reasoning'[j] = reasoning[j]
  <2>1. reasoning' = With(reasoning, i, [sealed |-> sealed \/ reasoning[i].sealed, size |-> size])
    BY <1>5, <1>10 DEF Stored
  <2>2. QED
    BY <1>10, <2>1 DEF With, IsFcn
<1>12. size = items[i].size \/ (style = "item" /\ items[i].size = 0)
  BY <1>1, <1>2, <1>10 DEF ThoughtAgrees
<1>13. ItemsAgree'
  <2>1. items'[i] = r
    BY <1>2, <1>7, <1>8, IndicesStay
  <2>2. reasoning'[i].sealed = r.sealed /\ reasoning'[i].size = r.size
    <3>1. reasoning[i].sealed = items[i].sealed
      BY <1>10 DEF ThoughtAgrees
    <3>2. QED
      BY <1>7, <1>11, <3>1
  <2>3. style = "deltas" /\ ~ summaryStreamed => r.size = 0 /\ ~ r.partOpen
    BY <1>7, <1>10, <1>12 DEF ThoughtAgrees
  <2>4. ThoughtAgrees(i)'
    BY <1>5, <1>7, <1>8, <2>1, <2>2, <2>3 DEF ThoughtAgrees
  <2>5. QED
    BY <1>2, <1>5, <1>6, <1>7, <1>8, <1>9, <1>11, <2>4, ThoughtChanges
<1>14. CallsAgree(calls, toolIndex', Carried', toolArgs')
  <2>1. toolIndex = Empty
    BY <1>2, <1>9, NoCallsSeen
  <2>2. QED
    BY <1>5, <1>9, <2>1, NoCalls
<1>15. CASE summaryStreamed \/ size = 0
  <2>1. Yields(<<>>)
    BY <1>5, <1>15
  <2>2. r.size = items[i].size
    BY <1>7, <1>10, <1>12, <1>15
  <2>3. <<>> \in Tags /\ content \o <<>> = content
    BY <1>9, NothingShown
  <2>4. TextAgrees(items', style', content \o <<>>)
    BY <1>2, <1>7, <1>8, <1>9, <2>2, <2>3, ItemQuiet
  <2>5. TextAgrees(items', style', content)
    BY <2>3, <2>4
  <2>6. QED
    BY <1>2, <1>9, <1>13, <1>14, <2>1, <2>5, TurnsEmpty, YieldAgrees
<1>16. CASE ~ (summaryStreamed \/ size = 0)
  <2> DEFINE z == Text(i, size)
             text == <<Open>> \o z \o <<Close>>
  <2>1. Yields(<<ContentChunk(text)>>)
    BY <1>5, <1>16
  <2>2. OfItem(z, i) /\ z \in Seq(Piece) /\ <<Open>> \in Tags /\ <<Close>> \in Tags
    BY <1>3, <1>4, TextPlus, TextFacts DEF Tags
  <2>3. <<Open>> \in Seq(Piece) /\ <<Close>> \in Seq(Piece)
    BY DEF Open, Close, Piece
  <2>4. text \in Seq(Piece)
    BY <2>2, <2>3, ConcatProperties
  <2>5. items[i].type = "message" \/ style # "done" => Text(i, r.size) = Text(i, items[i].size) \o z
    <3>1. SUFFICES ASSUME style # "done" PROVE Text(i, r.size) = Text(i, items[i].size) \o z
      BY <1>2
    <3>2. items[i].size = 0
      BY <1>2, <1>10, <1>12, <1>16, <3>1, StyleIs DEF ThoughtAgrees
    <3>3. Text(i, 0) = <<>>
      BY <1>3, TextPlus
    <3>4. QED
      BY <1>7, <2>2, <3>2, <3>3, ConcatEmptySeq
  <2> HIDE DEF z
  <2>6. TextAgrees(items', style', content \o (<<Open>> \o z \o <<Close>>))
    BY <1>2, <1>7, <1>8, <1>9, <2>2, <2>5, ItemShown
  <2> HIDE DEF text
  <2>7. TextAgrees(items', style', content \o text)
    BY <2>6 DEF text
  <2>8. Turns([content |-> content, calls |-> calls], <<ContentChunk(text)>>,
              [content |-> content \o text, calls |-> calls])
    BY <2>4, ContentTurns
  <2>9. QED
    BY <1>2, <1>9, <1>13, <1>14, <2>1, <2>7, <2>8, YieldAgrees
<1>17. QED
  BY <1>15, <1>16

LEMMA ItemsStay ==
    ASSUME TypeOK, ItemsAgree,
           UNCHANGED <<items, style, capsule, reasoning, summaryStreamed, toolIndex, toolArgs>>
    PROVE  ItemsAgree'
<1>1. \A type : Indices(type)' = Indices(type)
  BY DEF Indices
<1>2. OpenIsLast'
  BY DEF ItemsAgree, OpenIsLast
<1>3. \A q \in Indices("reasoning") : ThoughtAgrees(q)'
  BY DEF ItemsAgree, ThoughtAgrees
<1>4. ASSUME NEW c \in Indices("call") PROVE CallAgrees(c)'
  <2>1. CallAgrees(c)
    BY DEF ItemsAgree
  <2>2. QED
    BY <1>1, <2>1 DEF CallAgrees
<1>5. QED
  BY <1>1, <1>2, <1>3, <1>4 DEF ItemsAgree

\* Closing the tag shows nothing of the items.
LEMMA ClosedAgrees ==
    ASSUME TypeOK, NEW text \in Seq(Piece), TextAgrees(items, style, text)
    PROVE  TextAgrees(items, style, text \o Closing) /\ text \o Closing \in Seq(Piece)
<1>1. Closing \in Tags
  BY DEF Closing, Tags
<1>2. items \in Seq(Item) /\ Len(items) <= Len(items)
  BY DEF TypeOK
<1>3. TextAgrees(items, style, text \o Closing)
  BY <1>1, <1>2, TextAgreesStill
<1>4. Closing \in Seq(Piece)
  <2>1. Open \in Piece /\ Close \in Piece
    BY DEF Open, Close, Piece
  <2>2. QED
    BY <1>1, <2>1, TagsType
<1>5. QED
  BY <1>3, <1>4, ConcatProperties

LEMMA TextDeltaAgrees ==
    ASSUME AdapterInv, AgreeInv, NEW i \in DOMAIN items, TextDelta(i)
    PROVE  AgreeInv'
<1>1. /\ Receiving /\ items[i].type = "message" /\ ~ items[i].done /\ TypeOK
      /\ UNCHANGED <<reasoning, summaryStreamed, toolIndex, toolArgs>>
  BY DEF TextDelta, OpenItem, AdapterInv
<1>2. UNCHANGED capsule
  BY DEF TextDelta, Yields
<1>3. /\ ItemsAgree /\ content \in Seq(Piece) /\ TextAgrees(items, style, content)
      /\ CallsAgree(calls, toolIndex, Carried, toolArgs)
  BY <1>1, ReceivingAgree
<1>4. Carried' = Carried /\ toolIndex' = toolIndex /\ toolArgs' = toolArgs
  BY <1>1 DEF Carried
<1>5. /\ Turns([content |-> content, calls |-> calls], CloseThink,
               [content |-> content \o Closing, calls |-> calls])
      /\ TextAgrees(items, style, content \o Closing) /\ content \o Closing \in Seq(Piece)
  BY <1>1, <1>3, CloseTurns, ClosedAgrees
<1>6. CASE /\ Grow(i)
           /\ Yields(CloseThink \o <<ContentChunk(<<<<i, items[i].size + 1>>>>)>>)
  <2> DEFINE r     == [items[i] EXCEPT !.size = @ + 1]
             piece == <<i, items[i].size + 1>>
             text  == content \o Closing
  <2>1. /\ r \in Item /\ r.type = items[i].type /\ r.done = items[i].done
        /\ items' = [items EXCEPT ![i] = r] /\ style' = style
        /\ r.size = items[i].size + 1 /\ items[i].size \in Nat
    BY <1>1, <1>6, GrowFacts
  <2> HIDE DEF r
  <2>2. i \in Nat
    BY <1>1 DEF TypeOK
  <2>3. /\ piece \in Piece /\ <<piece>> \in Seq(Piece) /\ OfItem(<<piece>>, i)
        /\ Text(i, r.size) = Text(i, items[i].size) \o <<piece>>
    BY <2>1, <2>2, TextPlus
  <2>4. Yields(CloseThink \o <<ContentChunk(<<piece>>)>>)
    BY <1>6
  <2> HIDE DEF piece, text
  <2>5. <<piece>> = <<>> \o <<piece>> \o <<>> /\ <<>> \in Tags
    BY <2>3, Tagged
  <2>6. ItemsAgree'
    BY <1>1, <1>2, <1>3, <2>1, MessageChanges
  <2>7. TextAgrees(items', style', text \o <<piece>>)
    <3>1. TextAgrees(items, style, text)
      BY <1>5 DEF text
    <3>2. TextAgrees(items', style', text \o (<<>> \o <<piece>> \o <<>>))
      BY <1>1, <1>3, <2>1, <2>3, <2>5, <3>1, ItemShown
    <3>3. QED
      BY <2>5, <3>2
  <2>8. Turns([content |-> text, calls |-> calls], <<ContentChunk(<<piece>>)>>,
              [content |-> text \o <<piece>>, calls |-> calls])
    BY <2>3, ContentTurns
  <2>9. Turns([content |-> content, calls |-> calls], CloseThink \o <<ContentChunk(<<piece>>)>>,
              [content |-> text \o <<piece>>, calls |-> calls])
    BY <1>5, <2>8, TurnsConcat DEF text
  <2>10. QED
    BY <1>1, <1>3, <1>4, <2>4, <2>6, <2>7, <2>9, YieldAgrees
<1>7. CASE thinkOpen /\ UNCHANGED upstream /\ Yields(CloseThink)
  <2>1. items' = items /\ style' = style
    BY <1>7 DEF upstream
  <2>2. ItemsAgree'
    BY <1>1, <1>2, <1>3, <2>1, ItemsStay
  <2>3. QED
    BY <1>1, <1>3, <1>4, <1>5, <1>7, <2>1, <2>2, YieldAgrees
<1>8. QED
  BY <1>6, <1>7 DEF TextDelta
-----------------------------------------------------------------------------
(* Calls *)

LEMMA IndicesDistinct ==
    ASSUME TypeOK
    PROVE  Distinct(toolIndex)
<1>1. /\ items \in Seq(Item) /\ DOMAIN toolIndex \subseteq DOMAIN items
      /\ \A i \in DOMAIN toolIndex :
            toolIndex[i] = Cardinality({j \in DOMAIN toolIndex : j < i})
  BY DEF TypeOK
<1>2. QED
  BY <1>1, IndexDistinct

LEMMA IndicesDistinctNext ==
    ASSUME TypeOK'
    PROVE  Distinct(toolIndex')
<1>1. /\ items' \in Seq(Item) /\ DOMAIN toolIndex' \subseteq DOMAIN items'
      /\ \A i \in DOMAIN toolIndex' :
            toolIndex'[i] = Cardinality({j \in DOMAIN toolIndex' : j < i})
  BY DEF TypeOK
<1>2. QED
  BY <1>1, IndexDistinct

\* With these chunks the client has this text and these calls.
Brings(chunks, text, index, carried, args) ==
    \E shown : /\ Turns([content |-> content, calls |-> calls], chunks,
                        [content |-> text, calls |-> shown])
               /\ CallsAgree(shown, index, carried, args)

\* Only the arguments of call i change, to these.
ArgsBecome(args, index, i, full, more) ==
    more[i] = full /\ \A j \in DOMAIN index \ {i} : more[j] = args[j]

LEMMA SuffixAnnounced ==
    ASSUME NEW c, NEW f, NEW index, NEW carried, NEW args,
           NEW sent \in Seq(Piece), NEW full \in Seq(Piece), IsPrefix(sent, full),
           CallsAgree(f, index, carried, args), Distinct(index),
           NEW i \in DOMAIN index, IndexOf(i) = index[i], IndexOf(i) \in Nat,
           args[i] = sent, NEW more, ArgsBecome(args, index, i, full, more)
    PROVE  Announce(c, f, Suffix(i, sent, full), index, carried, more)
BY SuffixTurns DEF ArgsBecome

\* A call is announced once, and its arguments so far follow.
LEMMA CallItemTurns ==
    ASSUME TypeOK, TypeOK', MachineFits, ItemsAgree, content \in Seq(Piece),
           CallsAgree(calls, toolIndex, Carried, toolArgs),
           NEW i \in 1 .. MaxItems, i \in DOMAIN toolIndex \/ i = Len(items) + 1,
           NEW full \in Seq(Piece), IsPrefix(Sent(i), full), reasoning' = reasoning,
           toolIndex' = With(toolIndex, i, IndexOf(i)), toolArgs' = With(toolArgs, i, full)
    PROVE  Brings(CloseThink
                     \o (IF i \notin DOMAIN toolIndex THEN <<CallChunk(i, Carried)>> ELSE <<>>)
                     \o Suffix(i, Sent(i), full),
                  content \o Closing, toolIndex', Carried', toolArgs')
<1> DEFINE text == content \o Closing
           rest == Suffix(i, Sent(i), full)
<1>1. /\ IndexOf(i) \in Nat /\ DOMAIN toolIndex' = DOMAIN toolIndex \cup {i}
      /\ i \notin DOMAIN toolIndex => IndexOf(i) = Cardinality(DOMAIN toolIndex)
  <2>1. i \in Nat
    BY BoundsAssumption
  <2>2. QED
    BY <2>1, IndexNext
<1>2. Turns([content |-> content, calls |-> calls], CloseThink, [content |-> text, calls |-> calls])
  BY CloseTurns
<1>3. Distinct(toolIndex') /\ Distinct(toolIndex) /\ Carried \in Capsules /\ Carried' = Carried
  BY IndicesDistinct, IndicesDistinctNext, CarriedType DEF Carried
<1>4. /\ toolIndex'[i] = IndexOf(i) /\ i \in DOMAIN toolIndex'
      /\ toolArgs'[i] = full /\ \A j \in DOMAIN toolArgs \ {i} : toolArgs'[j] = toolArgs[j]
  BY DEF With
<1>5. DOMAIN toolArgs = DOMAIN toolIndex
  BY DEF TypeOK
<1>6. Sent(i) \in Seq(Piece)
  BY SentType
<1> HIDE DEF text, rest
<1>7. CASE i \notin DOMAIN toolIndex
  <2> DEFINE more == With(toolArgs, i, <<>>)
  <2>1. Sent(i) = <<>>
    BY <1>5, <1>7 DEF Sent
  <2>2. /\ IsFiniteSet(DOMAIN toolIndex) /\ IndexOf(i) = Cardinality(DOMAIN toolIndex)
        /\ \A j \in DOMAIN toolIndex : toolIndex[j] # IndexOf(i)
    <3>1. \A j \in DOMAIN toolIndex :
             toolIndex[j] \in Nat /\ toolIndex[j] < Cardinality(DOMAIN toolIndex)
      BY IndexFacts
    <3>2. IsFiniteSet(DOMAIN toolIndex) /\ IndexOf(i) = Cardinality(DOMAIN toolIndex)
      BY <1>1, <1>7, IndexFacts
    <3>3. QED
      BY <1>1, <3>1, <3>2
  <2>3. more[i] = <<>> /\ \A j \in DOMAIN toolIndex : more[j] = toolArgs[j]
    BY <1>5, <1>7 DEF With
  <2> HIDE DEF more
  <2>4. Announce(text, calls, <<CallChunk(i, Carried)>>, toolIndex', Carried, more)
    BY <1>3, <1>7, <2>2, <2>3, CallTurns
  <2>5. PICK g : /\ Turns([content |-> text, calls |-> calls], <<CallChunk(i, Carried)>>,
                          [content |-> text, calls |-> g])
                 /\ CallsAgree(g, toolIndex', Carried, more)
    BY <2>4 DEF Announce
  <2>6. ArgsBecome(more, toolIndex', i, full, toolArgs')
    BY <1>1, <1>4, <1>5, <2>3 DEF ArgsBecome
  <2>7. Announce(text, g, rest, toolIndex', Carried, toolArgs')
    <3>1. Announce(text, g, Suffix(i, <<>>, full), toolIndex', Carried, toolArgs')
      <4>1. PICK index : index = toolIndex'
        OBVIOUS
      <4>2. PICK args : args = toolArgs'
        OBVIOUS
      <4>3. /\ CallsAgree(g, index, Carried, more) /\ Distinct(index) /\ i \in DOMAIN index
            /\ IndexOf(i) = index[i] /\ IndexOf(i) \in Nat
            /\ ArgsBecome(more, index, i, full, args)
        BY <1>1, <1>3, <1>4, <2>5, <2>6, <4>1, <4>2
      <4>4. more[i] = Sent(i) /\ Sent(i) \in Seq(Piece)
        BY <1>6, <2>1, <2>3
      <4>5. Announce(text, g, Suffix(i, Sent(i), full), index, Carried, args)
        BY <4>3, <4>4, SuffixAnnounced
      <4>6. QED
        BY <2>1, <4>1, <4>2, <4>5
    <3>2. QED
      BY <2>1, <3>1 DEF rest
  <2>8. PICK h : /\ Turns([content |-> text, calls |-> g], rest, [content |-> text, calls |-> h])
                 /\ CallsAgree(h, toolIndex', Carried, toolArgs')
    BY <2>7 DEF Announce
  <2>9. Turns([content |-> content, calls |-> calls], CloseThink \o <<CallChunk(i, Carried)>>,
              [content |-> text, calls |-> g])
    BY <1>2, <2>5, TurnsConcat
  <2>10. Turns([content |-> content, calls |-> calls],
               CloseThink \o <<CallChunk(i, Carried)>> \o rest, [content |-> text, calls |-> h])
    BY <2>8, <2>9, TurnsConcat
  <2>11. Brings(CloseThink \o <<CallChunk(i, Carried)>> \o rest, text, toolIndex', Carried, toolArgs')
    BY <2>8, <2>10 DEF Brings
  <2>12. QED
    BY <1>3, <1>7, <2>11 DEF text, rest
<1>8. CASE i \in DOMAIN toolIndex
  <2>1. toolIndex' = toolIndex
    <3>1. IsFcn(toolIndex) /\ IndexOf(i) = toolIndex[i]
      BY <1>8 DEF ItemsAgree, IndexOf
    <3>2. toolIndex' = [j \in DOMAIN toolIndex |-> toolIndex[j]]
      BY <1>8, <3>1 DEF With
    <3>3. QED
      BY <3>1, <3>2 DEF IsFcn
  <2>2. toolArgs[i] = Sent(i)
    BY <1>5, <1>8 DEF Sent
  <2>3. IndexOf(i) = toolIndex[i] /\ \A j \in DOMAIN toolIndex \ {i} : toolArgs'[j] = toolArgs[j]
    BY <1>4, <1>5, <2>1
  <2>4. Announce(text, calls, rest, toolIndex, Carried, toolArgs')
    <3>1. ArgsBecome(toolArgs, toolIndex, i, full, toolArgs')
      BY <1>4, <2>3 DEF ArgsBecome
    <3>2. PICK args : args = toolArgs'
      OBVIOUS
    <3>3. Announce(text, calls, Suffix(i, Sent(i), full), toolIndex, Carried, args)
      BY <1>1, <1>3, <1>6, <1>8, <2>2, <2>3, <3>1, <3>2, SuffixAnnounced
    <3>4. QED
      BY <3>2, <3>3 DEF rest
  <2>5. PICK h : /\ Turns([content |-> text, calls |-> calls], rest, [content |-> text, calls |-> h])
                 /\ CallsAgree(h, toolIndex, Carried, toolArgs')
    BY <2>4 DEF Announce
  <2>6. Turns([content |-> content, calls |-> calls], CloseThink \o <<>>,
              [content |-> text, calls |-> calls])
    BY <1>2, TurnsEmpty, TurnsConcat
  <2>7. Turns([content |-> content, calls |-> calls], CloseThink \o <<>> \o rest,
              [content |-> text, calls |-> h])
    BY <2>5, <2>6, TurnsConcat
  <2>8. Brings(CloseThink \o <<>> \o rest, text, toolIndex', Carried, toolArgs')
    BY <2>1, <2>5, <2>7 DEF Brings
  <2>9. QED
    BY <1>3, <1>8, <2>8 DEF text, rest
<1>9. QED
  BY <1>7, <1>8

LEMMA BringsAgrees ==
    ASSUME AdapterInv, Receiving, NEW chunks, Yields(chunks), ItemsAgree',
           NEW text, TextAgrees(items', style', text),
           Brings(chunks, text, toolIndex', Carried', toolArgs')
    PROVE  AgreeInv'
<1>1. PICK shown : /\ Turns([content |-> content, calls |-> calls], chunks,
                            [content |-> text, calls |-> shown])
                   /\ CallsAgree(shown, toolIndex', Carried', toolArgs')
  BY DEF Brings
<1>2. QED
  BY <1>1, YieldAgrees

\* A call that the other mode would refuse is refused.
LEMMA CallRefused ==
    ASSUME TypeOK, ItemsAgree, ~ Replayable, Fails("adapter"), NEW i \in DOMAIN items',
           items'[i].type = "call", \A j \in DOMAIN items : items'[j] = items[j],
           DOMAIN items \subseteq DOMAIN items'
    PROVE  AgreeInv'
<1>1. capsule' = capsule
  BY DEF Fails
<1>2. DOMAIN reasoning # {}
  <2>1. SUFFICES ASSUME DOMAIN reasoning = {} PROVE FALSE
    OBVIOUS
  <2>2. reasoning = [x \in {} |-> reasoning[x]]
    BY <2>1 DEF ItemsAgree, IsFcn
  <2>3. reasoning = Empty
    BY <2>2 DEF Empty
  <2>4. QED
    BY <2>3 DEF Replayable
<1>3. PICK r \in DOMAIN reasoning : capsule # "on" \/ ~ reasoning[r].sealed
  BY <1>2 DEF Replayable
<1>4. r \in Indices("reasoning") /\ reasoning[r].sealed = items[r].sealed
  BY DEF ItemsAgree, ThoughtAgrees
<1>5. r \in Indices("reasoning")' /\ items'[r] = items[r] /\ i \in Indices("call")'
  BY <1>4 DEF Indices
<1>6. WholeFails'
  BY <1>1, <1>3, <1>4, <1>5 DEF WholeFails
<1>7. QED
  BY <1>6, FailAgrees

LEMMA NewCallAgrees ==
    ASSUME AdapterInv, AdapterInv', AgreeInv, NEW size \in Nat, NEW done \in BOOLEAN,
           NewItem("call", FALSE, size, done),
           CallItem(Len(items) + 1, Text(Len(items) + 1, size))
    PROVE  AgreeInv'
<1> DEFINE i == Len(items) + 1
           full == Text(i, size)
<1>1. TypeOK /\ TypeOK' /\ MachineFits /\ Receiving /\ "call" \in Types
  BY MachineFitsBefore DEF AdapterInv, NewItem, Types
<1>2. /\ ItemsAgree /\ content \in Seq(Piece) /\ TextAgrees(items, style, content)
      /\ CallsAgree(calls, toolIndex, Carried, toolArgs)
  BY <1>1, ReceivingAgree
<1>3. /\ Closed /\ style' = style /\ i \in 1 .. MaxItems
      /\ DOMAIN items' = DOMAIN items \cup {i} /\ i \notin DOMAIN items
      /\ \A j \in DOMAIN items : items'[j] = items[j]
      /\ items'[i].type = "call" /\ items'[i].size = size
  BY <1>1, NewItemFacts
<1>4. /\ OpenIsLast' /\ Indices("call")' = Indices("call") \cup {i}
      /\ Indices("reasoning")' = Indices("reasoning") /\ Indices("foreign")' = Indices("foreign")
  <2>1. \A other : other # "call" => Indices(other)' = Indices(other)
    BY <1>1, NewItemStays
  <2>2. QED
    BY <1>1, <2>1, NewItemStays
<1>5. \A j \in DOMAIN items : j \in Nat /\ j < i
  BY <1>1 DEF TypeOK
<1>6. i \in Nat /\ full \in Seq(Piece)
  <2>1. i \in Nat
    BY <1>3
  <2>2. QED
    BY <2>1, TextFacts
<1>7. i = Len(items) + 1 /\ CallItem(i, full) /\ full = Text(i, size)
  OBVIOUS
<1>8. i \notin DOMAIN toolIndex /\ DOMAIN toolArgs = DOMAIN toolIndex
  BY <1>1, <1>3 DEF TypeOK
<1> HIDE DEF i, full
<1>9. CASE ~ Replayable /\ Fails("adapter")
  BY <1>1, <1>2, <1>3, <1>9, CallRefused
<1>10. CASE Fails("upstream")
  BY <1>10, FailAgrees
<1>11. CASE /\ Replayable /\ IsPrefix(Sent(i), full)
            /\ Yields(CloseThink \o (IF i \notin DOMAIN toolIndex
                                     THEN <<CallChunk(i, Carried)>> ELSE <<>>)
                         \o Suffix(i, Sent(i), full))
            /\ toolArgs' = With(toolArgs, i, full)
  <2>1. /\ toolIndex' = With(toolIndex, i, IndexOf(i))
        /\ UNCHANGED <<reasoning, summaryStreamed>> /\ capsule' = capsule
    BY <1>7, <1>11 DEF CallItem, Yields
  <2>2. Brings(CloseThink \o (IF i \notin DOMAIN toolIndex
                              THEN <<CallChunk(i, Carried)>> ELSE <<>>)
                  \o Suffix(i, Sent(i), full),
               content \o Closing, toolIndex', Carried', toolArgs')
    BY <1>1, <1>2, <1>3, <1>6, <1>7, <1>11, <2>1, CallItemTurns
  <2>3. ASSUME NEW q \in Indices("reasoning")
        PROVE  /\ q \in DOMAIN items /\ items'[q] = items[q]
               /\ q < i /\ capsule' = "on" /\ items'[q].sealed /\ items'[q].done
    <3>1. q \in DOMAIN items /\ items'[q] = items[q] /\ q < i /\ items[q].done
      BY <1>3, <1>5, <2>3 DEF Indices, Closed
    <3>2. q \in DOMAIN reasoning /\ reasoning[q].sealed = items[q].sealed
      BY <1>2 DEF ItemsAgree, ThoughtAgrees
    <3>3. reasoning # Empty
      BY <3>2 DEF Empty
    <3>4. capsule = "on" /\ reasoning[q].sealed
      BY <1>11, <3>2, <3>3 DEF Replayable
    <3>5. QED
      BY <2>1, <3>1, <3>2, <3>4
  <2>4. ASSUME NEW q \in Indices("reasoning") PROVE ThoughtAgrees(q)'
    <3>1. ThoughtAgrees(q)
      BY <1>2 DEF ItemsAgree
    <3>2. QED
      BY <1>3, <2>1, <2>3, <3>1 DEF ThoughtAgrees
  <2>5. ASSUME NEW c \in Indices("call")' PROVE CallAgrees(c)'
    <3>1. CASE c = i
      <4>1. toolArgs'[i] = Text(i, items'[i].size)
        BY <1>3, <1>7, <1>11 DEF With
      <4>2. QED
        BY <1>4, <2>3, <3>1, <4>1 DEF CallAgrees
    <3>2. CASE c # i
      <4>1. c \in Indices("call") /\ CallAgrees(c) /\ c \in DOMAIN toolIndex
        BY <1>2, <1>4, <3>2 DEF ItemsAgree
      <4>2. c \in DOMAIN items /\ items'[c] = items[c]
        BY <1>3, <4>1 DEF Indices
      <4>3. toolArgs'[c] = toolArgs[c]
        BY <1>8, <1>11, <3>2, <4>1 DEF With
      <4>4. \A q \in Indices("reasoning") : q < c
        BY <4>1 DEF CallAgrees
      <4>5. toolArgs'[c] = Text(c, items'[c].size)
        BY <4>1, <4>2, <4>3 DEF CallAgrees
      <4>6. QED
        BY <1>4, <2>3, <4>4, <4>5 DEF CallAgrees
    <3>3. QED
      BY <3>1, <3>2
  <2>6. DOMAIN toolIndex' = Indices("call")' /\ IsFcn(toolIndex)'
    <3>1. DOMAIN toolIndex' = DOMAIN toolIndex \cup {i} /\ IsFcn(toolIndex)'
      BY <2>1 DEF With, IsFcn
    <3>2. QED
      BY <1>2, <1>4, <3>1 DEF ItemsAgree
  <2>7. ItemsAgree'
    BY <1>2, <1>3, <1>4, <2>1, <2>4, <2>5, <2>6 DEF ItemsAgree
  <2>8. TextAgrees(items', style', content \o Closing)
    <3>1. Closing \in Tags
      BY <1>2, CloseTurns
    <3>2. QED
      BY <1>1, <1>2, <3>1, TextOfNewItem
  <2>9. QED
    BY <1>1, <1>11, <2>2, <2>7, <2>8, BringsAgrees
<1>12. QED
  BY <1>7, <1>8, <1>9, <1>10, <1>11 DEF CallItem

LEMMA CallAddedAgrees ==
    ASSUME AdapterInv, AdapterInv', AgreeInv, CallAdded
    PROVE  AgreeInv'
<1>1. NewItem("call", FALSE, 0, FALSE) /\ CallItem(Len(items) + 1, <<>>)
  BY DEF CallAdded
<1>2. Text(Len(items) + 1, 0) = <<>>
  BY DEF Text
<1>3. CallItem(Len(items) + 1, Text(Len(items) + 1, 0))
  BY <1>1, <1>2
<1>4. QED
  BY <1>1, <1>3, NewCallAgrees

LEMMA CallWholeAgrees ==
    ASSUME AdapterInv, AdapterInv', AgreeInv, CallWhole
    PROVE  AgreeInv'
<1>1. PICK n \in 0 .. Room :
         NewItem("call", FALSE, n, TRUE) /\ CallItem(Len(items) + 1, Text(Len(items) + 1, n))
  BY DEF CallWhole
<1>2. n \in Nat
  BY RoomFacts DEF AdapterInv
<1>3. QED
  BY <1>1, <1>2, NewCallAgrees

\* What extends the arguments sent is the arguments.
LEMMA FullIs ==
    ASSUME TypeOK, NEW i \in DOMAIN items, NEW full \in Full(i),
           IsPrefix(Text(i, items[i].size), full)
    PROVE  full = Text(i, Len(full))
<1> DEFINE n == items[i].size
           sent == Text(i, n)
<1>1. items[i] \in Item /\ i \in Nat \ {0} /\ Room \in Int
  BY RoomFacts DEF TypeOK
<1>2. n \in Nat
  BY <1>1 DEF Item
<1>3. CASE n # 0 /\ full = Garbage
  <2>1. sent \in Seq(Piece) /\ Len(sent) = n /\ sent[1] = <<i, 1>>
    <3>1. 1 \in 1 .. n
      BY <1>2, <1>3
    <3>2. QED
      BY <1>1, <1>2, <3>1, TextFacts
  <2> HIDE DEF sent, n
  <2>2. full \in Seq(Piece) /\ Len(full) = 1 /\ full[1] = <<0, 2>>
    BY <1>3 DEF Garbage, Piece
  <2>3. /\ SubSeq(full, Len(sent) + 1, Len(full)) \in Seq(Piece)
        /\ sent \o SubSeq(full, Len(sent) + 1, Len(full)) = full
    BY <2>1, <2>2, PrefixRest DEF sent, n
  <2>4. full[1] = sent[1]
    <3>1. PICK rest \in Seq(Piece) : sent \o rest = full
      BY <2>3
    <3>2. 1 \in 1 .. Len(sent)
      BY <1>2, <1>3, <2>1
    <3>3. (sent \o rest)[1] = sent[1]
      BY <2>1, <3>2, ConcatProperties
    <3>4. QED
      BY <3>1, <3>3
  <2>5. FALSE
    BY <1>1, <2>1, <2>2, <2>4
  <2>6. QED
    BY <2>5
<1>4. ASSUME NEW m \in n .. n + Room, full = Text(i, m)
      PROVE  full = Text(i, Len(full))
  <2>1. m \in Nat
    BY <1>1, <1>2
  <2>2. QED
    BY <1>1, <1>4, <2>1, TextFacts
<1>5. QED
  BY <1>3, <1>4 DEF Full

\* A call that was seen keeps its index.
LEMMA SameIndex ==
    ASSUME ItemsAgree, NEW i \in DOMAIN toolIndex
    PROVE  With(toolIndex, i, IndexOf(i)) = toolIndex
<1>1. IsFcn(toolIndex) /\ IndexOf(i) = toolIndex[i]
  BY DEF ItemsAgree, IndexOf
<1>2. With(toolIndex, i, IndexOf(i)) = [j \in DOMAIN toolIndex |-> toolIndex[j]]
  BY <1>1 DEF With
<1>3. QED
  BY <1>1, <1>2 DEF IsFcn

LEMMA CallDoneAgrees ==
    ASSUME AdapterInv, AdapterInv', AgreeInv, NEW i \in DOMAIN items, CallDone(i)
    PROVE  AgreeInv'
<1>1. /\ TypeOK /\ TypeOK' /\ MachineFits /\ i \in DOMAIN toolIndex
      /\ items[i].type = "call" /\ Receiving
  BY OpenCallFacts, MachineFitsBefore DEF CallDone, AdapterInv
<1>2. /\ ItemsAgree /\ content \in Seq(Piece) /\ TextAgrees(items, style, content)
      /\ CallsAgree(calls, toolIndex, Carried, toolArgs)
  BY <1>1, ReceivingAgree
<1>3. PICK full \in Full(i) :
         /\ items' = [items EXCEPT ![i].done = TRUE, ![i].size = Len(full)]
         /\ CallItem(i, full)
  BY DEF CallDone
<1>4. full \in Seq(Piece) /\ Len(full) \in Nat
  BY <1>1, FullType
<1> DEFINE r == [items[i] EXCEPT !.done = TRUE, !.size = Len(full)]
<1>5. items[i] \in Item /\ i \in 1 .. MaxItems
  BY <1>1, BoundsAssumption DEF TypeOK
<1>6. r \in Item /\ r.type = items[i].type /\ r.done /\ r.size = Len(full)
  BY <1>4, <1>5 DEF Item
<1>7. items' = [items EXCEPT ![i] = r] /\ style' = style
  BY <1>3 DEF CallDone
<1> HIDE DEF r
<1>8. CASE Fails("upstream")
  BY <1>8, FailAgrees
<1>9. CASE /\ IsPrefix(Sent(i), full)
           /\ Yields(CloseThink \o (IF i \notin DOMAIN toolIndex
                                    THEN <<CallChunk(i, Carried)>> ELSE <<>>)
                        \o Suffix(i, Sent(i), full))
           /\ toolArgs' = With(toolArgs, i, full)
  <2>1. /\ toolIndex' = With(toolIndex, i, IndexOf(i))
        /\ UNCHANGED <<reasoning, summaryStreamed>> /\ capsule' = capsule
    BY <1>3, <1>9 DEF CallItem, Yields
  <2>2. Brings(CloseThink \o (IF i \notin DOMAIN toolIndex
                              THEN <<CallChunk(i, Carried)>> ELSE <<>>)
                  \o Suffix(i, Sent(i), full),
               content \o Closing, toolIndex', Carried', toolArgs')
    BY <1>1, <1>2, <1>4, <1>5, <1>9, <2>1, CallItemTurns
  <2>3. toolIndex' = toolIndex
    BY <1>1, <1>2, <2>1, SameIndex
  <2>4. full = Text(i, r.size)
    <3>1. DOMAIN toolArgs = DOMAIN toolIndex /\ i \in Indices("call")
      BY <1>1 DEF TypeOK, Indices
    <3>2. Sent(i) = Text(i, items[i].size)
      BY <1>1, <1>2, <3>1 DEF Sent, ItemsAgree, CallAgrees
    <3>3. IsPrefix(Text(i, items[i].size), full)
      BY <1>9, <3>2
    <3>4. QED
      BY <1>1, <1>6, <3>3, FullIs
  <2>5. toolArgs'[i] = full /\ \A j \in DOMAIN toolIndex \ {i} : toolArgs'[j] = toolArgs[j]
    BY <1>1, <1>9 DEF TypeOK, With
  <2>6. IsFcn(toolIndex)'
    BY <1>2, <2>3 DEF ItemsAgree, IsFcn
  <2>7. ItemsAgree'
    BY <1>1, <1>2, <1>6, <1>7, <2>1, <2>3, <2>4, <2>5, <2>6, CallChanges
  <2>8. TextAgrees(items', style', content \o Closing)
    <3>1. Closing \in Tags
      BY <1>2, CloseTurns
    <3>2. QED
      BY <1>1, <1>2, <1>6, <1>7, <3>1, ItemQuiet
  <2>9. QED
    BY <1>1, <1>9, <2>2, <2>7, <2>8, BringsAgrees
<1>10. QED
  BY <1>1, <1>3, <1>8, <1>9 DEF CallItem

LEMMA ArgsDeltaAgrees ==
    ASSUME AdapterInv, AgreeInv, NEW i \in DOMAIN items, ArgsDelta(i)
    PROVE  AgreeInv'
<1> DEFINE x == <<<<i, items[i].size + 1>>>>
           r == [items[i] EXCEPT !.size = @ + 1]
<1>1. /\ TypeOK /\ i \in DOMAIN toolIndex /\ items[i].type = "call" /\ Receiving
  BY OpenCallFacts DEF ArgsDelta, AdapterInv
<1>2. /\ ItemsAgree /\ content \in Seq(Piece) /\ TextAgrees(items, style, content)
      /\ CallsAgree(calls, toolIndex, Carried, toolArgs)
  BY <1>1, ReceivingAgree
<1>3. /\ Grow(i) /\ toolArgs' = [toolArgs EXCEPT ![i] = @ \o x]
      /\ Yields(<<ArgsChunk(i, x)>>)
      /\ UNCHANGED <<reasoning, summaryStreamed, thinkOpen, toolIndex>>
  BY DEF ArgsDelta
<1>4. capsule' = capsule
  BY <1>3 DEF Yields
<1>5. /\ r \in Item /\ r.type = items[i].type /\ r.done = items[i].done
      /\ items' = [items EXCEPT ![i] = r] /\ style' = style
      /\ items[i].size \in Nat /\ r.size = items[i].size + 1
  BY <1>1, <1>3, GrowFacts
<1> HIDE DEF r
<1>6. i \in Nat
  BY <1>1 DEF TypeOK
<1>7. x \in Seq(Piece) /\ Text(i, r.size) = Text(i, items[i].size) \o x
  BY <1>5, <1>6, TextPlus
<1> HIDE DEF x
<1>8. /\ DOMAIN toolArgs = DOMAIN toolIndex /\ i \in Indices("call")
      /\ toolArgs'[i] = toolArgs[i] \o x
      /\ \A j \in DOMAIN toolIndex \ {i} : toolArgs'[j] = toolArgs[j]
  BY <1>1, <1>3 DEF TypeOK, Indices
<1>9. toolArgs'[i] = Text(i, r.size)
  BY <1>2, <1>7, <1>8 DEF ItemsAgree, CallAgrees
<1>10. ItemsAgree'
  <2>1. IsFcn(toolIndex)' /\ DOMAIN toolIndex' = DOMAIN toolIndex
    BY <1>2, <1>3 DEF ItemsAgree, IsFcn
  <2>2. QED
    BY <1>1, <1>2, <1>3, <1>4, <1>5, <1>8, <1>9, <2>1, CallChanges
<1>11. TextAgrees(items', style', content)
  <2>1. <<>> \in Tags /\ content \o <<>> = content
    BY <1>2, NothingShown
  <2>2. TextAgrees(items', style', content \o <<>>)
    BY <1>1, <1>2, <1>5, <2>1, ItemQuiet
  <2>3. QED
    BY <2>1, <2>2
<1>12. Announce(content, calls, <<ArgsChunk(i, x)>>, toolIndex, Carried, toolArgs')
  <2>1. /\ Distinct(toolIndex) /\ IndexOf(i) = toolIndex[i] /\ IndexOf(i) \in Nat
    BY <1>1, IndicesDistinct, IndexFacts DEF IndexOf
  <2>2. PICK more : more = toolArgs'
    OBVIOUS
  <2>3. more[i] = toolArgs[i] \o x /\ \A j \in DOMAIN toolIndex \ {i} : more[j] = toolArgs[j]
    BY <1>8, <2>2
  <2>4. Announce(content, calls, <<ArgsChunk(i, x)>>, toolIndex, Carried, more)
    BY <1>1, <1>2, <1>7, <2>1, <2>3, ArgsTurns
  <2>5. QED
    BY <2>2, <2>4
<1>13. Brings(<<ArgsChunk(i, x)>>, content, toolIndex', Carried', toolArgs')
  BY <1>3, <1>12 DEF Announce, Brings, Carried
<1>14. QED
  BY <1>1, <1>3, <1>10, <1>11, <1>13, BringsAgrees

LEMMA ArgsDoneAgrees ==
    ASSUME AdapterInv, AgreeInv, NEW i \in DOMAIN items, ArgsDone(i)
    PROVE  AgreeInv'
<1>1. /\ TypeOK /\ MachineFits /\ i \in DOMAIN toolIndex /\ items[i].type = "call" /\ Receiving
  BY OpenCallFacts, MachineFitsBefore DEF ArgsDone, AdapterInv
<1>2. /\ ItemsAgree /\ content \in Seq(Piece) /\ TextAgrees(items, style, content)
      /\ CallsAgree(calls, toolIndex, Carried, toolArgs)
  BY <1>1, ReceivingAgree
<1>3. PICK full \in Full(i) :
         /\ items' = [items EXCEPT ![i].size = Len(full)]
         /\ IF IsPrefix(Sent(i), full)
            THEN /\ Yields(Suffix(i, Sent(i), full))
                 /\ toolArgs' = [toolArgs EXCEPT ![i] = full]
            ELSE Fails("upstream") /\ UNCHANGED toolArgs
  BY DEF ArgsDone
<1>4. full \in Seq(Piece) /\ Len(full) \in Nat
  BY <1>1, FullType
<1>5. UNCHANGED <<style, reasoning, summaryStreamed, thinkOpen, toolIndex>>
  BY DEF ArgsDone
<1> DEFINE r == [items[i] EXCEPT !.size = Len(full)]
<1>6. items[i] \in Item
  BY <1>1 DEF TypeOK
<1>7. r \in Item /\ r.type = items[i].type /\ r.done = items[i].done /\ r.size = Len(full)
  BY <1>4, <1>6 DEF Item
<1>8. items' = [items EXCEPT ![i] = r]
  BY <1>3
<1> HIDE DEF r
<1>9. CASE IsPrefix(Sent(i), full)
  <2>1. Yields(Suffix(i, Sent(i), full)) /\ toolArgs' = [toolArgs EXCEPT ![i] = full]
    BY <1>3, <1>9
  <2>2. capsule' = capsule
    BY <2>1 DEF Yields
  <2>3. DOMAIN toolArgs = DOMAIN toolIndex /\ i \in Indices("call")
    BY <1>1 DEF TypeOK, Indices
  <2>4. Sent(i) = Text(i, items[i].size) /\ Sent(i) = toolArgs[i]
    BY <1>1, <1>2, <2>3 DEF Sent, ItemsAgree, CallAgrees
  <2>5. full = Text(i, r.size)
    <3>1. IsPrefix(Text(i, items[i].size), full)
      BY <1>9, <2>4
    <3>2. QED
      BY <1>1, <1>7, <3>1, FullIs
  <2>6. toolArgs'[i] = full /\ \A j \in DOMAIN toolIndex \ {i} : toolArgs'[j] = toolArgs[j]
    BY <1>1, <2>1, <2>3
  <2>7. ItemsAgree'
    <3>1. IsFcn(toolIndex)' /\ DOMAIN toolIndex' = DOMAIN toolIndex
      BY <1>2, <1>5 DEF ItemsAgree, IsFcn
    <3>2. QED
      BY <1>1, <1>2, <1>5, <1>7, <1>8, <2>2, <2>5, <2>6, <3>1, CallChanges
  <2>8. TextAgrees(items', style', content)
    <3>1. <<>> \in Tags /\ content \o <<>> = content
      BY <1>2, NothingShown
    <3>2. TextAgrees(items', style', content \o <<>>)
      BY <1>1, <1>2, <1>5, <1>7, <1>8, <3>1, ItemQuiet
    <3>3. QED
      BY <3>1, <3>2
  <2>9. Announce(content, calls, Suffix(i, Sent(i), full), toolIndex, Carried, toolArgs')
    <3>1. Distinct(toolIndex) /\ IndexOf(i) = toolIndex[i] /\ IndexOf(i) \in Nat
      BY <1>1, IndicesDistinct, IndexFacts DEF IndexOf
    <3>2. PICK more : more = toolArgs'
      OBVIOUS
    <3>3. ArgsBecome(toolArgs, toolIndex, i, full, more)
      BY <2>6, <3>2 DEF ArgsBecome
    <3>4. Sent(i) \in Seq(Piece)
      BY <1>1, SentType
    <3>5. Announce(content, calls, Suffix(i, Sent(i), full), toolIndex, Carried, more)
      BY <1>1, <1>2, <1>4, <1>9, <2>4, <3>1, <3>3, <3>4, SuffixAnnounced
    <3>6. QED
      BY <3>2, <3>5
  <2>10. Brings(Suffix(i, Sent(i), full), content, toolIndex', Carried', toolArgs')
    BY <1>5, <2>9 DEF Announce, Brings, Carried
  <2>11. QED
    BY <1>1, <2>1, <2>7, <2>8, <2>10, BringsAgrees
<1>10. CASE ~ IsPrefix(Sent(i), full)
  BY <1>3, <1>10, FailAgrees
<1>11. QED
  BY <1>9, <1>10
-----------------------------------------------------------------------------
(* The end of the upstream *)

LEMMA TerminalAgrees ==
    ASSUME AdapterInv, AgreeInv, NEW t \in {"completed", "incomplete"}, Terminal(t)
    PROVE  AgreeInv'
<1>1. /\ TypeOK /\ Receiving /\ over' = t
      /\ t = "completed" => \A i \in DOMAIN items : items[i].done
      /\ UNCHANGED <<style, items, reasoning, summaryStreamed, toolIndex, toolArgs, router,
                     content, calls, capsule>>
  BY DEF AdapterInv, Terminal, upstream, client
<1>2. PICK metered \in {<<>>, <<UsageChunk>>} :
         pending' = CloseThink \o <<FinishChunk(FinishReason(t))>> \o metered
  BY DEF Terminal
<1>3. /\ ItemsAgree /\ content \in Seq(Piece) /\ TextAgrees(items, style, content)
      /\ CallsAgree(calls, toolIndex, Carried, toolArgs)
  BY <1>1, ReceivingAgree
<1> DEFINE text == content \o Closing
           finishing == FinishChunk(FinishReason(t))
<1>4. Turns([content |-> content, calls |-> calls], CloseThink, [content |-> text, calls |-> calls])
      /\ Closing \in Tags
  BY <1>3, CloseTurns
<1>5. finishing \in Chunk /\ finishing.kind = "finish" /\ UsageChunk \in Chunk /\ UsageChunk.kind = "usage"
  BY FinishType, UsageType DEF FinishReason, UsageChunk, Blank
<1> HIDE DEF text, finishing
<1>6. Turns([content |-> text, calls |-> calls], <<finishing>>, [content |-> text, calls |-> calls])
  BY <1>5, SilentTurns
<1>7. Turns([content |-> text, calls |-> calls], metered, [content |-> text, calls |-> calls])
  <2>1. CASE metered = <<>>
    BY <2>1, TurnsEmpty
  <2>2. CASE metered = <<UsageChunk>>
    <3>1. PICK u \in Chunk : u = UsageChunk /\ u.kind = "usage"
      BY <1>5
    <3>2. Turns([content |-> text, calls |-> calls], <<u>>, [content |-> text, calls |-> calls])
      BY <3>1, SilentTurns
    <3>3. QED
      BY <2>2, <3>1, <3>2
  <2>3. QED
    BY <2>1, <2>2
<1>8. Turns([content |-> content, calls |-> calls], CloseThink \o <<finishing>> \o metered,
            [content |-> text, calls |-> calls])
  <2>1. Turns([content |-> content, calls |-> calls], CloseThink \o <<finishing>>,
              [content |-> text, calls |-> calls])
    BY <1>4, <1>6, TurnsConcat
  <2>2. QED
    BY <1>7, <2>1, TurnsConcat
<1>9. TextAgrees(items, style, text)
  <2>1. /\ items \in Seq(Item) /\ Len(items) <= Len(items)
    BY <1>1 DEF TypeOK
  <2>2. TextAgrees(items, style, content \o Closing)
    BY <1>3, <1>4, <2>1, TextAgreesStill
  <2>3. QED
    BY <2>2 DEF text
<1>10. ItemsAgree'
  <2>1. OpenIsLast' /\ Indices("foreign")' = {}
    BY <1>1, <1>3 DEF ItemsAgree, OpenIsLast, Indices
  <2>2. \A type : Indices(type)' = Indices(type)
    BY <1>1 DEF Indices
  <2>3. IsFcn(toolIndex)' /\ IsFcn(reasoning)'
    BY <1>1, <1>3 DEF ItemsAgree, IsFcn
  <2>4. \A r \in Indices("reasoning") : ThoughtAgrees(r)'
    BY <1>1, <1>3 DEF ItemsAgree, ThoughtAgrees
  <2>5. \A c \in Indices("call") : CallAgrees(c)'
    BY <1>1, <1>3, <2>2 DEF ItemsAgree, CallAgrees
  <2>6. QED
    BY <1>1, <1>3, <2>1, <2>2, <2>3, <2>4, <2>5 DEF ItemsAgree
<1>11. Told'
  <2>1. Transcript' = [content |-> content, calls |-> calls]
    BY <1>1 DEF Transcript
  <2>2. Turns(Transcript', pending', [content |-> text, calls |-> calls])
    BY <1>2, <1>8, <2>1 DEF finishing
  <2>3. CallsAgree(calls, toolIndex', Carried', toolArgs') /\ TextAgrees(items', style', text)
    BY <1>1, <1>3, <1>9 DEF Carried
  <2>4. QED
    BY <2>2, <2>3 DEF Told
<1>12. (over = "completed" => \A i \in DOMAIN items : items[i].done)'
  BY <1>1
<1>13. over' # "adapter"
  BY <1>1
<1>14. QED
  BY <1>10, <1>11, <1>12, <1>13 DEF AgreeInv
-----------------------------------------------------------------------------
(* The router *)

\* A step that leaves upstream and machine alone keeps what they agree on.
LEMMA QuietAgrees ==
    ASSUME AgreeInv, UNCHANGED provider,
           (~ Cut /\ router \in {"forwarding", "done"} => Told)'
    PROVE  AgreeInv'
<1>1. UNCHANGED <<capsule, style, items, over, reasoning, summaryStreamed, toolIndex, toolArgs>>
  BY DEF provider, upstream, machine
<1>2. \A type : Indices(type)' = Indices(type)
  BY <1>1 DEF Indices
<1>3. Cut' = Cut /\ WholeFails' = WholeFails
  BY <1>1, <1>2 DEF Cut, WholeFails
<1>4. ItemsAgree => ItemsAgree'
  <2>1. SUFFICES ASSUME ItemsAgree PROVE ItemsAgree'
    OBVIOUS
  <2>2. OpenIsLast'
    BY <1>1, <2>1 DEF ItemsAgree, OpenIsLast
  <2>3. IsFcn(toolIndex)' /\ IsFcn(reasoning)'
    BY <1>1, <2>1 DEF ItemsAgree, IsFcn
  <2>4. \A r \in Indices("reasoning") : ThoughtAgrees(r)'
    BY <1>1, <2>1 DEF ItemsAgree, ThoughtAgrees
  <2>5. \A c \in Indices("call") : CallAgrees(c)'
    BY <1>1, <1>2, <2>1 DEF ItemsAgree, CallAgrees
  <2>6. QED
    BY <1>1, <1>2, <2>1, <2>2, <2>3, <2>4, <2>5 DEF ItemsAgree
<1>5. (over = "completed" => \A i \in DOMAIN items : items[i].done)'
  BY <1>1 DEF AgreeInv
<1>6. QED
  BY <1>1, <1>3, <1>4, <1>5 DEF AgreeInv

\* What is on its way stays so while nothing is read or written.
LEMMA ToldStays ==
    ASSUME Told, UNCHANGED <<provider, pending, content, calls>>
    PROVE  Told'
<1>1. UNCHANGED <<style, items, reasoning, toolIndex, toolArgs>>
  BY DEF provider, upstream, machine
<1>2. Transcript' = Transcript /\ Carried' = Carried
  BY <1>1 DEF Transcript, Carried
<1>3. QED
  BY <1>1, <1>2 DEF Told

LEMMA ForwardAgrees ==
    ASSUME AdapterInv, AgreeInv, Forward
    PROVE  AgreeInv'
<1> DEFINE c == Head(pending)
<1>1. /\ router = "forwarding" /\ router' = "forwarding" /\ pending # <<>>
      /\ Read(c) /\ pending' = Tail(pending) /\ UNCHANGED provider
  BY DEF Forward
<1>2. UNCHANGED <<style, items, over, reasoning, toolIndex, toolArgs>>
  BY <1>1 DEF provider, upstream, machine
<1>3. ASSUME ~ Cut' PROVE Told'
  <2>1. ~ Cut
    BY <1>2, <1>3 DEF Cut
  <2>2. PICK text, shown :
           /\ Turns(Transcript, pending, [content |-> text, calls |-> shown])
           /\ TextAgrees(items, style, text)
           /\ CallsAgree(shown, toolIndex, Carried, toolArgs)
    BY <1>1, <2>1 DEF AgreeInv, Told
  <2>3. Turns(Hears(Transcript, c), Tail(pending), [content |-> text, calls |-> shown])
    BY <1>1, <2>2, TurnsHead
  <2>4. Transcript' = Hears(Transcript, c)
    <3> HIDE DEF c
    <3>1. QED
      BY <1>1 DEF Read, Transcript, Hears
  <2>5. Carried' = Carried
    BY <1>2 DEF Carried
  <2>6. QED
    BY <1>1, <1>2, <2>2, <2>3, <2>4, <2>5 DEF Told
<1>4. QED
  BY <1>1, <1>3, QuietAgrees

LEMMA ForwardErrorAgrees ==
    ASSUME AdapterInv, AgreeInv, ForwardError
    PROVE  AgreeInv'
<1>1. router' = "failed" /\ UNCHANGED provider
  BY DEF ForwardError
<1>2. QED
  BY <1>1, QuietAgrees

LEMMA SendDoneAgrees ==
    ASSUME AdapterInv, AgreeInv, SendDone
    PROVE  AgreeInv'
<1>1. /\ router = "failed" \/ router = "forwarding"
      /\ UNCHANGED <<provider, pending, content, calls>>
  BY DEF SendDone, client
<1>2. Cut' = Cut
  BY <1>1 DEF Cut, provider
<1>3. router = "failed" => Cut
  BY DEF AdapterInv, RouterFits
<1>4. ~ Cut => Told
  BY <1>1, <1>3 DEF AgreeInv
<1>5. ~ Cut' => Told'
  BY <1>1, <1>2, <1>4, ToldStays
<1>6. QED
  BY <1>1, <1>5, QuietAgrees

LEMMA ClientDropAgrees ==
    ASSUME AdapterInv, AgreeInv, ClientDrop
    PROVE  AgreeInv'
<1>1. router' = "dropped" /\ UNCHANGED provider
  BY DEF ClientDrop
<1>2. QED
  BY <1>1, QuietAgrees

LEMMA StillAgrees ==
    ASSUME AgreeInv, UNCHANGED <<provider, pending, router, content, calls>>
    PROVE  AgreeInv'
<1>1. Cut' = Cut
  BY DEF Cut, provider
<1>2. (~ Cut /\ router \in {"forwarding", "done"} => Told)'
  BY <1>1, ToldStays DEF AgreeInv
<1>3. QED
  BY <1>2, QuietAgrees

LEMMA InitAgrees ==
    ASSUME Init
    PROVE  AgreeInv
<1>1. /\ items = <<>> /\ over = "no" /\ reasoning = Empty /\ toolIndex = Empty
      /\ toolArgs = Empty /\ summaryStreamed = FALSE /\ pending = <<Blank>>
      /\ content = <<>> /\ calls = Empty
  BY DEF Init
<1>2. DOMAIN Empty = {} /\ IsFcn(Empty)
  BY DEF Empty, IsFcn
<1>3. DOMAIN items = {} /\ items \in Seq(Item)
  BY <1>1
<1>4. \A type : Indices(type) = {}
  BY <1>3 DEF Indices
<1>5. ItemsAgree
  BY <1>1, <1>2, <1>3, <1>4 DEF ItemsAgree, OpenIsLast
<1>6. Turns([content |-> content, calls |-> calls], pending, [content |-> content, calls |-> calls])
  <2>1. Blank \in Chunk /\ Blank.kind = "role"
    BY BlankType DEF Blank
  <2>2. PICK c \in Chunk : c = Blank /\ c.kind = "role"
    BY <2>1
  <2>3. Turns([content |-> content, calls |-> calls], <<c>>, [content |-> content, calls |-> calls])
    BY <2>2, SilentTurns
  <2>4. QED
    BY <1>1, <2>2, <2>3
<1>7. CallsAgree(calls, toolIndex, Carried, toolArgs)
  <2>1. Cardinality({}) = 0
    BY FS_EmptySet
  <2>2. QED
    BY <1>1, <1>2, <2>1 DEF CallsAgree
<1>8. TextAgrees(items, style, content)
  <2>1. content \in Seq((0 .. Len(items)) \X Nat)
    BY <1>1
  <2>2. ASSUME NEW type PROVE Among(content, PiecesOf(items, type)) = <<>>
    <3>1. \A k \in DOMAIN content : content[k] \notin PiecesOf(items, type)
      BY <1>1
    <3>2. QED
      BY <2>1, <3>1, AmongNone
  <2>3. ASSUME NEW type PROVE TextOf(items, type) = <<>>
    <3>1. Parts(items, type) = <<>>
      <4>1. Parts(items, type) \in Seq(Seq(Piece)) /\ Len(Parts(items, type)) = Len(items)
        BY <1>3, PartsFacts
      <4>2. Len(items) = 0
        BY <1>1
      <4>3. QED
        BY <4>1, <4>2
    <3>2. QED
      BY <1>3, <3>1, PartsFacts, FlattenEmpty
  <2>4. QED
    BY <2>1, <2>2, <2>3 DEF TextAgrees
<1>9. Told
  BY <1>6, <1>7, <1>8 DEF Told, Transcript
<1>10. QED
  BY <1>1, <1>5, <1>9 DEF AgreeInv

LEMMA NextAgrees ==
    ASSUME AdapterInv, AdapterInv', AgreeInv, [Next]_vars
    PROVE  AgreeInv'
<1>1. CASE ReasoningAdded
  BY <1>1, ReasoningAddedAgrees
<1>2. CASE MessageAdded
  BY <1>2, MessageAddedAgrees
<1>3. CASE CallAdded
  BY <1>3, CallAddedAgrees
<1>4. CASE CallWhole
  BY <1>4, CallWholeAgrees
<1>5. CASE OtherItem
  BY <1>5, OtherItemAgrees
<1>6. ASSUME NEW i \in DOMAIN items,
             \/ SummaryDelta(i) \/ SummaryDone(i) \/ ReasoningDone(i)
             \/ TextDelta(i) \/ MessageDone(i)
             \/ ArgsDelta(i) \/ ArgsDone(i) \/ CallDone(i)
      PROVE  AgreeInv'
  BY <1>6, SummaryDeltaAgrees, SummaryDoneAgrees, ReasoningDoneAgrees, TextDeltaAgrees,
     MessageDoneAgrees, ArgsDeltaAgrees, ArgsDoneAgrees, CallDoneAgrees
<1>7. CASE Terminal("completed") \/ Terminal("incomplete")
  BY <1>7, TerminalAgrees
<1>8. CASE UpstreamBreaks
  BY <1>8, FailAgrees DEF UpstreamBreaks
<1>9. CASE Forward
  BY <1>9, ForwardAgrees
<1>10. CASE ForwardError
  BY <1>10, ForwardErrorAgrees
<1>11. CASE SendDone
  BY <1>11, SendDoneAgrees
<1>12. CASE ClientDrop
  BY <1>12, ClientDropAgrees
<1>13. CASE Continue
  BY <1>13, StillAgrees DEF Continue, client
<1>14. CASE UNCHANGED vars
  <2>1. UNCHANGED <<provider, pending, router, content, calls>>
    BY <1>14 DEF vars, provider, client
  <2>2. QED
    BY <2>1, StillAgrees
<1>15. QED
  BY <1>1, <1>2, <1>3, <1>4, <1>5, <1>6, <1>7, <1>8, <1>9, <1>10, <1>11, <1>12, <1>13, <1>14
     DEF Next

\* A client gets the same turn from a stream as from a whole response: the
\* same calls, the same answer and the same summary; and the stream refuses a
\* turn for itself only if the other mode would.
THEOREM AgreesWithWhole == Spec => []StreamAgreesWithWhole
<1>1. Init => AgreeInv
  BY InitAgrees
<1>2. AdapterInv /\ AdapterInv' /\ AgreeInv /\ [Next]_vars => AgreeInv'
  BY NextAgrees
<1>3. AdapterInv /\ AgreeInv => StreamAgreesWithWhole
  BY AgreeMeans
<1>4. QED
  BY <1>1, <1>2, <1>3, AdapterInvariant, PTL DEF Spec
-----------------------------------------------------------------------------
(* The members of a finite set of numbers, in their order *)

\* How many members are no greater than i.
Rank(S, i) == Cardinality({j \in S : j <= i})

\* The k-th member.
At(S, k) == CHOOSE i \in S : Cardinality({j \in S : j <= i}) = k

\* Members have ranks from 1 to their number, in their order.
LEMMA RankFacts ==
    ASSUME NEW S, S \subseteq Nat, IsFiniteSet(S)
    PROVE  /\ Cardinality(S) \in Nat
           /\ \A i \in S : Rank(S, i) \in 1 .. Cardinality(S)
           /\ \A i, j \in S : i < j => Rank(S, i) < Rank(S, j)
<1>1. Cardinality(S) \in Nat
  BY FS_CardinalityType
<1>2. ASSUME NEW i \in S PROVE Rank(S, i) \in 1 .. Cardinality(S)
  <2> DEFINE L == {j \in S : j <= i}
  <2>1. L \subseteq S /\ i \in L
    OBVIOUS
  <2>2. Rank(S, i) = Cardinality(L)
    BY DEF Rank
  <2> HIDE DEF L
  <2>3. IsFiniteSet(L) /\ Cardinality(L) <= Cardinality(S)
    BY <2>1, FS_Subset
  <2>4. Cardinality(L) \in Nat /\ Cardinality(L) # 0
    BY <2>1, <2>3, FS_CardinalityType, FS_EmptySet
  <2>5. QED
    BY <1>1, <2>2, <2>3, <2>4
<1>3. ASSUME NEW i \in S, NEW j \in S, i < j PROVE Rank(S, i) < Rank(S, j)
  <2> DEFINE L == {l \in S : l <= i}
             M == {l \in S : l <= j}
  <2>1. L \subseteq M /\ M \subseteq S /\ j \in M /\ j \notin L
    <3>1. i \in Nat /\ j \in Nat /\ i < j /\ \A l \in S : l \in Nat
      BY <1>3
    <3>2. M \subseteq S /\ j \in M /\ j \notin L
      BY <3>1
    <3>3. ASSUME NEW l \in L PROVE l \in M
      BY <3>1
    <3>4. QED
      BY <3>2, <3>3
  <2>2. Rank(S, i) = Cardinality(L) /\ Rank(S, j) = Cardinality(M)
    BY DEF Rank
  <2> HIDE DEF L, M
  <2>3. IsFiniteSet(M)
    BY <2>1, FS_Subset
  <2>4. IsFiniteSet(L) /\ Cardinality(L) <= Cardinality(M) /\ Cardinality(L) # Cardinality(M)
    BY <2>1, <2>3, FS_Subset
  <2>5. Cardinality(L) \in Nat /\ Cardinality(M) \in Nat
    BY <2>3, <2>4, FS_CardinalityType
  <2>6. QED
    BY <2>2, <2>4, <2>5
<1>4. QED
  BY <1>1, <1>2, <1>3

\* Every rank is taken, so the k-th member is there.
LEMMA Enumerated ==
    ASSUME NEW S, S \subseteq Nat, IsFiniteSet(S)
    PROVE  /\ Cardinality(S) \in Nat
           /\ \A k \in 1 .. Cardinality(S) : At(S, k) \in S
           /\ \A i \in S : \E k \in 1 .. Cardinality(S) : At(S, k) = i
           /\ \A k, l \in 1 .. Cardinality(S) : k < l <=> At(S, k) < At(S, l)
<1>1. PICK n \in Nat : n = Cardinality(S)
  BY FS_CardinalityType
<1>2. /\ \A i \in S : Rank(S, i) \in 1 .. n
      /\ \A i, j \in S : i < j => Rank(S, i) < Rank(S, j)
  BY <1>1, RankFacts
<1> DEFINE f == [i \in S |-> Rank(S, i)]
<1>3. \A i, j \in S : Rank(S, i) = Rank(S, j) => i = j
  <2>1. \A i \in S : Rank(S, i) \in Nat /\ i \in Nat
    BY <1>1, <1>2
  <2>2. \A i, j \in S : i < j \/ j < i \/ i = j
    BY <2>1
  <2>3. \A i, j \in S : i < j => Rank(S, i) # Rank(S, j)
    BY <1>2, <2>1
  <2>4. QED
    BY <2>2, <2>3
<1>4. f \in Injection(S, 1 .. n)
  BY <1>2, <1>3 DEF Injection, IsInjective
<1>5. IsFiniteSet(1 .. n) /\ Cardinality(1 .. n) = n
  <2>1. IsFiniteSet(1 .. n) /\ Cardinality(1 .. n) = IF 1 > n THEN 0 ELSE n - 1 + 1
    BY FS_Interval
  <2>2. QED
    BY <2>1
<1>6. f \in Surjection(S, 1 .. n)
  BY <1>1, <1>4, <1>5, FS_Injection
<1>7. ASSUME NEW k \in 1 .. n PROVE At(S, k) \in S /\ Rank(S, At(S, k)) = k
  <2>1. PICK i \in S : f[i] = k
    BY <1>6 DEF Surjection
  <2>2. i \in S /\ Cardinality({j \in S : j <= i}) = k
    BY <2>1 DEF Rank
  <2>3. At(S, k) \in S /\ Cardinality({j \in S : j <= At(S, k)}) = k
    BY <2>2 DEF At
  <2>4. QED
    BY <2>3 DEF Rank
<1>8. ASSUME NEW i \in S PROVE \E k \in 1 .. n : At(S, k) = i
  <2>1. PICK k \in 1 .. n : k = Rank(S, i)
    BY <1>2
  <2>2. At(S, k) = i
    BY <1>3, <1>7, <2>1
  <2>3. QED
    BY <2>2
<1>9. ASSUME NEW k \in 1 .. n, NEW l \in 1 .. n PROVE k < l <=> At(S, k) < At(S, l)
  <2>1. PICK a \in S, b \in S : a = At(S, k) /\ b = At(S, l) /\ Rank(S, a) = k /\ Rank(S, b) = l
    BY <1>7
  <2>2. a \in Nat /\ b \in Nat
    OBVIOUS
  <2>3. a < b => k < l
    BY <1>2, <2>1
  <2>4. b < a => l < k
    BY <1>2, <2>1
  <2>5. a = b => k = l
    BY <2>1
  <2>6. QED
    BY <2>1, <2>2, <2>3, <2>4, <2>5
<1>10. QED
  BY <1>1, <1>7, <1>8, <1>9
-----------------------------------------------------------------------------
(* What the next turn hands back *)

\* Parts of one element each make up the sequence of these elements.
LEMMA FlattenSingles ==
    ASSUME NEW T, NEW r \in Seq(T)
    PROVE  FlattenSeq([k \in DOMAIN r |-> <<r[k]>>]) = r
<1>1. \A k \in DOMAIN r : r[k] \in T
  OBVIOUS
<1>2. [k \in DOMAIN r |-> IF r[k] \in T THEN <<r[k]>> ELSE <<>>] = [k \in DOMAIN r |-> <<r[k]>>]
  BY <1>1
<1>3. Among(r, T) = r
  BY <1>1, AmongAll
<1>4. QED
  BY <1>2, <1>3 DEF Among

Entries == [type : {"reasoning", "message", "call", "output"}, item : Nat, text : Seq(Piece)]

\* The members of a set of places, in order.
InOrderOf(s, S) == [m \in 1 .. Cardinality(S) |-> s[At(S, m)]]

LEMMA InOrderSingles ==
    ASSUME NEW T, NEW S, S \subseteq Nat, IsFiniteSet(S), NEW s, \A i \in S : s[i] \in T
    PROVE  /\ InOrderOf(s, S) \in Seq(T) /\ Len(InOrderOf(s, S)) = Cardinality(S)
           /\ FlattenSeq([m \in 1 .. Cardinality(S) |-> <<s[At(S, m)]>>]) = InOrderOf(s, S)
<1>1. PICK n \in Nat : n = Cardinality(S)
  BY FS_CardinalityType
<1>2. \A m \in 1 .. n : s[At(S, m)] \in T
  BY <1>1, Enumerated
<1> DEFINE r == [m \in 1 .. n |-> s[At(S, m)]]
<1>3. r \in Seq(T) /\ Len(r) = n /\ DOMAIN r = 1 .. n
  BY <1>2
<1>4. \A m \in 1 .. n : r[m] = s[At(S, m)]
  OBVIOUS
<1>5. r = InOrderOf(s, S)
  BY <1>1 DEF InOrderOf
<1> HIDE DEF r
<1>6. FlattenSeq([m \in DOMAIN r |-> <<r[m]>>]) = r
  BY <1>3, FlattenSingles
<1>7. [m \in DOMAIN r |-> <<r[m]>>] = [m \in 1 .. Cardinality(S) |-> <<s[At(S, m)]>>]
  BY <1>1, <1>3, <1>4
<1>8. QED
  BY <1>1, <1>3, <1>5, <1>6, <1>7

\* What a capsule carries: the reasoning items in their order, with texts.
ThoughtAt(carried) == [i \in DOMAIN carried |-> Entry("reasoning", i, Text(i, carried[i]))]

IsCarried(c) == DOMAIN c \subseteq Nat /\ IsFiniteSet(DOMAIN c) /\ \A i \in DOMAIN c : c[i] \in Nat

\* These are the thoughts carried.
AreThoughts(th, carried) ==
    /\ th \in Seq(Entries)
    /\ \A j \in DOMAIN th : th[j].type = "reasoning" /\ th[j].item \in DOMAIN carried
    /\ \A i, j \in DOMAIN th : th[i].item = th[j].item => i = j
    /\ \A i \in DOMAIN carried : \E j \in DOMAIN th : th[j].item = i

LEMMA ThoughtsAre ==
    ASSUME NEW c, IsCarried(c)
    PROVE  AreThoughts(Thoughts(c), c)
<1> DEFINE D == DOMAIN c
           g == ThoughtAt(c)
<1>1. D \subseteq Nat /\ IsFiniteSet(D) /\ \A i \in D : c[i] \in Nat
  BY DEF IsCarried
<1>2. \A i \in D : /\ g[i] \in Entries /\ g[i].type = "reasoning" /\ g[i].item = i
  <2>1. ASSUME NEW i \in D PROVE Text(i, c[i]) \in Seq(Piece)
    BY <1>1, TextFacts
  <2>2. QED
    BY <1>1, <2>1 DEF ThoughtAt, Entry, Entries
<1>3. PICK n \in Nat : n = Cardinality(D)
  BY <1>1, FS_CardinalityType
<1>4. /\ \A k \in 1 .. n : At(D, k) \in D
      /\ \A i \in D : \E k \in 1 .. n : At(D, k) = i
      /\ \A k, l \in 1 .. n : k < l <=> At(D, k) < At(D, l)
  BY <1>1, <1>3, Enumerated
<1>5. Thoughts(c) = FlattenSeq([m \in 1 .. Cardinality(D) |-> <<g[At(D, m)]>>])
  <2>1. Thoughts(c) = FlattenSeq([m \in 1 .. Cardinality(D) |->
           <<Entry("reasoning", At(D, m), Text(At(D, m), c[At(D, m)]))>>])
    BY DEF Thoughts, InOrder, At
  <2>2. \A m \in 1 .. Cardinality(D) : g[At(D, m)] = Entry("reasoning", At(D, m), Text(At(D, m), c[At(D, m)]))
    BY <1>3, <1>4 DEF ThoughtAt
  <2> HIDE DEF g, D
  <2>3. QED
    BY <2>1, <2>2
<1> HIDE DEF D, g
<1>6. PICK th \in Seq(Entries) : th = Thoughts(c) /\ th = InOrderOf(g, D) /\ Len(th) = n
  <2>1. \A i \in D : g[i] \in Entries
    BY <1>2
  <2>2. /\ InOrderOf(g, D) \in Seq(Entries) /\ Len(InOrderOf(g, D)) = Cardinality(D)
        /\ FlattenSeq([m \in 1 .. Cardinality(D) |-> <<g[At(D, m)]>>]) = InOrderOf(g, D)
    BY <1>1, <2>1, InOrderSingles
  <2>3. QED
    BY <1>3, <1>5, <2>2
<1>7. DOMAIN th = 1 .. n /\ \A m \in 1 .. n : th[m] = g[At(D, m)]
  BY <1>3, <1>6 DEF InOrderOf
<1>8. \A m \in 1 .. n : th[m].type = "reasoning" /\ th[m].item = At(D, m)
  BY <1>2, <1>4, <1>7
<1>9. \A k, l \in 1 .. n : At(D, k) = At(D, l) => k = l
  <2>1. \A k \in 1 .. n : At(D, k) \in Nat
    BY <1>1, <1>4
  <2>2. QED
    BY <1>4, <2>1
<1>10. AreThoughts(th, c)
  <2>1. \A j \in DOMAIN th : th[j].type = "reasoning" /\ th[j].item \in DOMAIN c
    BY <1>4, <1>7, <1>8 DEF D
  <2>2. \A i, j \in DOMAIN th : th[i].item = th[j].item => i = j
    BY <1>7, <1>8, <1>9
  <2>3. \A i \in DOMAIN c : \E j \in DOMAIN th : th[j].item = i
    BY <1>4, <1>7, <1>8 DEF D
  <2>4. QED
    BY <2>1, <2>2, <2>3 DEF AreThoughts
<1>11. QED
  BY <1>6, <1>10

\* Two entries of one reasoning item.
Twins(a, b) == a.type = "reasoning" /\ b.type = "reasoning" /\ a.item = b.item

Kept(s) == {k \in DOMAIN s : \A j \in DOMAIN s : j < k => ~ Twins(s[j], s[k])}

\* What is not refused keeps the first of equal items.
LEMMA DedupeIs ==
    ASSUME NEW s \in Seq(Entries),
           \A j, k \in DOMAIN s : Twins(s[j], s[k]) => s[j] = s[k]
    PROVE  /\ Dedupe(s) = InOrderOf(s, Kept(s))
           /\ Kept(s) \subseteq DOMAIN s /\ Kept(s) \subseteq Nat /\ IsFiniteSet(Kept(s))
           /\ Len(Dedupe(s)) = Cardinality(Kept(s)) /\ Dedupe(s) \in Seq(Entries)
<1> DEFINE Twin(k, j) == /\ j < k /\ s[j].type = "reasoning" /\ s[k].type = "reasoning"
                         /\ s[j].item = s[k].item
           K == {k \in DOMAIN s : \A j \in DOMAIN s : ~ Twin(k, j)}
<1>1. DOMAIN s = 1 .. Len(s) /\ Len(s) \in Nat /\ \A k \in DOMAIN s : s[k] \in Entries
  OBVIOUS
<1>2. K = Kept(s)
  BY DEF Kept, Twins
<1>3. K \subseteq DOMAIN s /\ K \subseteq Nat
  BY <1>1
<1>4. IsFiniteSet(K)
  <2>1. IsFiniteSet(1 .. Len(s))
    BY <1>1, FS_Interval
  <2>2. QED
    BY <1>1, <1>3, <2>1, FS_Subset
<1>5. ~ (\E j, k \in DOMAIN s : s[k].type = "rejected" \/ (Twin(k, j) /\ s[j] # s[k]))
  <2>1. \A k \in DOMAIN s : s[k].type # "rejected"
    BY <1>1 DEF Entries
  <2>2. \A j, k \in DOMAIN s : Twin(k, j) => s[j] = s[k]
    BY DEF Twins
  <2>3. QED
    BY <2>1, <2>2
<1>6. Dedupe(s) = FlattenSeq([m \in 1 .. Cardinality(K) |-> <<s[At(K, m)]>>])
  <2>1. Dedupe(s) = InOrder(K, LAMBDA k : <<s[k]>>)
    BY <1>5 DEF Dedupe
  <2> HIDE DEF K
  <2>2. QED
    BY <2>1 DEF InOrder, At
<1> HIDE DEF K
<1>7. /\ InOrderOf(s, K) \in Seq(Entries) /\ Len(InOrderOf(s, K)) = Cardinality(K)
      /\ FlattenSeq([m \in 1 .. Cardinality(K) |-> <<s[At(K, m)]>>]) = InOrderOf(s, K)
  <2>1. \A i \in K : s[i] \in Entries
    BY <1>1, <1>3
  <2>2. QED
    BY <1>3, <1>4, <2>1, InOrderSingles
<1>8. QED
  BY <1>2, <1>3, <1>4, <1>6, <1>7

CallOf(c) == Entry("call", c.item, c.args)
OutputOf(c) == Entry("output", c.item, <<>>)

\* What is said of calls: these are the first n calls, and their results.
CallsIn(s, turn, n) ==
    /\ \A k \in DOMAIN s : s[k].type = "call" => \E j \in 1 .. n : s[k] = CallOf(turn[j])
    /\ \A k, l \in DOMAIN s : s[k].type = "call" /\ s[k] = s[l] => k = l
    /\ \A j \in 1 .. n : \E k, o \in DOMAIN s :
          k < o /\ s[k] = CallOf(turn[j]) /\ s[o] = OutputOf(turn[j])

\* What is said of the text: it is handed back if there is one.
TextIn(s, text) ==
    /\ \A k \in DOMAIN s : s[k].type = "message" => text # <<>> /\ s[k].text = text
    /\ text # <<>> => \E k \in DOMAIN s : s[k].type = "message"

\* A turn as it is handed back, before repeated reasoning goes: it opens with
\* the thoughts, which may come again.
Hands(s, th, text, turn, n) ==
    /\ s \in Seq(Entries) /\ Len(th) <= Len(s)
    /\ \A j \in DOMAIN th : s[j] = th[j]
    /\ \A k \in DOMAIN s : s[k].type = "reasoning" => \E j \in DOMAIN th : s[k] = th[j]
    /\ \A k \in DOMAIN s : s[k].type = "call" => k > Len(th)
    /\ TextIn(s, text)
    /\ CallsIn(s, turn, n)

\* and after: each thought once and before the calls.
ThoughtsIn(d, carried) ==
    /\ \A i \in DOMAIN carried : \E k \in DOMAIN d : d[k].type = "reasoning" /\ d[k].item = i
    /\ \A k, l \in DOMAIN d : Twins(d[k], d[l]) => k = l
    /\ \A k, l \in DOMAIN d : d[k].type = "reasoning" /\ d[l].type = "call" => k < l

LEMMA DedupeReplays ==
    ASSUME NEW s, NEW th, NEW carried, NEW text, NEW turn, NEW n \in Nat,
           AreThoughts(th, carried), Hands(s, th, text, turn, n)
    PROVE  /\ Dedupe(s) \in Seq(Entries)
           /\ ThoughtsIn(Dedupe(s), carried)
           /\ TextIn(Dedupe(s), text)
           /\ CallsIn(Dedupe(s), turn, n)
<1> DEFINE K == Kept(s)
           N == Cardinality(K)
           d == Dedupe(s)
<1>1. /\ s \in Seq(Entries) /\ th \in Seq(Entries) /\ Len(th) <= Len(s)
      /\ DOMAIN s = 1 .. Len(s) /\ DOMAIN th = 1 .. Len(th)
      /\ Len(s) \in Nat /\ Len(th) \in Nat
  BY DEF Hands, AreThoughts
<1>2. \A j, k \in DOMAIN s : Twins(s[j], s[k]) => s[j] = s[k]
  BY DEF Hands, AreThoughts, Twins
<1>3. /\ d = InOrderOf(s, K) /\ K \subseteq DOMAIN s /\ K \subseteq Nat /\ IsFiniteSet(K)
      /\ Len(d) = N /\ d \in Seq(Entries)
  BY <1>1, <1>2, DedupeIs
<1>4. /\ N \in Nat
      /\ \A m \in 1 .. N : At(K, m) \in K
      /\ \A i \in K : \E m \in 1 .. N : At(K, m) = i
      /\ \A k, l \in 1 .. N : k < l <=> At(K, k) < At(K, l)
  BY <1>3, Enumerated
<1>5. DOMAIN d = 1 .. N /\ \A m \in 1 .. N : d[m] = s[At(K, m)]
  BY <1>3 DEF InOrderOf
<1>6. \A i \in K, j \in DOMAIN s : j < i => ~ Twins(s[j], s[i])
  BY DEF Kept
<1>7. \A i \in DOMAIN s : s[i].type # "reasoning" => i \in K
  BY DEF Kept, Twins
<1> HIDE DEF K, N, d
<1>8. \A k, l \in 1 .. N : At(K, k) = At(K, l) => k = l
  <2>1. \A k \in 1 .. N : At(K, k) \in Nat /\ k \in Nat
    BY <1>3, <1>4
  <2>2. QED
    BY <1>4, <2>1
<1>9. ThoughtsIn(d, carried)
  <2>1. ASSUME NEW i \in DOMAIN carried
        PROVE  \E k \in DOMAIN d : d[k].type = "reasoning" /\ d[k].item = i
    <3>1. PICK j \in DOMAIN th : th[j].item = i
      BY DEF AreThoughts
    <3>2. j \in DOMAIN s /\ s[j] = th[j] /\ s[j].type = "reasoning"
      BY <1>1 DEF Hands, AreThoughts
    <3>3. \A l \in DOMAIN s : l < j => ~ Twins(s[l], s[j])
      <4>1. ASSUME NEW l \in DOMAIN s, l < j, Twins(s[l], s[j]) PROVE FALSE
        <5>1. l \in DOMAIN th
          BY <1>1, <4>1
        <5>2. s[l] = th[l] /\ th[l].item = th[j].item
          BY <3>2, <4>1, <5>1 DEF Hands, Twins
        <5>3. l = j
          BY <5>1, <5>2 DEF AreThoughts
        <5>4. QED
          BY <1>1, <4>1, <5>1, <5>3
      <4>2. QED
        BY <4>1
    <3>4. j \in K
      BY <3>2, <3>3 DEF K, Kept
    <3>5. PICK m \in 1 .. N : At(K, m) = j
      BY <1>4, <3>4
    <3>6. QED
      BY <1>5, <3>1, <3>2, <3>5
  <2>2. ASSUME NEW k \in DOMAIN d, NEW l \in DOMAIN d, Twins(d[k], d[l]) PROVE k = l
    <3>1. PICK a \in K, b \in K : a = At(K, k) /\ b = At(K, l) /\ d[k] = s[a] /\ d[l] = s[b]
      BY <1>4, <1>5
    <3>2. ~ (a < b) /\ ~ (b < a)
      BY <1>3, <1>6, <2>2, <3>1 DEF Twins
    <3>3. a = b
      BY <1>3, <3>2
    <3>4. QED
      BY <1>5, <1>8, <3>1, <3>3
  <2>3. ASSUME NEW k \in DOMAIN d, NEW l \in DOMAIN d, d[k].type = "reasoning", d[l].type = "call"
        PROVE  k < l
    <3>1. PICK a \in K, b \in K : a = At(K, k) /\ b = At(K, l) /\ d[k] = s[a] /\ d[l] = s[b]
      BY <1>4, <1>5
    <3>2. PICK j \in DOMAIN th : s[a] = th[j]
      BY <1>3, <2>3, <3>1 DEF Hands
    <3>3. j \in DOMAIN s /\ s[j] = th[j]
      BY <1>1 DEF Hands
    <3>4. ~ (j < a)
      BY <1>6, <2>3, <3>1, <3>2, <3>3 DEF Twins
    <3>5. b > Len(th)
      BY <1>3, <2>3, <3>1 DEF Hands
    <3>6. a \in Nat /\ b \in Nat /\ j \in 1 .. Len(th)
      BY <1>1, <1>3
    <3>7. a < b
      BY <1>1, <3>4, <3>5, <3>6
    <3>8. QED
      BY <1>4, <1>5, <3>1, <3>7
  <2>4. QED
    BY <2>1, <2>2, <2>3 DEF ThoughtsIn
<1>10. TextIn(d, text)
  <2>1. TextIn(s, text)
    BY DEF Hands
  <2>2. \A k \in DOMAIN d : d[k].type = "message" => text # <<>> /\ d[k].text = text
    BY <1>3, <1>4, <1>5, <2>1 DEF TextIn
  <2>3. ASSUME text # <<>> PROVE \E k \in DOMAIN d : d[k].type = "message"
    <3>1. PICK i \in DOMAIN s : s[i].type = "message"
      BY <2>1, <2>3 DEF TextIn
    <3>2. i \in K
      BY <1>7, <3>1
    <3>3. PICK m \in 1 .. N : At(K, m) = i
      BY <1>4, <3>2
    <3>4. QED
      BY <1>5, <3>1, <3>3
  <2>4. QED
    BY <2>2, <2>3 DEF TextIn
<1>11. CallsIn(d, turn, n)
  <2>1. CallsIn(s, turn, n)
    BY DEF Hands
  <2>2. \A k \in DOMAIN d : d[k].type = "call" => \E j \in 1 .. n : d[k] = CallOf(turn[j])
    BY <1>3, <1>4, <1>5, <2>1 DEF CallsIn
  <2>3. ASSUME NEW k \in DOMAIN d, NEW l \in DOMAIN d, d[k].type = "call", d[k] = d[l]
        PROVE  k = l
    <3>1. PICK a \in K, b \in K : a = At(K, k) /\ b = At(K, l) /\ d[k] = s[a] /\ d[l] = s[b]
      BY <1>4, <1>5
    <3>2. a = b
      BY <1>3, <2>1, <2>3, <3>1 DEF CallsIn
    <3>3. QED
      BY <1>5, <1>8, <3>1, <3>2
  <2>4. ASSUME NEW j \in 1 .. n
        PROVE  \E k, o \in DOMAIN d : k < o /\ d[k] = CallOf(turn[j]) /\ d[o] = OutputOf(turn[j])
    <3>1. PICK a \in DOMAIN s, b \in DOMAIN s :
             a < b /\ s[a] = CallOf(turn[j]) /\ s[b] = OutputOf(turn[j])
      BY <2>1 DEF CallsIn
    <3>2. a \in K /\ b \in K
      BY <1>7, <3>1 DEF CallOf, OutputOf, Entry
    <3>3. PICK k \in 1 .. N, o \in 1 .. N : At(K, k) = a /\ At(K, o) = b
      BY <1>4, <3>2
    <3>4. k < o
      BY <1>4, <3>1, <3>3
    <3>5. QED
      BY <1>5, <3>1, <3>3, <3>4
  <2>5. QED
    BY <2>2, <2>3, <2>4 DEF CallsIn
<1>12. QED
  BY <1>3, <1>9, <1>10, <1>11 DEF d

\* These come in s behind m others.
Holds(s, m, e) == \A k \in 1 .. Len(e) : m + k \in 1 .. Len(s) /\ s[m + k] = e[k]

LEMMA JoinHolds ==
    ASSUME NEW T, NEW x \in Seq(T), NEW y \in Seq(T)
    PROVE  /\ x \o y \in Seq(T) /\ Len(x \o y) = Len(x) + Len(y)
           /\ Holds(x \o y, 0, x) /\ Holds(x \o y, Len(x), y)
           /\ \A m \in Nat, e \in Seq(T) : Holds(x, m, e) => Holds(x \o y, m, e)
           /\ \A k \in 1 .. Len(x \o y) : \/ k \in 1 .. Len(x)
                                          \/ \E j \in 1 .. Len(y) : k = Len(x) + j
<1>1. PICK s \in Seq(T) : s = x \o y
  BY ConcatProperties
<1>2. /\ Len(s) = Len(x) + Len(y)
      /\ \A i \in 1 .. Len(x) + Len(y) : s[i] = IF i <= Len(x) THEN x[i] ELSE y[i - Len(x)]
  BY <1>1, ConcatProperties
<1>3. PICK lx \in Nat, ly \in Nat : lx = Len(x) /\ ly = Len(y)
  OBVIOUS
<1>4. ASSUME NEW k \in 1 .. lx PROVE k \in 1 .. lx + ly /\ s[k] = x[k]
  <2>1. k \in 1 .. lx + ly /\ k <= lx
    OBVIOUS
  <2>2. QED
    BY <1>2, <1>3, <2>1
<1>5. ASSUME NEW k \in 1 .. ly PROVE lx + k \in 1 .. lx + ly /\ s[lx + k] = y[k]
  <2>1. lx + k \in 1 .. lx + ly /\ ~ (lx + k <= lx) /\ lx + k - lx = k
    OBVIOUS
  <2>2. QED
    BY <1>2, <1>3, <2>1, SMTT(60)
<1>6. Holds(s, 0, x)
  <2>1. \A k \in 1 .. lx : 0 + k = k
    OBVIOUS
  <2>2. QED
    BY <1>2, <1>3, <1>4, <2>1 DEF Holds
<1>7. Holds(s, Len(x), y)
  BY <1>2, <1>3, <1>5 DEF Holds
<1>8. ASSUME NEW m \in Nat, NEW e \in Seq(T), Holds(x, m, e) PROVE Holds(s, m, e)
  BY <1>2, <1>3, <1>4, <1>8 DEF Holds
<1>9. ASSUME NEW k \in 1 .. lx + ly PROVE k \in 1 .. lx \/ \E j \in 1 .. ly : k = lx + j
  <2>1. k > lx => k - lx \in 1 .. ly /\ k = lx + (k - lx)
    OBVIOUS
  <2>2. k > lx \/ k \in 1 .. lx
    OBVIOUS
  <2>3. QED
    BY <2>1, <2>2
<1>10. QED
  BY <1>1, <1>2, <1>3, <1>6, <1>7, <1>8, <1>9

\* Places in four sequences joined to one.
FourPlaces(s, a, b, c, e) ==
    /\ Holds(s, 0, a) /\ Holds(s, Len(a), b)
    /\ Holds(s, Len(a) + Len(b), c) /\ Holds(s, Len(a) + Len(b) + Len(c), e)
    /\ \A k \in 1 .. Len(s) : \/ k \in 1 .. Len(a)
                              \/ \E j \in 1 .. Len(b) : k = Len(a) + j
                              \/ \E j \in 1 .. Len(c) : k = Len(a) + Len(b) + j
                              \/ \E j \in 1 .. Len(e) : k = Len(a) + Len(b) + Len(c) + j

LEMMA FourParts ==
    ASSUME NEW T, NEW a \in Seq(T), NEW b \in Seq(T), NEW c \in Seq(T), NEW e \in Seq(T)
    PROVE  /\ ((a \o b) \o c) \o e \in Seq(T)
           /\ Len(((a \o b) \o c) \o e) = Len(a) + Len(b) + Len(c) + Len(e)
           /\ FourPlaces(((a \o b) \o c) \o e, a, b, c, e)
<1>1. PICK p \in Seq(T) : p = a \o b
  BY ConcatProperties
<1>2. PICK q \in Seq(T) : q = p \o c
  BY ConcatProperties
<1>3. PICK s \in Seq(T) : s = q \o e
  BY ConcatProperties
<1>4. PICK la \in Nat, lb \in Nat, lc \in Nat, le \in Nat :
         la = Len(a) /\ lb = Len(b) /\ lc = Len(c) /\ le = Len(e)
  OBVIOUS
<1>5. /\ Len(p) = la + lb /\ Holds(p, 0, a) /\ Holds(p, la, b)
      /\ \A k \in 1 .. Len(p) : k \in 1 .. la \/ \E j \in 1 .. lb : k = la + j
  BY <1>1, <1>4, JoinHolds
<1>6. PICK lp \in Nat : lp = Len(p) /\ lp = la + lb
  BY <1>5
<1>7. /\ Len(q) = lp + lc /\ Holds(q, lp, c)
      /\ \A m \in Nat, z \in Seq(T) : Holds(p, m, z) => Holds(q, m, z)
      /\ \A k \in 1 .. Len(q) : k \in 1 .. lp \/ \E j \in 1 .. lc : k = lp + j
  <2>1. /\ Len(q) = Len(p) + Len(c) /\ Holds(q, Len(p), c)
        /\ \A m \in Nat, z \in Seq(T) : Holds(p, m, z) => Holds(q, m, z)
        /\ \A k \in 1 .. Len(q) : k \in 1 .. Len(p) \/ \E j \in 1 .. Len(c) : k = Len(p) + j
    BY <1>2, JoinHolds
  <2>2. QED
    BY <1>4, <1>6, <2>1
<1>8. PICK lq \in Nat : lq = Len(q) /\ lq = la + lb + lc
  BY <1>6, <1>7
<1>9. /\ Len(s) = lq + le /\ Holds(s, lq, e)
      /\ \A m \in Nat, z \in Seq(T) : Holds(q, m, z) => Holds(s, m, z)
      /\ \A k \in 1 .. Len(s) : k \in 1 .. lq \/ \E j \in 1 .. le : k = lq + j
  <2>1. /\ Len(s) = Len(q) + Len(e) /\ Holds(s, Len(q), e)
        /\ \A m \in Nat, z \in Seq(T) : Holds(q, m, z) => Holds(s, m, z)
        /\ \A k \in 1 .. Len(s) : k \in 1 .. Len(q) \/ \E j \in 1 .. Len(e) : k = Len(q) + j
    BY <1>3, JoinHolds
  <2>2. QED
    BY <1>4, <1>8, <2>1
<1>10. Holds(s, 0, a) /\ Holds(s, la, b)
  BY <1>5, <1>7, <1>9
<1>11. Holds(s, la + lb, c)
  BY <1>6, <1>7, <1>9
<1>12. Holds(s, la + lb + lc, e)
  BY <1>8, <1>9
<1>13. ASSUME NEW k \in 1 .. Len(s)
       PROVE  \/ k \in 1 .. la
              \/ \E j \in 1 .. lb : k = la + j
              \/ \E j \in 1 .. lc : k = la + lb + j
              \/ \E j \in 1 .. le : k = la + lb + lc + j
  BY <1>5, <1>6, <1>7, <1>8, <1>9
<1>14. FourPlaces(s, a, b, c, e)
  BY <1>4, <1>10, <1>11, <1>12, <1>13 DEF FourPlaces
<1>15. Len(s) = la + lb + lc + le
  BY <1>8, <1>9
<1>16. QED
  BY <1>1, <1>2, <1>3, <1>4, <1>14, <1>15

Message(text) == IF text = <<>> THEN <<>> ELSE <<Entry("message", 0, text)>>

LEMMA MessageType ==
    ASSUME NEW text \in Seq(Piece)
    PROVE  /\ Message(text) \in Seq(Entries)
           /\ text = <<>> => Len(Message(text)) = 0
           /\ text # <<>> => /\ Len(Message(text)) = 1
                             /\ Message(text)[1] = Entry("message", 0, text)
<1>1. Entry("message", 0, text) \in Entries
  BY DEF Entry, Entries
<1>2. CASE text = <<>>
  <2>1. Message(text) = <<>> /\ <<>> \in Seq(Entries) /\ Len(<<>>) = 0
    BY <1>2 DEF Message
  <2>2. QED
    BY <1>2, <2>1
<1>3. CASE text # <<>>
  <2>1. PICK m \in Entries : m = Entry("message", 0, text)
    BY <1>1
  <2>2. Message(text) = <<m>> /\ <<m>> \in Seq(Entries) /\ Len(<<m>>) = 1 /\ <<m>>[1] = m
    BY <1>3, <2>1 DEF Message
  <2>3. QED
    BY <1>3, <2>1, <2>2
<1>4. QED
  BY <1>2, <1>3

\* No two of the first n calls are of one item.
Apiece(turn, n) ==
    /\ \A j \in 1 .. n : turn[j].item \in Nat /\ turn[j].args \in Seq(Piece)
    /\ \A i, j \in 1 .. n : turn[i].item = turn[j].item => i = j

\* One message with its calls, and their results.
LEMMA JointHands ==
    ASSUME NEW th, NEW carried, AreThoughts(th, carried), NEW text \in Seq(Piece),
           NEW turn, NEW n \in Nat, Apiece(turn, n)
    PROVE  Hands(((th \o Message(text)) \o [k \in 1 .. n |-> CallOf(turn[k])])
                    \o [k \in 1 .. n |-> OutputOf(turn[k])],
                 th, text, turn, n)
<1>1. \A j \in 1 .. n : CallOf(turn[j]) \in Entries /\ OutputOf(turn[j]) \in Entries
  BY DEF Apiece, CallOf, OutputOf, Entry, Entries
<1>2. PICK cs \in Seq(Entries) : /\ cs = [k \in 1 .. n |-> CallOf(turn[k])] /\ Len(cs) = n
                                 /\ \A j \in 1 .. n : cs[j] = CallOf(turn[j])
  <2> DEFINE z == [k \in 1 .. n |-> CallOf(turn[k])]
  <2>1. z \in Seq(Entries) /\ Len(z) = n /\ \A j \in 1 .. n : z[j] = CallOf(turn[j])
    BY <1>1
  <2>2. QED
    BY <2>1
<1>3. PICK os \in Seq(Entries) : /\ os = [k \in 1 .. n |-> OutputOf(turn[k])] /\ Len(os) = n
                                 /\ \A j \in 1 .. n : os[j] = OutputOf(turn[j])
  <2> DEFINE z == [k \in 1 .. n |-> OutputOf(turn[k])]
  <2>1. z \in Seq(Entries) /\ Len(z) = n /\ \A j \in 1 .. n : z[j] = OutputOf(turn[j])
    BY <1>1
  <2>2. QED
    BY <2>1
<1>4. PICK msg \in Seq(Entries) :
         /\ msg = Message(text) /\ (text = <<>> => Len(msg) = 0)
         /\ text # <<>> => (Len(msg) = 1 /\ msg[1] = Entry("message", 0, text))
  BY MessageType
<1>5. th \in Seq(Entries) /\ \A j \in DOMAIN th : th[j].type = "reasoning"
  BY DEF AreThoughts
<1>6. PICK s \in Seq(Entries) :
         /\ s = ((th \o msg) \o cs) \o os
         /\ Len(s) = Len(th) + Len(msg) + Len(cs) + Len(os)
         /\ FourPlaces(s, th, msg, cs, os)
  BY <1>5, FourParts
<1>7. PICK lt \in Nat, lm \in Nat :
         /\ lt = Len(th) /\ lm = Len(msg) /\ DOMAIN th = 1 .. lt
         /\ DOMAIN s = 1 .. Len(s) /\ Len(s) = lt + lm + n + n
  BY <1>2, <1>3, <1>5, <1>6
<1>8. /\ \A k \in 1 .. lt : k \in DOMAIN s /\ s[k] = th[k]
      /\ \A k \in 1 .. lm : lt + k \in DOMAIN s /\ s[lt + k] = msg[k]
      /\ \A k \in 1 .. n : lt + lm + k \in DOMAIN s /\ s[lt + lm + k] = CallOf(turn[k])
      /\ \A k \in 1 .. n : lt + lm + n + k \in DOMAIN s /\ s[lt + lm + n + k] = OutputOf(turn[k])
      /\ \A k \in DOMAIN s : \/ k \in 1 .. lt
                             \/ \E j \in 1 .. lm : k = lt + j
                             \/ \E j \in 1 .. n : k = lt + lm + j
                             \/ \E j \in 1 .. n : k = lt + lm + n + j
  <2>1. \A k \in 1 .. lt : k \in DOMAIN s /\ s[k] = th[k]
    <3>1. \A k \in 1 .. lt : 0 + k = k
      OBVIOUS
    <3>2. QED
      BY <1>6, <1>7, <3>1 DEF FourPlaces, Holds
  <2>2. \A k \in 1 .. lm : lt + k \in DOMAIN s /\ s[lt + k] = msg[k]
    BY <1>6, <1>7 DEF FourPlaces, Holds
  <2>3. \A k \in 1 .. n : lt + lm + k \in DOMAIN s /\ s[lt + lm + k] = CallOf(turn[k])
    BY <1>2, <1>6, <1>7 DEF FourPlaces, Holds
  <2>4. \A k \in 1 .. n : lt + lm + n + k \in DOMAIN s /\ s[lt + lm + n + k] = OutputOf(turn[k])
    BY <1>2, <1>3, <1>6, <1>7 DEF FourPlaces, Holds
  <2>5. \A k \in DOMAIN s : \/ k \in 1 .. lt
                            \/ \E j \in 1 .. lm : k = lt + j
                            \/ \E j \in 1 .. n : k = lt + lm + j
                            \/ \E j \in 1 .. n : k = lt + lm + n + j
    <3>1. \A k \in 1 .. Len(s) : \/ k \in 1 .. Len(th)
                                 \/ \E j \in 1 .. Len(msg) : k = Len(th) + j
                                 \/ \E j \in 1 .. Len(cs) : k = Len(th) + Len(msg) + j
                                 \/ \E j \in 1 .. Len(os) : k = Len(th) + Len(msg) + Len(cs) + j
      BY <1>6 DEF FourPlaces
    <3>2. Len(cs) = n /\ Len(os) = n /\ Len(th) = lt /\ Len(msg) = lm
      BY <1>2, <1>3, <1>7
    <3>3. DOMAIN s = 1 .. Len(s)
      BY <1>7
    <3>4. QED
      BY <3>1, <3>2, <3>3, ZenonT(30)
  <2>6. QED
    BY <2>1, <2>2, <2>3, <2>4, <2>5
<1>9. \A j \in 1 .. n : /\ CallOf(turn[j]).type = "call" /\ CallOf(turn[j]).item = turn[j].item
                        /\ OutputOf(turn[j]).type = "output"
  BY DEF CallOf, OutputOf, Entry
<1>10. ASSUME NEW k \in DOMAIN s
       PROVE  \/ k \in 1 .. lt /\ s[k] = th[k] /\ s[k].type = "reasoning"
              \/ text # <<>> /\ s[k].type = "message" /\ s[k].text = text
              \/ \E j \in 1 .. n : /\ k = lt + lm + j /\ s[k] = CallOf(turn[j])
                                   /\ s[k].type = "call" /\ s[k].item = turn[j].item
              \/ s[k].type = "output"
  <2>1. CASE k \in 1 .. lt
    <3>1. s[k] = th[k]
      BY <1>8, <2>1
    <3>2. k \in DOMAIN th
      BY <1>7, <2>1
    <3>3. th[k].type = "reasoning"
      BY <1>5, <3>2
    <3>4. QED
      BY <2>1, <3>1, <3>3
  <2>2. CASE \E j \in 1 .. lm : k = lt + j
    <3>1. PICK j \in 1 .. lm : k = lt + j
      BY <2>2
    <3>2. text # <<>>
      BY <1>4, <1>7, <3>1
    <3>3. lm = 1
      BY <1>4, <1>7, <3>2
    <3>4. j = 1
      BY <3>1, <3>3
    <3>5. s[k] = Entry("message", 0, text)
      BY <1>4, <1>8, <3>1, <3>2, <3>4
    <3>6. QED
      BY <3>2, <3>5 DEF Entry
  <2>3. CASE \E j \in 1 .. n : k = lt + lm + j
    <3>1. PICK j \in 1 .. n : k = lt + lm + j
      BY <2>3
    <3>2. s[k] = CallOf(turn[j])
      BY <1>8, <3>1
    <3>3. s[k].type = "call" /\ s[k].item = turn[j].item
      BY <1>9, <3>2
    <3>4. QED
      BY <3>1, <3>2, <3>3
  <2>4. CASE \E j \in 1 .. n : k = lt + lm + n + j
    <3>1. PICK j \in 1 .. n : k = lt + lm + n + j
      BY <2>4
    <3>2. s[k] = OutputOf(turn[j])
      BY <1>8, <3>1
    <3>3. s[k].type = "output"
      BY <1>9, <3>2
    <3>4. QED
      BY <3>3
  <2>5. QED
    BY <1>8, <2>1, <2>2, <2>3, <2>4
<1>11. TextIn(s, text)
  <2>1. ASSUME NEW k \in DOMAIN s, s[k].type = "message"
        PROVE  text # <<>> /\ s[k].text = text
    BY <1>10, <2>1
  <2>2. ASSUME text # <<>> PROVE \E k \in DOMAIN s : s[k].type = "message"
    <3>1. lm = 1 /\ msg[1] = Entry("message", 0, text)
      BY <1>4, <1>7, <2>2
    <3>2. lt + 1 \in DOMAIN s /\ s[lt + 1] = msg[1]
      BY <1>8, <3>1
    <3>3. QED
      BY <3>1, <3>2 DEF Entry
  <2>3. QED
    BY <2>1, <2>2 DEF TextIn
<1>12. CallsIn(s, turn, n)
  <2>1. ASSUME NEW k \in DOMAIN s, s[k].type = "call"
        PROVE  \E j \in 1 .. n : /\ s[k] = CallOf(turn[j]) /\ k = lt + lm + j
                                 /\ s[k].item = turn[j].item
    BY <1>10, <2>1
  <2>2. ASSUME NEW k \in DOMAIN s, NEW l \in DOMAIN s, s[k].type = "call", s[k] = s[l]
        PROVE  k = l
    <3>1. PICK i \in 1 .. n : k = lt + lm + i /\ s[k].item = turn[i].item
      BY <2>1, <2>2
    <3>2. PICK j \in 1 .. n : l = lt + lm + j /\ s[l].item = turn[j].item
      BY <2>1, <2>2
    <3>3. i = j
      BY <2>2, <3>1, <3>2 DEF Apiece
    <3>4. QED
      BY <3>1, <3>2, <3>3
  <2>3. ASSUME NEW j \in 1 .. n
        PROVE  \E k, o \in DOMAIN s : k < o /\ s[k] = CallOf(turn[j]) /\ s[o] = OutputOf(turn[j])
    <3>1. /\ lt + lm + j \in DOMAIN s /\ s[lt + lm + j] = CallOf(turn[j])
          /\ lt + lm + n + j \in DOMAIN s /\ s[lt + lm + n + j] = OutputOf(turn[j])
      BY <1>8
    <3>2. lt + lm + j < lt + lm + n + j
      OBVIOUS
    <3>3. QED
      BY <3>1, <3>2
  <2>4. QED
    BY <2>1, <2>2, <2>3 DEF CallsIn
<1>13. \A k \in DOMAIN s : s[k].type = "reasoning" => \E j \in DOMAIN th : s[k] = th[j]
  BY <1>7, <1>10
<1>14. ASSUME NEW k \in DOMAIN s, s[k].type = "call" PROVE k > Len(th)
  <2>1. PICK j \in 1 .. n : k = lt + lm + j
    BY <1>10, <1>14
  <2>2. QED
    BY <1>7, <2>1
<1>15. Len(th) <= Len(s) /\ \A j \in DOMAIN th : s[j] = th[j]
  BY <1>7, <1>8
<1>16. Hands(s, th, text, turn, n)
  BY <1>11, <1>12, <1>13, <1>14, <1>15 DEF Hands
<1>17. QED
  BY <1>2, <1>3, <1>4, <1>6, <1>16

\* One more call, in a message of its own, with its result.
LEMMA HandsMore ==
    ASSUME NEW s, NEW b, NEW th \in Seq(Entries), NEW text, NEW turn, NEW n \in Nat, NEW one,
           Apiece(turn, n + 1), one[1] = turn[n + 1],
           Hands(s, th, text, turn, n), Hands(b, th, <<>>, one, 1)
    PROVE  Hands(s \o b, th, text, turn, n + 1)
<1>1. s \in Seq(Entries) /\ b \in Seq(Entries)
  BY DEF Hands
<1>2. PICK z \in Seq(Entries) :
         /\ z = s \o b /\ Len(z) = Len(s) + Len(b) /\ Holds(z, 0, s) /\ Holds(z, Len(s), b)
         /\ \A k \in 1 .. Len(z) : k \in 1 .. Len(s) \/ \E j \in 1 .. Len(b) : k = Len(s) + j
  <2>1. /\ s \o b \in Seq(Entries) /\ Len(s \o b) = Len(s) + Len(b)
        /\ Holds(s \o b, 0, s) /\ Holds(s \o b, Len(s), b)
        /\ \A k \in 1 .. Len(s \o b) : \/ k \in 1 .. Len(s)
                                       \/ \E j \in 1 .. Len(b) : k = Len(s) + j
    BY <1>1, JoinHolds
  <2>2. QED
    BY <2>1
<1>3. PICK ls \in Nat, lb \in Nat, lt \in Nat :
         /\ ls = Len(s) /\ lb = Len(b) /\ lt = Len(th) /\ lt <= ls
         /\ DOMAIN s = 1 .. ls /\ DOMAIN b = 1 .. lb /\ DOMAIN th = 1 .. lt
         /\ DOMAIN z = 1 .. Len(z) /\ Len(z) = ls + lb
  <2>1. Len(th) <= Len(s)
    BY DEF Hands
  <2>2. QED
    BY <1>1, <1>2, <2>1
<1>4. /\ \A k \in DOMAIN s : k \in DOMAIN z /\ z[k] = s[k]
      /\ \A k \in DOMAIN b : ls + k \in DOMAIN z /\ z[ls + k] = b[k]
      /\ \A k \in DOMAIN z : k \in DOMAIN s \/ \E j \in DOMAIN b : k = ls + j
  <2>1. \A k \in 1 .. ls : 0 + k = k
    OBVIOUS
  <2>2. \A k \in 1 .. ls : k \in 1 .. Len(z) /\ z[k] = s[k]
    BY <1>2, <1>3, <2>1 DEF Holds
  <2>3. \A k \in 1 .. lb : ls + k \in 1 .. Len(z) /\ z[ls + k] = b[k]
    BY <1>2, <1>3 DEF Holds
  <2>4. \A k \in 1 .. Len(z) : k \in 1 .. ls \/ \E j \in 1 .. lb : k = ls + j
    BY <1>2, <1>3
  <2>5. QED
    BY <1>3, <2>2, <2>3, <2>4
<1>5. /\ TextIn(s, text) /\ TextIn(b, <<>>) /\ CallsIn(s, turn, n) /\ CallsIn(b, one, 1)
      /\ \A j \in DOMAIN th : s[j] = th[j]
      /\ \A k \in DOMAIN s : s[k].type = "reasoning" => \E j \in DOMAIN th : s[k] = th[j]
      /\ \A k \in DOMAIN b : b[k].type = "reasoning" => \E j \in DOMAIN th : b[k] = th[j]
      /\ \A k \in DOMAIN s : s[k].type = "call" => k > lt
  BY <1>3 DEF Hands
<1>6. \A j \in DOMAIN th : z[j] = th[j]
  <2>1. \A j \in DOMAIN th : j \in DOMAIN s
    BY <1>3
  <2>2. QED
    BY <1>4, <1>5, <2>1
<1>7. \A k \in DOMAIN z : z[k].type = "reasoning" => \E j \in DOMAIN th : z[k] = th[j]
  BY <1>4, <1>5
<1>8. ASSUME NEW k \in DOMAIN z, z[k].type = "call" PROVE k > lt
  <2>1. CASE k \in DOMAIN s
    BY <1>4, <1>5, <1>8, <2>1
  <2>2. CASE \E j \in DOMAIN b : k = ls + j
    BY <1>3, <2>2
  <2>3. QED
    BY <1>4, <2>1, <2>2
<1>9. TextIn(z, text)
  BY <1>4, <1>5 DEF TextIn
<1>10. /\ \A j \in 1 .. 1 : j = 1
       /\ 1 \in 1 .. 1 /\ n + 1 \in 1 .. n + 1
       /\ \A j \in 1 .. n : j \in 1 .. n + 1 /\ j # n + 1
       /\ \A j \in 1 .. n + 1 : j \in 1 .. n \/ j = n + 1
  OBVIOUS
<1>11. \A k \in DOMAIN s : s[k].type = "call" => \E j \in 1 .. n : s[k] = CallOf(turn[j])
  BY <1>5 DEF CallsIn
<1>12. \A k \in DOMAIN b : b[k].type = "call" => b[k] = CallOf(turn[n + 1])
  BY <1>5, <1>10 DEF CallsIn
<1>13. \A j \in 1 .. n : CallOf(turn[j]) # CallOf(turn[n + 1])
  <2>1. \A j \in 1 .. n : turn[j].item # turn[n + 1].item
    BY <1>10 DEF Apiece
  <2>2. QED
    BY <2>1 DEF CallOf, Entry
<1>14. CallsIn(z, turn, n + 1)
  <2>1. \A k \in DOMAIN z : z[k].type = "call" => \E j \in 1 .. n + 1 : z[k] = CallOf(turn[j])
    BY <1>4, <1>10, <1>11, <1>12
  <2>2. ASSUME NEW k \in DOMAIN z, NEW l \in DOMAIN z, z[k].type = "call", z[k] = z[l]
        PROVE  k = l
    <3>1. CASE k \in DOMAIN s /\ l \in DOMAIN s
      BY <1>4, <1>5, <2>2, <3>1 DEF CallsIn
    <3>2. CASE (\E j \in DOMAIN b : k = ls + j) /\ (\E j \in DOMAIN b : l = ls + j)
      <4>1. PICK i \in DOMAIN b, j \in DOMAIN b : k = ls + i /\ l = ls + j
        BY <3>2
      <4>2. b[i] = b[j] /\ b[i].type = "call"
        BY <1>4, <2>2, <4>1
      <4>3. i = j
        BY <1>5, <4>2 DEF CallsIn
      <4>4. QED
        BY <4>1, <4>3
    <3>3. CASE k \in DOMAIN s /\ (\E j \in DOMAIN b : l = ls + j)
      <4>1. PICK j \in DOMAIN b : l = ls + j
        BY <3>3
      <4>2. z[k] = s[k] /\ z[l] = b[j]
        BY <1>4, <3>3, <4>1
      <4>3. \E i \in 1 .. n : s[k] = CallOf(turn[i])
        BY <1>11, <2>2, <3>3, <4>2
      <4>4. b[j] = CallOf(turn[n + 1])
        BY <1>12, <2>2, <4>2
      <4>5. QED
        BY <1>13, <2>2, <4>2, <4>3, <4>4
    <3>4. CASE l \in DOMAIN s /\ (\E j \in DOMAIN b : k = ls + j)
      <4>1. PICK j \in DOMAIN b : k = ls + j
        BY <3>4
      <4>2. z[l] = s[l] /\ z[k] = b[j]
        BY <1>4, <3>4, <4>1
      <4>3. \E i \in 1 .. n : s[l] = CallOf(turn[i])
        BY <1>11, <2>2, <3>4, <4>2
      <4>4. b[j] = CallOf(turn[n + 1])
        BY <1>12, <2>2, <4>2
      <4>5. QED
        BY <1>13, <2>2, <4>2, <4>3, <4>4
    <3>5. QED
      BY <1>4, <3>1, <3>2, <3>3, <3>4
  <2>3. ASSUME NEW j \in 1 .. n + 1
        PROVE  \E k, o \in DOMAIN z : k < o /\ z[k] = CallOf(turn[j]) /\ z[o] = OutputOf(turn[j])
    <3>1. CASE j \in 1 .. n
      BY <1>4, <1>5, <3>1 DEF CallsIn
    <3>2. CASE j = n + 1
      <4>1. PICK k \in DOMAIN b, o \in DOMAIN b :
               k < o /\ b[k] = CallOf(turn[j]) /\ b[o] = OutputOf(turn[j])
        BY <1>5, <1>10, <3>2 DEF CallsIn
      <4>2. /\ ls + k \in DOMAIN z /\ z[ls + k] = CallOf(turn[j])
            /\ ls + o \in DOMAIN z /\ z[ls + o] = OutputOf(turn[j])
        BY <1>4, <4>1
      <4>3. ls + k < ls + o
        BY <1>3, <4>1
      <4>4. QED
        BY <4>2, <4>3
    <3>3. QED
      BY <1>10, <3>1, <3>2
  <2>4. QED
    BY <2>1, <2>2, <2>3 DEF CallsIn
<1>15. Hands(z, th, text, turn, n + 1)
  BY <1>2, <1>3, <1>6, <1>7, <1>8, <1>9, <1>14 DEF Hands
<1>16. QED
  BY <1>2, <1>15

\* What is left of a text when the summary goes.
Rest(text, c) == IF c = Empty THEN text ELSE Strip(text, Summary(c))

\* The calls of a turn all carry the same reasoning.
AllCarry(turn, n, c) ==
    /\ DOMAIN turn = 1 .. n
    /\ \A k \in 1 .. n : turn[k].carries = c
    /\ n = 0 => turn = <<>> /\ c = Empty

LEMMA AssistantIs ==
    ASSUME NEW text, NEW turn, NEW n \in Nat, NEW c, AllCarry(turn, n, c)
    PROVE  Assistant(text, turn) = (Thoughts(c) \o Message(Rest(text, c)))
                                      \o [k \in 1 .. n |-> CallOf(turn[k])]
<1>1. DOMAIN turn = 1 .. n /\ \A k \in 1 .. n : turn[k].carries = c
  BY DEF AllCarry
<1>2. (IF turn = <<>> THEN Empty ELSE turn[1].carries) = c
  <2>1. CASE n = 0
    BY <2>1 DEF AllCarry
  <2>2. CASE n # 0
    <3>1. 1 \in 1 .. n
      BY <2>2
    <3>2. turn # <<>>
      BY <1>1, <3>1
    <3>3. QED
      BY <1>1, <3>1, <3>2
  <2>3. QED
    BY <2>1, <2>2
<1>3. ~ Cardinality({turn[k].carries : k \in DOMAIN turn}) > 1
  <2>1. CASE n = 0
    <3>1. {turn[k].carries : k \in DOMAIN turn} = {}
      BY <1>1, <2>1
    <3>2. QED
      BY <3>1, FS_EmptySet
  <2>2. CASE n # 0
    <3>1. 1 \in 1 .. n
      BY <2>2
    <3>2. {turn[k].carries : k \in DOMAIN turn} = {c}
      BY <1>1, <3>1
    <3>3. Cardinality({c}) = 1
      BY FS_Singleton
    <3>4. QED
      BY <3>2, <3>3
  <2>3. QED
    BY <2>1, <2>2
<1>4. [k \in DOMAIN turn |-> Entry("call", turn[k].item, turn[k].args)]
         = [k \in 1 .. n |-> CallOf(turn[k])]
  BY <1>1 DEF CallOf
<1>5. QED
  BY <1>2, <1>3, <1>4 DEF Assistant, Message, Rest

LEMMA ResultsAre ==
    ASSUME NEW turn, NEW n, DOMAIN turn = 1 .. n
    PROVE  Results(turn) = [k \in 1 .. n |-> OutputOf(turn[k])]
BY DEF Results, OutputOf

\* In one message,
LEMMA JointIs ==
    ASSUME NEW turn, NEW n \in Nat, NEW c, AllCarry(turn, n, c), Apiece(turn, n), IsCarried(c),
           NEW echo, Rest(echo, c) \in Seq(Piece)
    PROVE  Hands(Joint(echo, turn), Thoughts(c), Rest(echo, c), turn, n)
<1>1. AreThoughts(Thoughts(c), c)
  BY ThoughtsAre
<1>2. Assistant(echo, turn) = (Thoughts(c) \o Message(Rest(echo, c)))
                                 \o [k \in 1 .. n |-> CallOf(turn[k])]
  BY AssistantIs
<1>3. Results(turn) = [k \in 1 .. n |-> OutputOf(turn[k])]
  BY ResultsAre DEF AllCarry
<1>4. Hands(((Thoughts(c) \o Message(Rest(echo, c))) \o [k \in 1 .. n |-> CallOf(turn[k])])
               \o [k \in 1 .. n |-> OutputOf(turn[k])], Thoughts(c), Rest(echo, c), turn, n)
  BY <1>1, JointHands
<1>5. QED
  BY <1>2, <1>3, <1>4 DEF Joint

LEMMA SummaryType ==
    ASSUME NEW c, IsCarried(c)
    PROVE  Summary(c) \in Seq(Piece)
<1> DEFINE D == DOMAIN c
           ss == [m \in 1 .. Cardinality(D) |-> Text(At(D, m), c[At(D, m)])]
<1>1. D \subseteq Nat /\ IsFiniteSet(D) /\ \A i \in D : c[i] \in Nat
  BY DEF IsCarried
<1>2. \A i \in D : Text(i, c[i]) \in Seq(Piece)
  BY <1>1, TextFacts
<1>3. Cardinality(D) \in Nat /\ \A m \in 1 .. Cardinality(D) : At(D, m) \in D
  BY <1>1, Enumerated
<1>4. Summary(c) = FlattenSeq(ss)
  BY DEF Summary, InOrder, At
<1>5. ss \in Seq(Seq(Piece))
  <2>1. \A m \in 1 .. Cardinality(D) : Text(At(D, m), c[At(D, m)]) \in Seq(Piece)
    BY <1>2, <1>3
  <2> HIDE DEF D
  <2>2. QED
    BY <1>3, <2>1
<1>6. QED
  <2> HIDE DEF ss
  <2>1. QED
    BY <1>4, <1>5, FlattenType

\* What the tags are wrapped round.
Wrapped(summary) == <<Open>> \o summary \o <<Close>>

LEMMA WrappedType ==
    ASSUME NEW summary \in Seq(Piece)
    PROVE  Wrapped(summary) \in Seq(Piece) /\ Len(Wrapped(summary)) = Len(summary) + 2
<1>1. <<Open>> \in Seq(Piece) /\ <<Close>> \in Seq(Piece) /\ Len(<<Open>>) = 1 /\ Len(<<Close>>) = 1
  <2>1. Open \in Piece /\ Close \in Piece
    BY DEF Open, Close, Piece
  <2>2. QED
    BY <2>1
<1>2. PICK a \in Seq(Piece), e \in Seq(Piece) :
         a = <<Open>> /\ e = <<Close>> /\ Len(a) = 1 /\ Len(e) = 1
  BY <1>1
<1>3. PICK b \in Seq(Piece) : b = a \o summary /\ Len(b) = 1 + Len(summary)
  <2>1. a \o summary \in Seq(Piece) /\ Len(a \o summary) = 1 + Len(summary)
    BY <1>2, ConcatProperties
  <2>2. QED
    BY <2>1
<1>4. b \o e \in Seq(Piece) /\ Len(b \o e) = Len(b) + 1
  BY <1>2, <1>3, ConcatProperties
<1>5. QED
  BY <1>2, <1>3, <1>4 DEF Wrapped

LEMMA RestNothing ==
    ASSUME NEW c, IsCarried(c)
    PROVE  Rest(<<>>, c) = <<>>
<1>1. Summary(c) \in Seq(Piece)
  BY SummaryType
<1>2. PICK m \in Nat : m = Len(Wrapped(Summary(c)))
  BY <1>1, WrappedType
<1>3. SubSeq(<<>>, m + 1, 0) = <<>>
  OBVIOUS
<1>4. Strip(<<>>, Summary(c)) = <<>>
  BY <1>2, <1>3 DEF Strip, Wrapped
<1>5. QED
  BY <1>4 DEF Rest

\* or in one each.
LEMMA ApartIs ==
    ASSUME NEW turn, NEW n \in Nat, NEW c, AllCarry(turn, n, c), Apiece(turn, n), IsCarried(c),
           NEW echo, Rest(echo, c) \in Seq(Piece)
    PROVE  Hands(Apart(echo, turn), Thoughts(c), Rest(echo, c), turn, n)
<1>1. CASE n = 0
  <2>1. turn = <<>>
    BY <1>1 DEF AllCarry
  <2>2. Apart(echo, turn) = Assistant(echo, turn)
    BY <2>1 DEF Apart
  <2>3. Results(turn) = <<>>
    BY <2>1 DEF Results
  <2>4. Assistant(echo, turn) \in Seq(Entries)
    <3>1. PICK th \in Seq(Entries) : th = Thoughts(c)
      BY ThoughtsAre DEF AreThoughts
    <3>2. Message(Rest(echo, c)) \in Seq(Entries)
      BY MessageType
    <3>3. Assistant(echo, turn) = (Thoughts(c) \o Message(Rest(echo, c)))
                                     \o [k \in 1 .. n |-> CallOf(turn[k])]
      BY AssistantIs
    <3>4. [k \in 1 .. n |-> CallOf(turn[k])] = <<>>
      BY <1>1
    <3>5. <<>> \in Seq(Entries)
      OBVIOUS
    <3>6. PICK m \in Seq(Entries) : m = Message(Rest(echo, c))
      BY <3>2
    <3>7. th \o m \in Seq(Entries)
      BY ConcatProperties
    <3>8. (th \o m) \o <<>> \in Seq(Entries)
      BY <3>5, <3>7, ConcatProperties
    <3>9. QED
      BY <3>1, <3>3, <3>4, <3>6, <3>8
  <2>5. Joint(echo, turn) = Assistant(echo, turn)
    BY <2>3, <2>4, ConcatEmptySeq DEF Joint
  <2>6. QED
    BY <2>2, <2>5, JointIs
<1>2. CASE n # 0
  <2> DEFINE said(k) == IF k = 1 THEN echo ELSE <<>>
             ss == [k \in DOMAIN turn |->
                       Assistant(IF k = 1 THEN echo ELSE <<>>, <<turn[k]>>) \o Results(<<turn[k]>>)]
  <2>1. /\ DOMAIN turn = 1 .. n /\ turn # <<>> /\ 1 \in 1 .. n
        /\ \A k \in 1 .. n : turn[k].carries = c
    BY <1>2 DEF AllCarry
  <2>2. Apart(echo, turn) = FlattenSeq(ss) /\ DOMAIN ss = 1 .. n
    BY <2>1 DEF Apart
  <2>3. \A k \in 1 .. n : ss[k] = Joint(said(k), <<turn[k]>>)
    BY <2>1 DEF Joint
  <2>4. ASSUME NEW k \in 1 .. n
        PROVE  Hands(ss[k], Thoughts(c), IF k = 1 THEN Rest(echo, c) ELSE <<>>, <<turn[k]>>, 1)
    <3> DEFINE one == <<turn[k]>>
    <3>1. /\ DOMAIN one = 1 .. 1 /\ one[1] = turn[k] /\ \A j \in 1 .. 1 : j = 1
      OBVIOUS
    <3>2. Apiece(one, 1) /\ AllCarry(one, 1, c)
      BY <2>1, <3>1 DEF Apiece, AllCarry
    <3> HIDE DEF one
    <3>3. Rest(said(k), c) = IF k = 1 THEN Rest(echo, c) ELSE <<>>
      BY RestNothing
    <3>4. Rest(said(k), c) \in Seq(Piece)
      <4>1. <<>> \in Seq(Piece)
        OBVIOUS
      <4> HIDE DEF said
      <4>2. QED
        BY <3>3, <4>1
    <3> HIDE DEF said
    <3>5. Hands(Joint(said(k), one), Thoughts(c), Rest(said(k), c), one, 1)
      BY <3>2, <3>4, JointIs
    <3>6. QED
      BY <2>3, <3>3, <3>5 DEF one
  <2> HIDE DEF ss, said
  <2>5. Len(ss) = n
    BY <2>2
  <2>6. PICK f : Flattens(f, ss, n) /\ FlattenSeq(ss) = f[n]
    <3>1. Len(ss) \in Nat \ {0}
      BY <1>2, <2>5
    <3>2. QED
      BY <2>5, <3>1, FlattenChoice
  <2> DEFINE S == {m \in Nat : m + 1 \in 1 .. n =>
                      Hands(f[m + 1], Thoughts(c), Rest(echo, c), turn, m + 1)}
  <2>7. 0 \in S
    <3>1. FlattensHere(f, ss, 1)
      BY <2>1, <2>6, FlattensAt
    <3>2. f[1] = ss[1]
      BY <3>1 DEF FlattensHere
    <3>3. Hands(f[1], Thoughts(c), Rest(echo, c), <<turn[1]>>, 1)
      BY <2>1, <2>4, <3>2
    <3>4. <<turn[1]>>[1] = turn[1] /\ \A j \in 1 .. 1 : j = 1
      OBVIOUS
    <3>5. ASSUME CallsIn(f[1], <<turn[1]>>, 1) PROVE CallsIn(f[1], turn, 1)
      BY <3>4, <3>5 DEF CallsIn
    <3>6. Hands(f[1], Thoughts(c), Rest(echo, c), turn, 1)
      BY <3>3, <3>5 DEF Hands
    <3>7. 0 + 1 = 1
      OBVIOUS
    <3>8. QED
      BY <3>6, <3>7
  <2>8. ASSUME NEW m \in Nat, m \in S PROVE m + 1 \in S
    <3>1. SUFFICES ASSUME m + 1 + 1 \in 1 .. n
                   PROVE  Hands(f[m + 1 + 1], Thoughts(c), Rest(echo, c), turn, m + 1 + 1)
      OBVIOUS
    <3>2. PICK p \in Nat : p = m + 1 /\ p \in 1 .. n /\ p + 1 \in 1 .. n /\ p + 1 # 1 /\ p + 1 - 1 = p
      BY <3>1
    <3>3. Hands(f[p], Thoughts(c), Rest(echo, c), turn, p)
      BY <2>8, <3>2
    <3>4. FlattensHere(f, ss, p + 1)
      BY <2>6, <3>2, FlattensAt
    <3>5. f[p + 1] = f[p] \o ss[p + 1]
      <4>1. f[p + 1] = IF p + 1 = 1 THEN ss[p + 1] ELSE f[p + 1 - 1] \o ss[p + 1]
        BY <3>4 DEF FlattensHere
      <4>2. p + 1 # 1 /\ p + 1 - 1 = p
        BY <3>2
      <4>3. QED
        BY <4>1, <4>2
    <3>6. Hands(ss[p + 1], Thoughts(c), <<>>, <<turn[p + 1]>>, 1)
      BY <2>4, <3>2
    <3>7. <<turn[p + 1]>>[1] = turn[p + 1]
      OBVIOUS
    <3>8. Apiece(turn, p + 1)
      <4>1. \A j \in 1 .. p + 1 : j \in 1 .. n
        BY <3>2
      <4>2. QED
        BY <4>1 DEF Apiece
    <3>9. Thoughts(c) \in Seq(Entries)
      BY ThoughtsAre DEF AreThoughts
    <3>10. Hands(f[p] \o ss[p + 1], Thoughts(c), Rest(echo, c), turn, p + 1)
      BY <3>3, <3>6, <3>7, <3>8, <3>9, HandsMore
    <3>11. QED
      BY <3>2, <3>5, <3>10
  <2>9. Nat \subseteq S
    <3> HIDE DEF S
    <3>1. QED
      BY <2>7, <2>8, NatInductionSet
  <2>10. PICK m \in Nat : m + 1 = n
    BY <1>2
  <2>11. Hands(f[n], Thoughts(c), Rest(echo, c), turn, n)
    <3>1. m \in S /\ n \in 1 .. n
      BY <1>2, <2>9
    <3>2. QED
      BY <2>10, <3>1
  <2>12. QED
    BY <2>2, <2>6, <2>11
<1>3. QED
  BY <1>1, <1>2

\* The summary is taken off where it opens the text, and only there.
LEMMA RestIs ==
    ASSUME NEW c, IsCarried(c), NEW text \in Seq(Piece)
    PROVE  /\ Rest(text, c) \in Seq(Piece)
           /\ \/ Rest(text, c) = text
              \/ /\ Summary(c) # <<>>
                 /\ Wrapped(Summary(c)) \o Rest(text, c) = text
<1>1. PICK w \in Seq(Piece) : w = Wrapped(Summary(c))
  BY SummaryType, WrappedType
<1>2. Strip(text, Summary(c)) = IF Summary(c) # <<>> /\ IsPrefix(w, text)
                                THEN SubSeq(text, Len(w) + 1, Len(text)) ELSE text
  BY <1>1 DEF Strip, Wrapped
<1>3. CASE c # Empty /\ Summary(c) # <<>> /\ IsPrefix(w, text)
  <2>1. Rest(text, c) = SubSeq(text, Len(w) + 1, Len(text))
    BY <1>2, <1>3 DEF Rest
  <2>2. /\ SubSeq(text, Len(w) + 1, Len(text)) \in Seq(Piece)
        /\ w \o SubSeq(text, Len(w) + 1, Len(text)) = text
    BY <1>3, PrefixRest
  <2>3. QED
    BY <1>1, <1>3, <2>1, <2>2
<1>4. CASE ~ (c # Empty /\ Summary(c) # <<>> /\ IsPrefix(w, text))
  BY <1>2, <1>4 DEF Rest
<1>5. QED
  BY <1>3, <1>4

LEMMA RestOfWrapped ==
    ASSUME NEW c, IsCarried(c), c # Empty, Summary(c) # <<>>, NEW text \in Seq(Piece)
    PROVE  Rest(Wrapped(Summary(c)) \o text, c) = text
<1>1. PICK w \in Seq(Piece) : w = Wrapped(Summary(c))
  BY SummaryType, WrappedType
<1>2. PICK z \in Seq(Piece) : z = w \o text /\ Len(w) <= Len(z) /\ \A k \in 1 .. Len(w) : z[k] = w[k]
  <2>1. /\ w \o text \in Seq(Piece) /\ Len(w \o text) = Len(w) + Len(text)
        /\ \A k \in 1 .. Len(w) + Len(text) : (w \o text)[k] = IF k <= Len(w) THEN w[k] ELSE text[k - Len(w)]
    BY ConcatProperties
  <2>2. PICK m \in Nat, n \in Nat : m = Len(w) /\ n = Len(text)
    OBVIOUS
  <2>3. m <= m + n /\ \A k \in 1 .. m : k \in 1 .. m + n /\ k <= m
    BY <2>2
  <2>4. QED
    BY <2>1, <2>2, <2>3
<1>3. SubSeq(w, 1, Len(w)) = SubSeq(z, 1, Len(w))
  BY <1>2
<1>4. IsPrefix(w, z)
  BY <1>2, <1>3 DEF IsPrefix
<1>5. Rest(z, c) = SubSeq(z, Len(w) + 1, Len(z))
  BY <1>1, <1>4 DEF Rest, Strip, Wrapped
<1>6. /\ SubSeq(z, Len(w) + 1, Len(z)) \in Seq(Piece)
      /\ w \o SubSeq(z, Len(w) + 1, Len(z)) = z
  BY <1>4, PrefixRest
<1>7. SubSeq(z, Len(w) + 1, Len(z)) = text
  BY <1>2, <1>6, ConcatSimplifications
<1>8. QED
  BY <1>1, <1>2, <1>5, <1>7

LEMMA RestOfPlain ==
    ASSUME NEW c, IsCarried(c), NEW text \in Seq(Piece), text # <<>> => text[1] # Open
    PROVE  Rest(text, c) = text
<1>1. SUFFICES ASSUME Wrapped(Summary(c)) \o Rest(text, c) = text PROVE FALSE
  BY RestIs
<1>2. PICK b \in Seq(Piece), r \in Seq(Piece) :
         b = Summary(c) \o <<Close>> /\ r = Rest(text, c)
  <2>1. <<Close>> \in Seq(Piece)
    BY DEF Close, Piece
  <2>2. QED
    BY <2>1, SummaryType, RestIs, ConcatProperties
<1>3. <<Open>> \in Seq(Piece) /\ <<Close>> \in Seq(Piece) /\ Open \in Piece
  BY DEF Open, Close, Piece
<1>4. PICK o \in Seq(Piece) : o = <<Open>> /\ Len(o) = 1 /\ o[1] = Open
  BY <1>3
<1>5. Wrapped(Summary(c)) = o \o b
  BY <1>2, <1>3, <1>4, SummaryType, PieceConcat DEF Wrapped
<1>6. text = o \o (b \o r)
  <2>1. (o \o b) \o r = o \o (b \o r)
    BY PieceConcat
  <2>2. text = (o \o b) \o r
    BY <1>1, <1>2, <1>5
  <2>3. QED
    BY <2>1, <2>2
<1>7. PICK y \in Seq(Piece) : y = b \o r
  BY <1>2, ConcatProperties
<1>8. PICK n \in Nat : n = Len(y)
  OBVIOUS
<1>9. Len(o \o y) = 1 + n /\ \A k \in 1 .. 1 + n : (o \o y)[k] = IF k <= 1 THEN o[k] ELSE y[k - 1]
  BY <1>4, <1>8, ConcatProperties
<1>10. 1 \in 1 .. 1 + n /\ 1 <= 1 /\ 1 + n # 0
  BY <1>8
<1>11. Len(text) # 0 /\ text[1] = Open
  BY <1>4, <1>6, <1>7, <1>9, <1>10
<1>12. QED
  BY <1>11

\* All a capsule's summary is made of.
LEMMA SummaryPieces ==
    ASSUME NEW c, IsCarried(c)
    PROVE  Summary(c) \in Seq((DOMAIN c) \X Nat)
<1> DEFINE D == DOMAIN c
           ss == [m \in 1 .. Cardinality(D) |-> Text(At(D, m), c[At(D, m)])]
<1>1. D \subseteq Nat /\ IsFiniteSet(D) /\ \A i \in D : c[i] \in Nat
  BY DEF IsCarried
<1>2. \A i \in D : Text(i, c[i]) \in Seq(D \X Nat)
  <2>1. SUFFICES ASSUME NEW i \in D, NEW n \in Nat PROVE Text(i, n) \in Seq(D \X Nat)
    BY <1>1
  <2>2. \A k \in 1 .. n : <<i, k>> \in D \X Nat
    OBVIOUS
  <2> HIDE DEF D
  <2>3. QED
    BY <2>2 DEF Text
<1>3. Cardinality(D) \in Nat /\ \A m \in 1 .. Cardinality(D) : At(D, m) \in D
  BY <1>1, Enumerated
<1>4. Summary(c) = FlattenSeq(ss)
  BY DEF Summary, InOrder, At
<1>5. ss \in Seq(Seq(D \X Nat))
  <2>1. \A m \in 1 .. Cardinality(D) : Text(At(D, m), c[At(D, m)]) \in Seq(D \X Nat)
    BY <1>2, <1>3
  <2> HIDE DEF D
  <2>2. QED
    BY <1>3, <2>1
<1>6. QED
  <2> HIDE DEF ss
  <2>1. QED
    BY <1>4, <1>5, FlattenType

\* What is taken off is none of the answer.
LEMMA RestKeeps ==
    ASSUME NEW c, IsCarried(c), NEW text \in Seq(Piece), NEW S,
           Open \notin S, Close \notin S, \A t \in (DOMAIN c) \X Nat : t \notin S
    PROVE  Among(Rest(text, c), S) = Among(text, S)
<1>1. SUFFICES ASSUME Wrapped(Summary(c)) \o Rest(text, c) = text
               PROVE  Among(Rest(text, c), S) = Among(text, S)
  BY RestIs
<1>2. PICK r \in Seq(Piece), sm \in Seq((DOMAIN c) \X Nat) :
         r = Rest(text, c) /\ sm = Summary(c) /\ sm \in Seq(Piece)
  BY RestIs, SummaryPieces, SummaryType
<1>3. PICK o \in Seq(Piece), e \in Seq(Piece) :
         /\ o = <<Open>> /\ \A k \in DOMAIN o : o[k] = Open
         /\ e = <<Close>> /\ \A k \in DOMAIN e : e[k] = Close
  <2>1. Open \in Piece /\ Close \in Piece
    BY DEF Open, Close, Piece
  <2>2. <<Open>> \in Seq(Piece) /\ \A k \in DOMAIN <<Open>> : <<Open>>[k] = Open
    BY <2>1
  <2>3. <<Close>> \in Seq(Piece) /\ \A k \in DOMAIN <<Close>> : <<Close>>[k] = Close
    BY <2>1
  <2>4. QED
    BY <2>2, <2>3
<1>4. Among(o, S) = <<>> /\ Among(e, S) = <<>>
  BY <1>3, AmongNone
<1>5. Among(sm, S) = <<>>
  <2>1. \A k \in DOMAIN sm : sm[k] \notin S
    BY <1>2
  <2>2. QED
    BY <1>2, <2>1, AmongNone
<1>6. text = ((o \o sm) \o e) \o r
  BY <1>1, <1>2, <1>3 DEF Wrapped
<1>7. PICK a \in Seq(Piece), b \in Seq(Piece) : a = o \o sm /\ b = a \o e
  BY <1>2, ConcatProperties
<1>8. <<>> \o <<>> = <<>>
  OBVIOUS
<1> DEFINE T == Piece
<1>8a. ASSUME NEW y \in Seq(T), NEW z \in Seq(T) PROVE Among(y \o z, S) = Among(y, S) \o Among(z, S)
  <2> HIDE DEF T
  <2>1. QED
    BY AmongConcat, SMTT(60)
<1>9. Among(a, S) = <<>>
  <2>1. Among(o \o sm, S) = Among(o, S) \o Among(sm, S)
    BY <1>2, <1>8a
  <2>2. QED
    BY <1>4, <1>5, <1>7, <1>8, <2>1
<1>10. Among(b, S) = <<>>
  <2>1. Among(a \o e, S) = Among(a, S) \o Among(e, S)
    BY <1>8a
  <2>2. QED
    BY <1>4, <1>7, <1>8, <1>9, <2>1
<1>11. Among(text, S) = <<>> \o Among(r, S)
  <2>1. Among(b \o r, S) = Among(b, S) \o Among(r, S)
    BY <1>8a
  <2>2. QED
    BY <1>6, <1>7, <1>10, <2>1
<1>12. Among(r, S) \in Seq(Piece)
  BY AmongType
<1>13. QED
  BY <1>2, <1>11, <1>12, ConcatEmptySeq
-----------------------------------------------------------------------------
(* One summary in one block *)

\* The thought, in its tags; the last is not there yet while it is open.
ThoughtOf(its, open) ==
    IF 1 \in DOMAIN its /\ its[1].size > 0
    THEN (<<Open>> \o Text(1, its[1].size)) \o (IF open THEN <<>> ELSE <<Close>>)
    ELSE <<>>

\* The whole content: the thought and then the answer.
Laid(its, open) == ThoughtOf(its, open) \o TextOf(its, "message")

\* If there is reasoning, it is the first item and no other, in one part.
SingleOf(its, how) ==
    /\ how # "done"
    /\ \A i \in DOMAIN its : its[i].type = "reasoning" <=> i = 1
    /\ 1 \in DOMAIN its => its[1].parts <= 1

SingleFits ==
    /\ thinkOpen => /\ 1 \in DOMAIN items /\ items[1].size > 0
                    /\ TextOf(items, "message") = <<>> /\ over = "no"
    /\ 1 \in DOMAIN items =>
          /\ style = "deltas" /\ items[1].parts = 0 => items[1].size = 0
          /\ over = "no" /\ items[1].partOpen /\ ~ items[1].done => thinkOpen
          /\ items[1].partOpen => style = "deltas"

SingleTold ==
    \E shown : Turns(Transcript, pending,
                     [content |-> Laid(items, thinkOpen), calls |-> shown])

SingleInv ==
    ~ Cut /\ SingleOf(items, style) =>
        /\ SingleFits
        /\ router \in {"forwarding", "done"} => SingleTold

\* These chunks make one content of another, whatever the calls.
Lays(c, chunks, d) ==
    \A f : \E g : Turns([content |-> c, calls |-> f], chunks, [content |-> d, calls |-> g])

LEMMA LaysNothing ==
    ASSUME NEW c
    PROVE  Lays(c, <<>>, c)
BY TurnsEmpty DEF Lays

LEMMA LaysContent ==
    ASSUME NEW c, NEW x \in Seq(Piece)
    PROVE  Lays(c, <<ContentChunk(x)>>, c \o x)
BY ContentTurns DEF Lays

LEMMA LaysClose ==
    ASSUME NEW T, NEW c \in Seq(T)
    PROVE  Lays(c, CloseThink, c \o Closing)
BY CloseTurns DEF Lays

LEMMA LaysQuiet ==
    ASSUME NEW c, NEW chunk \in Chunk, chunk.kind # "content"
    PROVE  Lays(c, <<chunk>>, c)
<1>1. SUFFICES ASSUME NEW f
               PROVE  \E g : Turns([content |-> c, calls |-> f], <<chunk>>,
                                   [content |-> c, calls |-> g])
  BY DEF Lays
<1> DEFINE t == [content |-> c, calls |-> f]
<1>2. t.content = c /\ t.calls = f
  OBVIOUS
<1> HIDE DEF t
<1>3. PICK g : Hears(t, chunk) = [content |-> c, calls |-> g]
  BY <1>2 DEF Hears
<1>4. Turns(t, <<chunk>>, [content |-> c, calls |-> g])
  BY <1>3, TurnsOne
<1>5. QED
  BY <1>4 DEF t

LEMMA LaysConcat ==
    ASSUME NEW c, NEW d, NEW e, NEW r, NEW s, Lays(c, r, d), Lays(d, s, e)
    PROVE  Lays(c, r \o s, e)
<1>1. SUFFICES ASSUME NEW f
               PROVE  \E g : Turns([content |-> c, calls |-> f], r \o s,
                                   [content |-> e, calls |-> g])
  BY DEF Lays
<1>2. PICK g : Turns([content |-> c, calls |-> f], r, [content |-> d, calls |-> g])
  BY DEF Lays
<1>3. PICK h : Turns([content |-> d, calls |-> g], s, [content |-> e, calls |-> h])
  BY DEF Lays
<1>4. Turns([content |-> c, calls |-> f], r \o s, [content |-> e, calls |-> h])
  BY <1>2, <1>3, TurnsConcat
<1>5. QED
  BY <1>4

LEMMA ThoughtOfType ==
    ASSUME NEW its \in Seq(Item), NEW open
    PROVE  /\ ThoughtOf(its, open) \in Seq(Piece) /\ TextOf(its, "message") \in Seq(Piece)
           /\ Laid(its, open) \in Seq(Piece)
<1>1. <<Open>> \in Seq(Piece) /\ <<Close>> \in Seq(Piece) /\ <<>> \in Seq(Piece)
  BY DEF Open, Close, Piece
<1>2. ThoughtOf(its, open) \in Seq(Piece)
  <2>1. CASE 1 \in DOMAIN its /\ its[1].size > 0
    <3>1. its[1] \in Item
      BY <2>1
    <3>2. PICK n \in Nat : n = its[1].size
      BY <3>1 DEF Item
    <3>3. Text(1, n) \in Seq(Piece)
      BY TextFacts
    <3>4. <<Open>> \o Text(1, n) \in Seq(Piece)
      BY <1>1, <3>3, ConcatProperties
    <3>5. (IF open THEN <<>> ELSE <<Close>>) \in Seq(Piece)
      BY <1>1
    <3>6. (<<Open>> \o Text(1, n)) \o (IF open THEN <<>> ELSE <<Close>>) \in Seq(Piece)
      BY <3>4, <3>5, ConcatProperties
    <3>7. QED
      BY <2>1, <3>2, <3>6 DEF ThoughtOf
  <2>2. CASE ~ (1 \in DOMAIN its /\ its[1].size > 0)
    BY <1>1, <2>2 DEF ThoughtOf
  <2>3. QED
    BY <2>1, <2>2
<1>3. TextOf(its, "message") \in Seq(Piece)
  BY PartsFacts
<1>4. QED
  BY <1>2, <1>3, ConcatProperties DEF Laid

\* The tag closes behind the thought.
LEMMA LaidClosed ==
    ASSUME NEW its \in Seq(Item),
           thinkOpen => /\ 1 \in DOMAIN its /\ its[1].size > 0 /\ TextOf(its, "message") = <<>>
    PROVE  Laid(its, FALSE) = Laid(its, thinkOpen) \o Closing
<1>1. <<Open>> \in Seq(Piece) /\ <<Close>> \in Seq(Piece) /\ <<>> \in Seq(Piece)
  BY DEF Open, Close, Piece
<1>2. CASE ~ thinkOpen
  <2>1. Laid(its, thinkOpen) = Laid(its, FALSE) /\ Closing = <<>>
    BY <1>2 DEF Laid, ThoughtOf, Closing
  <2>2. PICK l \in Seq(Piece) : l = Laid(its, FALSE)
    BY ThoughtOfType
  <2>3. l \o <<>> = l
    BY ConcatEmptySeq
  <2>4. QED
    BY <2>1, <2>2, <2>3
<1>3. CASE thinkOpen
  <2>1. 1 \in DOMAIN its /\ its[1].size > 0 /\ TextOf(its, "message") = <<>>
    BY <1>3
  <2>2. its[1] \in Item
    BY <2>1
  <2>3. PICK n \in Nat : n = its[1].size
    BY <2>2 DEF Item
  <2>4. PICK a \in Seq(Piece) : a = <<Open>> \o Text(1, n)
    BY <1>1, TextFacts, ConcatProperties
  <2>5. ThoughtOf(its, thinkOpen) = a \o <<>> /\ ThoughtOf(its, FALSE) = a \o <<Close>>
    BY <1>3, <2>1, <2>3, <2>4 DEF ThoughtOf
  <2>6. PICK b \in Seq(Piece) : b = a \o <<Close>>
    BY <1>1, ConcatProperties
  <2>7. a \o <<>> = a /\ b \o <<>> = b
    BY ConcatEmptySeq
  <2>8. Laid(its, thinkOpen) = a /\ Laid(its, FALSE) = b
    BY <2>1, <2>5, <2>6, <2>7 DEF Laid
  <2>9. QED
    BY <1>3, <2>6, <2>8 DEF Closing
<1>4. QED
  BY <1>2, <1>3

\* What the machine has to say of one thought when it reads an event.
LEMMA SingleHere ==
    ASSUME AdapterInv, AgreeInv, SingleInv, Receiving, SingleOf(items, style)
    PROVE  /\ content = Laid(items, thinkOpen) /\ content \in Seq(Piece)
           /\ SingleFits /\ ItemsAgree /\ TypeOK /\ (thinkOpen => summaryStreamed)
<1>1. /\ ~ Cut /\ ItemsAgree /\ content \in Seq(Piece)
      /\ Transcript = [content |-> content, calls |-> calls]
  BY ReceivingAgree
<1>2. SingleFits /\ SingleTold
  BY <1>1 DEF SingleInv, Receiving
<1>3. PICK shown : Turns(Transcript, pending, [content |-> Laid(items, thinkOpen), calls |-> shown])
  BY <1>2 DEF SingleTold
<1>4. content = Laid(items, thinkOpen)
  BY <1>1, <1>3, TurnsNothing DEF Receiving
<1>5. QED
  BY <1>1, <1>2, <1>4 DEF AdapterInv, ItemsFit

LEMMA YieldLaid ==
    ASSUME Receiving, NEW chunks, Yields(chunks),
           SingleOf(items', style') =>
              SingleFits' /\ Lays(content, chunks, Laid(items', thinkOpen'))
    PROVE  SingleInv'
<1>1. SUFFICES ASSUME SingleOf(items', style') PROVE SingleFits' /\ SingleTold'
  BY DEF SingleInv
<1>2. pending' = chunks /\ content' = content /\ calls' = calls
  BY DEF Yields, client
<1>3. Transcript' = [content |-> content, calls |-> calls]
  BY <1>2 DEF Transcript
<1>4. \E shown : Turns([content |-> content, calls |-> calls], chunks,
                       [content |-> Laid(items', thinkOpen'), calls |-> shown])
  BY <1>1 DEF Lays
<1>5. QED
  BY <1>1, <1>2, <1>3, <1>4 DEF SingleTold

LEMMA FailLaid ==
    ASSUME NEW cause \in {"upstream", "adapter"}, Fails(cause)
    PROVE  SingleInv'
BY DEF Fails, SingleInv, Cut

\* A new item is no thought, or the first of all and empty.
LEMMA NewItemLaid ==
    ASSUME AdapterInv, AgreeInv, SingleInv, NEW type \in Types, NEW sealed \in BOOLEAN,
           NEW size \in Nat, NEW done \in BOOLEAN, NewItem(type, sealed, size, done),
           type \in {"message", "reasoning"} => size = 0, SingleOf(items', style')
    PROVE  /\ content = Laid(items', thinkOpen) /\ content \in Seq(Piece)
           /\ content \o Closing = Laid(items', FALSE)
           /\ over' = "no" /\ (thinkOpen' => thinkOpen) => SingleFits'
<1>1. TypeOK /\ Receiving /\ AdapterInv
  BY DEF AdapterInv, NewItem
<1>2. /\ items \in Seq(Item) /\ items' \in Seq(Item) /\ Len(items') = Len(items) + 1
      /\ ~ items'[Len(items) + 1].partOpen /\ style' = style /\ Closed
      /\ DOMAIN items' = DOMAIN items \cup {Len(items) + 1}
      /\ \A i \in DOMAIN items : items'[i] = items[i]
      /\ items'[Len(items) + 1].type = type /\ items'[Len(items) + 1].size = size
  <2>0. TypeOK
    BY <1>1
  <2>1. /\ items' \in Seq(Item) /\ Len(items') = Len(items) + 1
        /\ ~ items'[Len(items) + 1].partOpen
    BY <2>0, NewItemStays
  <2>2. /\ DOMAIN items' = DOMAIN items \cup {Len(items) + 1} /\ style' = style /\ Closed
        /\ \A i \in DOMAIN items : items'[i] = items[i]
        /\ items'[Len(items) + 1].type = type /\ items'[Len(items) + 1].size = size
    BY <1>1, NewItemFacts, ZenonT(60)
  <2>3. items \in Seq(Item)
    BY <1>1 DEF TypeOK
  <2>4. QED
    BY <2>1, <2>2, <2>3
<1>3. SingleOf(items, style)
  <2>1. \A i \in DOMAIN items : i \in DOMAIN items'
    BY <1>2
  <2>2. QED
    BY <1>2, <2>1 DEF SingleOf
<1>4. /\ content = Laid(items, thinkOpen) /\ content \in Seq(Piece) /\ SingleFits
  BY <1>1, <1>3, SingleHere
<1>5. TextOf(items', "message") = TextOf(items, "message")
  BY <1>2, TextOfNew
<1>6. CASE 1 \in DOMAIN items
  <2>1. 1 \in DOMAIN items' /\ items'[1] = items[1] /\ items[1].done
    BY <1>2, <1>3, <1>6 DEF SingleOf, Closed
  <2>2. \A open : ThoughtOf(items', open) = ThoughtOf(items, open)
    BY <1>6, <2>1 DEF ThoughtOf
  <2>3. \A open : Laid(items', open) = Laid(items, open)
    BY <1>5, <2>2 DEF Laid
  <2>4. Laid(items, FALSE) = Laid(items, thinkOpen) \o Closing
    BY <1>2, <1>4, LaidClosed DEF SingleFits
  <2>5. over' = "no" /\ (thinkOpen' => thinkOpen) => SingleFits'
    BY <1>2, <1>4, <1>5, <1>6, <2>1 DEF SingleFits
  <2>6. QED
    BY <1>4, <2>3, <2>4, <2>5
<1>7. CASE 1 \notin DOMAIN items
  <2>1. Len(items) = 0 /\ Len(items) + 1 = 1
    BY <1>2, <1>7
  <2>2. 1 \in DOMAIN items' /\ items'[1].type = type /\ items'[1].size = size /\ ~ items'[1].partOpen
    BY <1>2, <2>1
  <2>3. type = "reasoning" /\ size = 0
    BY <2>2 DEF SingleOf
  <2>4. ~ thinkOpen
    BY <1>4, <1>7 DEF SingleFits
  <2>5. \A open : ThoughtOf(items', open) = ThoughtOf(items, open)
    BY <1>7, <2>2, <2>3 DEF ThoughtOf
  <2>6. \A open : Laid(items', open) = Laid(items, open)
    BY <1>5, <2>5 DEF Laid
  <2>7. Laid(items, FALSE) = Laid(items, thinkOpen) \o Closing
    BY <1>2, <2>4, LaidClosed
  <2>8. over' = "no" /\ (thinkOpen' => thinkOpen) => SingleFits'
    BY <2>2, <2>3, <2>4 DEF SingleFits
  <2>9. QED
    BY <1>4, <2>6, <2>7, <2>8
<1>8. QED
  BY <1>6, <1>7

\* Nothing of the thought changes with another item.
LEMMA OtherLaid ==
    ASSUME AdapterInv, AgreeInv, SingleInv, Receiving, NEW i \in DOMAIN items,
           items[i].type # "reasoning", NEW r \in Item, r.type = items[i].type,
           items' = [items EXCEPT ![i] = r], style' = style, SingleOf(items', style')
    PROVE  /\ content = Laid(items, thinkOpen) /\ content \in Seq(Piece)
           /\ content \o Closing = Laid(items, FALSE)
           /\ \A open : ThoughtOf(items', open) = ThoughtOf(items, open)
           /\ items \in Seq(Item) /\ items' \in Seq(Item) /\ DOMAIN items' = DOMAIN items
           /\ /\ over' = "no" /\ (thinkOpen' => thinkOpen)
              /\ ~ thinkOpen' \/ TextOf(items', "message") = TextOf(items, "message")
              => SingleFits'
<1>1. TypeOK /\ items \in Seq(Item)
  BY DEF AdapterInv, TypeOK
<1>2. /\ items' \in Seq(Item) /\ DOMAIN items' = DOMAIN items
      /\ items'[i] = r /\ \A j \in DOMAIN items \ {i} : items'[j] = items[j]
  BY <1>1, IndicesStay
<1>3. i # 1 /\ (1 \in DOMAIN items => items'[1] = items[1])
  BY <1>2 DEF SingleOf
<1>4. SingleOf(items, style)
  BY <1>2, <1>3 DEF SingleOf
<1>5. content = Laid(items, thinkOpen) /\ content \in Seq(Piece) /\ SingleFits /\ ItemsAgree
  BY <1>4, SingleHere
<1>6. 1 \in DOMAIN items => items[1].done
  <2>1. SUFFICES ASSUME 1 \in DOMAIN items, ~ items[1].done PROVE FALSE
    OBVIOUS
  <2>2. items[1].type = "reasoning"
    BY <1>4, <2>1 DEF SingleOf
  <2>3. 1 = Len(items)
    BY <1>5, <2>1, <2>2 DEF ItemsAgree, OpenIsLast
  <2>4. QED
    BY <1>1, <1>3, <2>3
<1>7. \A open : ThoughtOf(items', open) = ThoughtOf(items, open)
  BY <1>2, <1>3 DEF ThoughtOf
<1>8. Laid(items, FALSE) = Laid(items, thinkOpen) \o Closing
  BY <1>1, <1>5, LaidClosed DEF SingleFits
<1>9. ASSUME over' = "no", thinkOpen' => thinkOpen,
             ~ thinkOpen' \/ TextOf(items', "message") = TextOf(items, "message")
      PROVE  SingleFits'
  BY <1>2, <1>3, <1>5, <1>6, <1>9 DEF SingleFits
<1>10. QED
  BY <1>1, <1>2, <1>5, <1>7, <1>8, <1>9

\* The thought is all there is while it is not done.
LEMMA TextOfAlone ==
    ASSUME NEW its \in Seq(Item), Len(its) = 1, NEW type, its[1].type # type
    PROVE  TextOf(its, type) = <<>>
<1>1. its # <<>>
  OBVIOUS
<1>2. PICK front \in Seq(Item) :
         /\ Len(front) = Len(its) - 1
         /\ TextOf(its, type) = TextOf(front, type) \o Part(its, type, Len(its))
  BY <1>1, TextLast
<1>3. front = <<>>
  BY <1>2
<1>4. TextOf(front, type) = <<>>
  <2>1. [k \in DOMAIN front |-> IF front[k].type = type THEN Text(k, front[k].size) ELSE <<>>] = <<>>
    BY <1>3
  <2>2. QED
    BY <2>1, FlattenEmpty DEF TextOf
<1>5. Part(its, type, Len(its)) = <<>>
  BY DEF Part
<1>6. QED
  BY <1>2, <1>4, <1>5

LEMMA ThoughtLaid ==
    ASSUME AdapterInv, AgreeInv, SingleInv, NEW i \in DOMAIN items, OpenItem(i, "reasoning"),
           NEW r \in Item, r.type = items[i].type, r.parts >= items[i].parts,
           items' = [items EXCEPT ![i] = r], style' = style, SingleOf(items', style')
    PROVE  /\ i = 1 /\ SingleOf(items, style)
           /\ 1 \in DOMAIN items' /\ items'[1] = r /\ items[1] \in Item
           /\ items \in Seq(Item) /\ items' \in Seq(Item)
           /\ content = ThoughtOf(items, thinkOpen) /\ content \in Seq(Piece)
           /\ TextOf(items, "message") = <<>> /\ TextOf(items', "message") = <<>>
           /\ \A open : Laid(items', open) = ThoughtOf(items', open)
           /\ SingleFits /\ ItemsAgree /\ (thinkOpen => summaryStreamed)
<1>1. TypeOK /\ Receiving /\ items[i].type = "reasoning" /\ ~ items[i].done /\ items \in Seq(Item)
  BY DEF AdapterInv, OpenItem, TypeOK
<1>2. /\ items' \in Seq(Item) /\ DOMAIN items' = DOMAIN items /\ Len(items') = Len(items)
      /\ items'[i] = r /\ \A j \in DOMAIN items \ {i} : items'[j] = items[j]
  BY <1>1, IndicesStay
<1>3. i = 1
  BY <1>1, <1>2 DEF SingleOf
<1>4. SingleOf(items, style)
  <2>1. items[1] \in Item /\ r.parts <= 1
    BY <1>1, <1>2, <1>3 DEF SingleOf
  <2>2. items[1].parts <= 1
    BY <1>3, <2>1 DEF Item
  <2>3. \A j \in DOMAIN items : items[j].type = items'[j].type
    BY <1>2
  <2>4. QED
    BY <1>2, <2>2, <2>3 DEF SingleOf
<1>5. /\ content = Laid(items, thinkOpen) /\ content \in Seq(Piece) /\ SingleFits /\ ItemsAgree
      /\ thinkOpen => summaryStreamed
  BY <1>1, <1>4, SingleHere
<1>6. Len(items) = 1
  BY <1>1, <1>3, <1>5 DEF ItemsAgree, OpenIsLast
<1>7. TextOf(items, "message") = <<>> /\ TextOf(items', "message") = <<>>
  <2>1. items[1].type # "message" /\ items'[1].type # "message"
    BY <1>1, <1>2, <1>3
  <2>2. QED
    BY <1>1, <1>2, <1>6, <2>1, TextOfAlone
<1>8. ASSUME NEW its \in {items, items'}, NEW open PROVE Laid(its, open) = ThoughtOf(its, open)
  <2>1. PICK t \in Seq(Piece) : t = ThoughtOf(its, open)
    BY <1>1, <1>2, ThoughtOfType
  <2>2. t \o <<>> = t
    BY ConcatEmptySeq
  <2>3. QED
    BY <1>7, <2>1, <2>2 DEF Laid
<1>9. content = ThoughtOf(items, thinkOpen) /\ items[1] \in Item /\ 1 \in DOMAIN items
  BY <1>1, <1>3, <1>5, <1>8
<1>10. \A open : Laid(items', open) = ThoughtOf(items', open)
  BY <1>8
<1>11. QED
  BY <1>1, <1>2, <1>3, <1>4, <1>5, <1>7, <1>9, <1>10

LEMMA MessageAddedLaid ==
    ASSUME AdapterInv, AgreeInv, SingleInv, MessageAdded
    PROVE  SingleInv'
<1>1. /\ NewItem("message", FALSE, 0, FALSE) /\ Yields(<<>>) /\ thinkOpen' = thinkOpen
      /\ Receiving /\ over' = "no"
  BY DEF MessageAdded, NewItem, Yields, machine, Receiving
<1>2. ASSUME SingleOf(items', style')
      PROVE  SingleFits' /\ Lays(content, <<>>, Laid(items', thinkOpen'))
  <2>1. content = Laid(items', thinkOpen) /\ SingleFits'
    BY <1>1, <1>2, NewItemLaid DEF Types
  <2>2. QED
    BY <1>1, <2>1, LaysNothing
<1>3. QED
  BY <1>1, <1>2, YieldLaid

LEMMA OtherItemLaid ==
    ASSUME AdapterInv, AgreeInv, SingleInv, OtherItem
    PROVE  SingleInv'
<1>1. CASE NewItem("inert", FALSE, 0, TRUE) /\ Yields(<<>>)
  <2>1. thinkOpen' = thinkOpen /\ Receiving /\ over' = "no"
    BY <1>1 DEF OtherItem, NewItem, Yields, machine, Receiving
  <2>2. ASSUME SingleOf(items', style')
        PROVE  SingleFits' /\ Lays(content, <<>>, Laid(items', thinkOpen'))
    <3>1. content = Laid(items', thinkOpen) /\ SingleFits'
      BY <1>1, <2>1, <2>2, NewItemLaid DEF Types
    <3>2. QED
      BY <2>1, <3>1, LaysNothing
  <2>3. QED
    BY <1>1, <2>1, <2>2, YieldLaid
<1>2. CASE Fails("adapter")
  BY <1>2, FailLaid
<1>3. QED
  BY <1>1, <1>2 DEF OtherItem

LEMMA ReasoningAddedLaid ==
    ASSUME AdapterInv, AgreeInv, SingleInv, ReasoningAdded
    PROVE  SingleInv'
<1>1. CASE Fails("adapter")
  BY <1>1, FailLaid
<1>2. CASE ~ Fails("adapter")
  <2>1. PICK sealed \in BOOLEAN : NewItem("reasoning", sealed, 0, FALSE) /\ Yields(<<>>)
                                  /\ thinkOpen' = thinkOpen
    BY <1>2 DEF ReasoningAdded
  <2>2. Receiving /\ over' = "no"
    BY <2>1 DEF NewItem, Yields, Receiving
  <2>3. ASSUME SingleOf(items', style')
        PROVE  SingleFits' /\ Lays(content, <<>>, Laid(items', thinkOpen'))
    <3>1. content = Laid(items', thinkOpen) /\ SingleFits'
      BY <2>1, <2>2, <2>3, NewItemLaid DEF Types
    <3>2. QED
      BY <2>1, <3>1, LaysNothing
  <2>4. QED
    BY <2>1, <2>2, <2>3, YieldLaid
<1>3. QED
  BY <1>1, <1>2

LEMMA MessageDoneLaid ==
    ASSUME AdapterInv, AgreeInv, SingleInv, NEW i \in DOMAIN items, MessageDone(i)
    PROVE  SingleInv'
<1> DEFINE r == [items[i] EXCEPT !.done = TRUE]
<1>1. /\ Receiving /\ items[i].type = "message" /\ Yields(<<>>) /\ TypeOK
      /\ thinkOpen' = thinkOpen /\ style' = style /\ over' = "no"
  BY DEF MessageDone, OpenItem, AdapterInv, Yields, machine, Receiving
<1>2. items[i] \in Item /\ items \in Seq(Item)
  BY <1>1 DEF TypeOK
<1>3. r \in Item /\ r.type = items[i].type /\ r.size = items[i].size
  BY <1>2 DEF Item
<1>4. items' = [items EXCEPT ![i] = r]
  BY DEF MessageDone
<1> HIDE DEF r
<1>5. ASSUME SingleOf(items', style')
      PROVE  SingleFits' /\ Lays(content, <<>>, Laid(items', thinkOpen'))
  <2>1. /\ content = Laid(items, thinkOpen) /\ items' \in Seq(Item)
        /\ \A open : ThoughtOf(items', open) = ThoughtOf(items, open)
        /\ TextOf(items', "message") = TextOf(items, "message") => SingleFits'
    BY <1>1, <1>3, <1>4, <1>5, OtherLaid
  <2>2. TextOf(items', "message") = TextOf(items, "message")
    <3>1. Becomes(items, i, r, items')
      BY <1>2, <1>3, <1>4, <2>1 DEF Becomes
    <3>2. QED
      BY <1>3, <3>1, TextOfChange
  <2>3. content = Laid(items', thinkOpen')
    BY <1>1, <2>1, <2>2 DEF Laid
  <2>4. QED
    BY <2>1, <2>2, <2>3, LaysNothing
<1>6. QED
  BY <1>1, <1>5, YieldLaid

LEMMA TextDeltaLaid ==
    ASSUME AdapterInv, AgreeInv, SingleInv, NEW i \in DOMAIN items, TextDelta(i)
    PROVE  SingleInv'
<1>1. /\ Receiving /\ items[i].type = "message" /\ ~ items[i].done /\ TypeOK
      /\ items \in Seq(Item) /\ i \in Nat /\ ItemsAgree
  BY ReceivingAgree DEF TextDelta, OpenItem, AdapterInv, TypeOK
<1>2. thinkOpen' = FALSE /\ over' = "no"
  BY <1>1 DEF TextDelta, Yields, Receiving
<1>3. CASE /\ Grow(i)
           /\ Yields(CloseThink \o <<ContentChunk(<<<<i, items[i].size + 1>>>>)>>)
  <2> DEFINE r     == [items[i] EXCEPT !.size = @ + 1]
             piece == <<i, items[i].size + 1>>
  <2>1. /\ r \in Item /\ r.type = items[i].type
        /\ items' = [items EXCEPT ![i] = r] /\ style' = style
        /\ r.size = items[i].size + 1 /\ items[i].size \in Nat
    BY <1>1, <1>3, GrowFacts
  <2> HIDE DEF r
  <2>2. /\ <<piece>> \in Seq(Piece)
        /\ Text(i, r.size) = Text(i, items[i].size) \o <<piece>>
    BY <1>1, <2>1, TextPlus
  <2>3. Yields(CloseThink \o <<ContentChunk(<<piece>>)>>)
    BY <1>3
  <2> HIDE DEF piece
  <2>4. ASSUME SingleOf(items', style')
        PROVE  /\ SingleFits'
               /\ Lays(content, CloseThink \o <<ContentChunk(<<piece>>)>>, Laid(items', thinkOpen'))
    <3>1. /\ content \in Seq(Piece) /\ content \o Closing = Laid(items, FALSE)
          /\ \A open : ThoughtOf(items', open) = ThoughtOf(items, open)
          /\ items' \in Seq(Item) /\ DOMAIN items' = DOMAIN items
      BY <1>1, <2>1, <2>4, OtherLaid
    <3>2. SingleFits'
      BY <1>1, <1>2, <2>1, <2>4, OtherLaid
    <3>3. i = Len(items)
      BY <1>1 DEF ItemsAgree, OpenIsLast
    <3>4. items'[i].type = "message"
      BY <1>1, <2>1
    <3>5. TextOf(items', "message") = TextOf(items, "message") \o <<piece>>
      <4>1. Becomes(items, i, r, items')
        BY <1>1, <2>1, <3>1 DEF Becomes
      <4>2. TextGains(items, items', "message", Adds(items', "message", i, <<piece>>))
        BY <2>2, <3>3, <4>1, TextOfLonger
      <4>3. QED
        BY <3>4, <4>2 DEF TextGains, Adds
    <3>6. PICK h \in Seq(Piece), t \in Seq(Piece) :
             h = ThoughtOf(items, FALSE) /\ t = TextOf(items, "message")
      BY <1>1, ThoughtOfType
    <3>7. Laid(items', FALSE) = (h \o t) \o <<piece>>
      <4>1. Laid(items', FALSE) = h \o (t \o <<piece>>)
        BY <3>1, <3>5, <3>6 DEF Laid
      <4>2. (h \o t) \o <<piece>> = h \o (t \o <<piece>>)
        BY <2>2, PieceConcat
      <4>3. QED
        BY <4>1, <4>2
    <3>8. Laid(items', FALSE) = (content \o Closing) \o <<piece>>
      BY <3>1, <3>6, <3>7 DEF Laid
    <3>9. Lays(content, CloseThink, content \o Closing)
      BY <3>1, LaysClose
    <3>10. Lays(content \o Closing, <<ContentChunk(<<piece>>)>>, Laid(items', FALSE))
      BY <2>2, <3>8, LaysContent
    <3>11. Lays(content, CloseThink \o <<ContentChunk(<<piece>>)>>, Laid(items', FALSE))
      BY <3>9, <3>10, LaysConcat
    <3>12. QED
      BY <1>2, <3>2, <3>11
  <2>5. QED
    BY <1>1, <2>3, <2>4, YieldLaid
<1>4. CASE thinkOpen /\ UNCHANGED upstream /\ Yields(CloseThink)
  <2>1. items' = items /\ style' = style
    BY <1>4 DEF upstream
  <2>2. ASSUME SingleOf(items', style')
        PROVE  SingleFits' /\ Lays(content, CloseThink, Laid(items', thinkOpen'))
    <3>1. items[i] \in Item /\ items' = [items EXCEPT ![i] = items[i]]
      BY <1>1, <2>1
    <3>2. PICK r \in Item : r = items[i]
      BY <3>1
    <3>3. items' = [items EXCEPT ![i] = r] /\ r.type = items[i].type /\ items[i].type # "reasoning"
      BY <1>1, <3>1, <3>2
    <3>4. content \in Seq(Piece) /\ content \o Closing = Laid(items, FALSE) /\ SingleFits'
      BY <1>1, <1>2, <2>1, <2>2, <3>3, OtherLaid
    <3>5. Lays(content, CloseThink, content \o Closing)
      BY <3>4, LaysClose
    <3>6. QED
      BY <1>2, <2>1, <3>4, <3>5
  <2>3. QED
    BY <1>1, <1>4, <2>2, YieldLaid
<1>5. QED
  BY <1>3, <1>4 DEF TextDelta

LEMMA SummaryDeltaLaid ==
    ASSUME AdapterInv, AgreeInv, SingleInv, NEW i \in DOMAIN items, SummaryDelta(i)
    PROVE  SingleInv'
<1> DEFINE r == [items[i] EXCEPT !.size = @ + 1, !.partOpen = TRUE,
                   !.parts = IF items[i].partOpen THEN @ ELSE @ + 1]
           piece == <<i, items[i].size + 1>>
           text == IF thinkOpen THEN <<piece>> ELSE <<Open, piece>>
<1>1. /\ OpenItem(i, "reasoning") /\ Receiving /\ TypeOK /\ ~ items[i].done
      /\ items' = [items EXCEPT ![i] = r] /\ style' = style /\ style = "deltas"
      /\ Yields(<<ContentChunk(text)>>) /\ thinkOpen' = TRUE
  BY DEF SummaryDelta, OpenItem, AdapterInv
<1>2. items[i] \in Item /\ over' = "no"
  BY <1>1 DEF TypeOK, Yields, Receiving
<1>3. PICK n \in Nat, p \in Nat : n = items[i].size /\ p = items[i].parts
  BY <1>2 DEF Item
<1>4. /\ r \in Item /\ r.type = items[i].type /\ r.size = n + 1 /\ r.size > 0
      /\ r.parts >= items[i].parts
      /\ r.parts = IF items[i].partOpen THEN p ELSE p + 1
  <2>1. p + 1 \in Nat /\ p + 1 >= p /\ n + 1 \in Nat /\ n + 1 > 0 /\ p >= p
    OBVIOUS
  <2>2. QED
    BY <1>2, <1>3, <2>1 DEF Item
<1>5. piece = <<i, n + 1>>
  BY <1>3
<1> HIDE DEF r, piece
<1>6. ASSUME SingleOf(items', style')
      PROVE  SingleFits' /\ Lays(content, <<ContentChunk(text)>>, Laid(items', thinkOpen'))
  <2>1. /\ i = 1 /\ SingleOf(items, style) /\ 1 \in DOMAIN items'
        /\ items'[1] = r /\ content = ThoughtOf(items, thinkOpen)
        /\ TextOf(items', "message") = <<>> /\ items' \in Seq(Item)
        /\ \A open : Laid(items', open) = ThoughtOf(items', open)
        /\ SingleFits
    BY <1>1, <1>4, <1>6, ThoughtLaid
  <2>2. ~ thinkOpen => ~ items[1].partOpen /\ p = 0 /\ n = 0
    <3>1. SUFFICES ASSUME ~ thinkOpen PROVE ~ items[1].partOpen /\ p = 0 /\ n = 0
      OBVIOUS
    <3>2. ~ items[1].partOpen
      BY <1>1, <2>1, <3>1 DEF SingleFits, Receiving
    <3>3. r.parts <= 1 /\ r.parts = p + 1
      BY <1>4, <1>6, <2>1, <3>2 DEF SingleOf
    <3>4. p = 0
      BY <3>3
    <3>5. QED
      BY <1>1, <1>3, <2>1, <3>2, <3>4 DEF SingleFits
  <2>3. r.parts # 0
    <3>1. CASE items[1].partOpen /\ thinkOpen
      <4>1. n # 0
        BY <1>3, <2>1, <3>1 DEF SingleFits
      <4>2. p # 0
        BY <1>1, <1>3, <2>1, <4>1 DEF SingleFits
      <4>3. QED
        BY <1>4, <2>1, <3>1, <4>2
    <3>2. CASE ~ items[1].partOpen
      <4>1. p + 1 # 0
        OBVIOUS
      <4>2. QED
        BY <1>4, <2>1, <3>2, <4>1
    <3>3. QED
      BY <2>2, <3>1, <3>2
  <2>4. SingleFits'
    BY <1>1, <1>2, <1>4, <2>1, <2>3 DEF SingleFits
  <2>5. /\ <<piece>> \in Seq(Piece) /\ Text(1, n) \in Seq(Piece) /\ <<Open>> \in Seq(Piece)
        /\ Text(1, n + 1) = Text(1, n) \o <<piece>> /\ Text(1, 0) = <<>> /\ piece \in Piece
    <3>1. <<Open>> \in Seq(Piece)
      BY DEF Open, Piece
    <3>2. QED
      BY <1>5, <2>1, <3>1, TextPlus, TextFacts
  <2>6. PICK a \in Seq(Piece), t \in Seq(Piece), m \in Seq(Piece) :
           a = <<Open>> /\ t = Text(1, n) /\ m = <<piece>>
    BY <2>5
  <2>7. Laid(items', TRUE) = a \o (t \o m)
    <3>1. Laid(items', TRUE) = (a \o (t \o m)) \o <<>>
      BY <1>4, <2>1, <2>5, <2>6 DEF ThoughtOf
    <3>2. PICK b \in Seq(Piece) : b = a \o (t \o m)
      <4>1. PICK d \in Seq(Piece) : d = t \o m
        BY ConcatProperties
      <4>2. QED
        BY <4>1, ConcatProperties
    <3>3. b \o <<>> = b
      BY ConcatEmptySeq
    <3>4. QED
      BY <3>1, <3>2, <3>3
  <2>8. CASE thinkOpen
    <3>1. 1 \in DOMAIN items /\ items[1].size > 0
      BY <2>1, <2>8 DEF SingleFits
    <3>2. content = (a \o t) \o <<>>
      BY <1>3, <2>1, <2>6, <2>8, <3>1 DEF ThoughtOf
    <3>3. PICK b \in Seq(Piece) : b = a \o t
      BY ConcatProperties
    <3>4. content = b
      BY <3>2, <3>3, ConcatEmptySeq
    <3>5. b \o m = a \o (t \o m)
      BY <3>3, PieceConcat, SMTT(60)
    <3>6. Lays(content, <<ContentChunk(m)>>, content \o m)
      BY LaysContent
    <3>7. QED
      BY <1>1, <2>4, <2>6, <2>7, <2>8, <3>4, <3>5, <3>6
  <2>9. CASE ~ thinkOpen
    <3>1. content = <<>> /\ t = <<>>
      <4>1. n = 0 /\ ~ (items[1].size > 0)
        BY <1>3, <2>1, <2>2, <2>9
      <4>2. QED
        BY <2>1, <2>5, <2>6, <4>1 DEF ThoughtOf
    <3>2. text = a \o m
      <4>1. <<Open, piece>> = <<Open>> \o <<piece>>
        OBVIOUS
      <4>2. QED
        BY <2>6, <2>9, <4>1
    <3>3. <<>> \o m = m /\ a \o m \in Seq(Piece)
      BY ConcatEmptySeq, ConcatProperties
    <3>4. <<>> \o (a \o m) = a \o m
      BY <3>3, ConcatEmptySeq
    <3>5. Lays(<<>>, <<ContentChunk(a \o m)>>, <<>> \o (a \o m))
      BY <3>3, LaysContent
    <3>6. Laid(items', TRUE) = a \o m
      BY <2>7, <3>1, <3>3
    <3>7. QED
      BY <1>1, <2>4, <3>1, <3>2, <3>4, <3>5, <3>6
  <2>10. QED
    BY <2>8, <2>9
<1>7. QED
  BY <1>1, <1>6, YieldLaid

LEMMA SummaryDoneLaid ==
    ASSUME AdapterInv, AgreeInv, SingleInv, NEW i \in DOMAIN items, SummaryDone(i)
    PROVE  SingleInv'
<1>1. /\ OpenItem(i, "reasoning") /\ Receiving /\ TypeOK /\ ~ items[i].done
      /\ style \in {"deltas", "done"}
  BY DEF SummaryDone, OpenItem, AdapterInv
<1>2. items[i] \in Item /\ items \in Seq(Item)
  BY <1>1 DEF TypeOK
<1>3. CASE /\ style = "deltas" /\ items[i].partOpen
           /\ items' = [items EXCEPT ![i].partOpen = FALSE]
           /\ UNCHANGED style
  <2> DEFINE r == [items[i] EXCEPT !.partOpen = FALSE]
  <2>1. /\ r \in Item /\ r.type = items[i].type /\ r.size = items[i].size
        /\ r.parts = items[i].parts /\ ~ r.partOpen /\ r.parts >= items[i].parts
    <3>1. items[i].parts \in Nat /\ items[i].parts >= items[i].parts
      BY <1>2 DEF Item
    <3>2. QED
      BY <1>2, <3>1 DEF Item
  <2>2. items' = [items EXCEPT ![i] = r] /\ style' = style
    BY <1>3
  <2> HIDE DEF r
  <2>3. ASSUME SingleOf(items', style') PROVE thinkOpen /\ summaryStreamed /\ i = 1
    <3>1. i = 1 /\ SingleFits /\ (thinkOpen => summaryStreamed)
      BY <1>1, <2>1, <2>2, <2>3, ThoughtLaid
    <3>2. 1 \in DOMAIN items /\ items[1].partOpen /\ ~ items[1].done /\ over = "no"
      BY <1>1, <1>3, <3>1 DEF Receiving
    <3>3. thinkOpen
      BY <3>1, <3>2 DEF SingleFits
    <3>4. QED
      BY <3>1, <3>3
  <2>4. CASE ~ SingleOf(items', style')
    <3>1. over' = "no"
      BY <1>1 DEF SummaryDone, Yields, Receiving
    <3>2. QED
      BY <2>4 DEF SingleInv
  <2>5. CASE SingleOf(items', style')
    <3>1. Yields(CloseThink) /\ thinkOpen' = FALSE
      BY <2>3, <2>5 DEF SummaryDone
    <3>2. /\ content = ThoughtOf(items, thinkOpen) /\ content \in Seq(Piece)
          /\ SingleFits /\ items' \in Seq(Item) /\ i = 1
          /\ 1 \in DOMAIN items' /\ items'[1] = r /\ TextOf(items', "message") = <<>>
          /\ \A open : Laid(items', open) = ThoughtOf(items', open)
      BY <1>1, <2>1, <2>2, <2>5, ThoughtLaid
    <3>3. \A open : ThoughtOf(items', open) = ThoughtOf(items, open)
      BY <2>1, <3>2 DEF ThoughtOf
    <3>4. Laid(items', FALSE) = Laid(items', thinkOpen) \o Closing
      <4>1. thinkOpen => items[1].size > 0
        BY <3>2 DEF SingleFits
      <4>2. thinkOpen => items'[1].size > 0
        BY <2>1, <3>2, <4>1
      <4>3. QED
        BY <3>2, <4>2, LaidClosed
    <3>5. Lays(content, CloseThink, content \o Closing)
      BY <3>2, LaysClose
    <3>6. SingleFits'
      BY <2>1, <2>2, <3>1, <3>2 DEF SingleFits
    <3>7. QED
      BY <1>1, <3>1, <3>2, <3>3, <3>4, <3>5, <3>6, YieldLaid
  <2>6. QED
    BY <2>4, <2>5
<1>4. CASE style = "done" /\ style' = style
  <2>1. ~ SingleOf(items', style')
    BY <1>4 DEF SingleOf
  <2>2. QED
    BY <2>1 DEF SingleInv
<1>5. QED
  BY <1>3, <1>4 DEF SummaryDone, Grow

LEMMA ReasoningDoneLaid ==
    ASSUME AdapterInv, AgreeInv, SingleInv, NEW i \in DOMAIN items, ReasoningDone(i)
    PROVE  SingleInv'
<1>1. PICK sealed \in BOOLEAN, size \in IF style = "item" THEN 0 .. Room ELSE {items[i].size} :
         /\ OpenItem(i, "reasoning")
         /\ items' = [items EXCEPT ![i].done = TRUE, ![i].sealed = @ \/ sealed,
                                   ![i].size = size]
         /\ UNCHANGED style
         /\ IF ToolCallsSeen
            THEN Fails("adapter") /\ UNCHANGED machine
            ELSE /\ reasoning' = Stored(i, sealed, size)
                 /\ Yields(IF summaryStreamed \/ size = 0 THEN <<>>
                           ELSE <<ContentChunk(<<Open>> \o Text(i, size) \o <<Close>>)>>)
                 /\ UNCHANGED <<summaryStreamed, thinkOpen, toolIndex, toolArgs>>
  BY DEF ReasoningDone
<1>2. ~ ToolCallsSeen /\ Receiving /\ items[i].type = "reasoning" /\ ~ items[i].done /\ TypeOK
  BY <1>1, NoCallYet DEF OpenItem, AdapterInv
<1>3. items[i] \in Item /\ items[i].size \in Nat
  <2>1. items[i] \in Item
    BY <1>2 DEF TypeOK
  <2>2. QED
    BY <2>1, LongerItem
<1>4. size \in Nat
  <2>1. Room \in Int
    BY <1>2, RoomFacts
  <2>2. QED
    BY <1>1, <1>3, <2>1
<1>5. /\ Yields(IF summaryStreamed \/ size = 0 THEN <<>>
                ELSE <<ContentChunk(<<Open>> \o Text(i, size) \o <<Close>>)>>)
      /\ thinkOpen' = thinkOpen /\ over' = "no"
  BY <1>1, <1>2 DEF Yields, Receiving
<1> DEFINE r == [items[i] EXCEPT !.done = TRUE, !.sealed = @ \/ sealed, !.size = size]
<1>6. /\ r \in Item /\ r.type = items[i].type /\ r.done /\ r.size = size
      /\ r.partOpen = items[i].partOpen /\ r.parts = items[i].parts /\ r.parts >= items[i].parts
  <2>1. items[i].parts \in Nat /\ items[i].parts >= items[i].parts
    BY <1>3 DEF Item
  <2>2. QED
    BY <1>3, <1>4, <2>1 DEF Item
<1>7. items' = [items EXCEPT ![i] = r] /\ style' = style
  BY <1>1
<1> HIDE DEF r
<1>8. ASSUME SingleOf(items', style')
      PROVE  /\ SingleFits'
             /\ Lays(content, IF summaryStreamed \/ size = 0 THEN <<>>
                              ELSE <<ContentChunk(<<Open>> \o Text(i, size) \o <<Close>>)>>,
                     Laid(items', thinkOpen'))
  <2>1. /\ i = 1 /\ 1 \in DOMAIN items' /\ items'[1] = r /\ content = ThoughtOf(items, thinkOpen)
        /\ TextOf(items', "message") = <<>> /\ SingleFits /\ ItemsAgree
        /\ thinkOpen => summaryStreamed
        /\ \A open : Laid(items', open) = ThoughtOf(items', open)
    <3>1. OpenItem(i, "reasoning")
      BY <1>1
    <3>2. QED
      BY <1>6, <1>7, <1>8, <3>1, ThoughtLaid
  <2>2. ThoughtAgrees(i) /\ (summaryStreamed => style = "deltas") /\ style \in {"deltas", "item"}
    <3>1. style \in {"deltas", "item"}
      BY <1>2, <1>7, <1>8, StyleIs DEF SingleOf
    <3>2. QED
      BY <1>2, <2>1, <3>1 DEF ItemsAgree, Indices
  <2>3. size = items[i].size \/ (style = "item" /\ items[i].size = 0)
    BY <1>1, <1>2, <2>2 DEF ThoughtAgrees
  <2>4. SingleFits'
    <3>1. thinkOpen => size > 0
      <4>1. SUFFICES ASSUME thinkOpen PROVE size > 0
        OBVIOUS
      <4>2. items[1].size > 0
        BY <2>1, <4>1 DEF SingleFits
      <4>3. QED
        BY <2>1, <2>3, <4>2
    <3>2. style = "deltas" => size = items[1].size
      BY <2>1, <2>3
    <3>3. 1 \in DOMAIN items
      BY <2>1
    <3>4. QED
      BY <1>2, <1>5, <1>6, <1>7, <2>1, <3>1, <3>2, <3>3 DEF SingleFits
  <2>5. CASE summaryStreamed \/ size = 0
    <3>1. r.size = items[i].size
      BY <1>6, <2>2, <2>3, <2>5
    <3>2. \A open : ThoughtOf(items', open) = ThoughtOf(items, open)
      BY <2>1, <3>1 DEF ThoughtOf
    <3>3. Laid(items', thinkOpen') = content
      BY <1>5, <2>1, <3>2
    <3>4. QED
      BY <2>4, <2>5, <3>3, LaysNothing
  <2>6. CASE ~ (summaryStreamed \/ size = 0)
    <3>1. items[1].size = 0 /\ ~ thinkOpen
      BY <1>2, <2>1, <2>2, <2>3, <2>6 DEF ThoughtAgrees
    <3>2. content = <<>>
      <4>1. ~ (0 > 0)
        OBVIOUS
      <4>2. QED
        BY <2>1, <3>1, <4>1 DEF ThoughtOf
    <3>3. <<Open>> \in Seq(Piece) /\ <<Close>> \in Seq(Piece) /\ Text(1, size) \in Seq(Piece)
      <4>1. <<Open>> \in Seq(Piece) /\ <<Close>> \in Seq(Piece)
        BY DEF Open, Close, Piece
      <4>2. QED
        BY <1>4, <4>1, TextFacts
    <3>4. PICK x \in Seq(Piece) : x = <<Open>> \o Text(1, size) \o <<Close>>
      <4>1. PICK b \in Seq(Piece) : b = <<Open>> \o Text(1, size)
        BY <3>3, ConcatProperties
      <4>2. b \o <<Close>> \in Seq(Piece)
        BY <3>3, <4>1, ConcatProperties
      <4>3. QED
        BY <4>1, <4>2
    <3>5. Laid(items', thinkOpen') = x
      <4>1. size > 0
        BY <1>4, <2>6
      <4>2. QED
        BY <1>5, <1>6, <2>1, <3>1, <3>4, <4>1 DEF ThoughtOf
    <3>6. Lays(<<>>, <<ContentChunk(x)>>, <<>> \o x)
      BY LaysContent
    <3>7. <<>> \o x = x
      BY ConcatEmptySeq
    <3>8. QED
      BY <2>1, <2>4, <2>6, <3>2, <3>4, <3>5, <3>6, <3>7
  <2>7. QED
    BY <2>5, <2>6
<1>9. QED
  BY <1>2, <1>5, <1>8, YieldLaid

\* What a call yields closes the tag, and shows no more text.
LEMMA CallLays ==
    ASSUME TypeOK, MachineFits, NEW i \in 1 .. MaxItems, IndexOf(i) \in Nat,
           NEW full \in Seq(Piece), IsPrefix(Sent(i), full), NEW c \in Seq(Piece)
    PROVE  /\ Lays(c, Suffix(i, Sent(i), full), c)
           /\ Lays(c, CloseThink
                         \o (IF i \notin DOMAIN toolIndex THEN <<CallChunk(i, Carried)>> ELSE <<>>)
                         \o Suffix(i, Sent(i), full),
                   c \o Closing)
<1>1. \A d : Lays(d, Suffix(i, Sent(i), full), d)
  <2>1. SUFFICES ASSUME NEW d PROVE Lays(d, Suffix(i, Sent(i), full), d)
    OBVIOUS
  <2>2. CASE Sent(i) = full
    BY <2>2, LaysNothing DEF Suffix
  <2>3. CASE Sent(i) # full
    <3>1. Sent(i) \in Seq(Piece)
      BY SentType
    <3>2. SubSeq(full, Len(Sent(i)) + 1, Len(full)) \in Seq(Piece)
      BY <3>1, PrefixRest
    <3>3. PICK x \in Seq(Piece) : x = SubSeq(full, Len(Sent(i)) + 1, Len(full))
      BY <3>2
    <3>4. ArgsChunk(i, x) \in Chunk /\ ArgsChunk(i, x).kind = "args"
      BY ArgsType
    <3>5. Lays(d, <<ArgsChunk(i, x)>>, d)
      BY <3>4, LaysQuiet
    <3>6. QED
      BY <2>3, <3>3, <3>5 DEF Suffix
  <2>4. QED
    BY <2>2, <2>3
<1>2. Lays(c, CloseThink, c \o Closing)
  BY LaysClose
<1>3. Lays(c \o Closing, IF i \notin DOMAIN toolIndex THEN <<CallChunk(i, Carried)>> ELSE <<>>,
           c \o Closing)
  <2>1. Carried \in Capsules
    BY CarriedType
  <2>2. CallChunk(i, Carried) \in Chunk /\ CallChunk(i, Carried).kind = "call"
    BY <2>1, CallType
  <2>3. Lays(c \o Closing, <<CallChunk(i, Carried)>>, c \o Closing)
    BY <2>2, LaysQuiet
  <2>4. QED
    BY <2>3, LaysNothing
<1>4. Lays(c, CloseThink
                 \o (IF i \notin DOMAIN toolIndex THEN <<CallChunk(i, Carried)>> ELSE <<>>),
           c \o Closing)
  BY <1>2, <1>3, LaysConcat
<1>5. QED
  BY <1>1, <1>4, LaysConcat

LEMMA NewCallLaid ==
    ASSUME AdapterInv, AgreeInv, SingleInv, NEW size \in Nat, NEW done \in BOOLEAN,
           NewItem("call", FALSE, size, done),
           CallItem(Len(items) + 1, Text(Len(items) + 1, size))
    PROVE  SingleInv'
<1> DEFINE i == Len(items) + 1
           full == Text(i, size)
<1>1. TypeOK /\ MachineFits /\ Receiving
  BY MachineFitsBefore DEF AdapterInv, NewItem
<1>2. i \in 1 .. MaxItems /\ i \in Nat
  <2>1. Len(items) + 1 \in 1 .. MaxItems
    BY <1>1, NewItemFacts DEF Types
  <2>2. \A k \in 1 .. MaxItems : k \in Nat
    BY BoundsAssumption
  <2> HIDE DEF full
  <2>3. QED
    BY <2>1, <2>2
<1>3. full \in Seq(Piece)
  BY <1>2, TextFacts
<1>4. CallItem(i, full) /\ i = Len(items) + 1
  OBVIOUS
<1> HIDE DEF i, full
<1>5. CASE Fails("adapter") \/ Fails("upstream")
  BY <1>5, FailLaid
<1>6. CASE /\ IsPrefix(Sent(i), full)
           /\ Yields(CloseThink \o (IF i \notin DOMAIN toolIndex
                                    THEN <<CallChunk(i, Carried)>> ELSE <<>>)
                        \o Suffix(i, Sent(i), full))
  <2>1. /\ thinkOpen' = FALSE /\ over' = "no"
        /\ toolIndex' = With(toolIndex, i, IndexOf(i))
    BY <1>1, <1>4, <1>6 DEF CallItem, Yields, Receiving
  <2>2. IndexOf(i) \in Nat
    BY <1>1, <1>2, <1>4, <2>1, IndexNext
  <2>3. ASSUME SingleOf(items', style')
        PROVE  /\ SingleFits'
               /\ Lays(content, CloseThink \o (IF i \notin DOMAIN toolIndex
                                               THEN <<CallChunk(i, Carried)>> ELSE <<>>)
                                   \o Suffix(i, Sent(i), full), Laid(items', thinkOpen'))
    <3>1. content \in Seq(Piece) /\ content \o Closing = Laid(items', FALSE) /\ SingleFits'
      BY <2>1, <2>3, NewItemLaid DEF Types
    <3>2. QED
      BY <1>1, <1>2, <1>3, <1>6, <2>1, <2>2, <3>1, CallLays
  <2>4. QED
    BY <1>1, <1>6, <2>3, YieldLaid
<1>7. QED
  BY <1>4, <1>5, <1>6 DEF CallItem

LEMMA CallDoneLaid ==
    ASSUME AdapterInv, AgreeInv, SingleInv, NEW i \in DOMAIN items, CallDone(i)
    PROVE  SingleInv'
<1>1. /\ TypeOK /\ MachineFits /\ i \in DOMAIN toolIndex
      /\ items[i].type = "call" /\ Receiving
  BY OpenCallFacts, MachineFitsBefore DEF CallDone, AdapterInv
<1>2. PICK full \in Full(i) :
         /\ items' = [items EXCEPT ![i].done = TRUE, ![i].size = Len(full)]
         /\ CallItem(i, full)
  BY DEF CallDone
<1>3. full \in Seq(Piece) /\ Len(full) \in Nat
  BY <1>1, FullType
<1> DEFINE r == [items[i] EXCEPT !.done = TRUE, !.size = Len(full)]
<1>4. items[i] \in Item /\ i \in 1 .. MaxItems /\ items \in Seq(Item)
  BY <1>1, BoundsAssumption DEF TypeOK
<1>5. r \in Item /\ r.type = items[i].type
  BY <1>3, <1>4 DEF Item
<1>6. items' = [items EXCEPT ![i] = r] /\ style' = style
  BY <1>2 DEF CallDone
<1> HIDE DEF r
<1>7. IndexOf(i) \in Nat
  BY <1>1, IndexFacts DEF IndexOf
<1>8. CASE Fails("adapter") \/ Fails("upstream")
  BY <1>8, FailLaid
<1>9. CASE /\ IsPrefix(Sent(i), full)
           /\ Yields(CloseThink \o (IF i \notin DOMAIN toolIndex
                                    THEN <<CallChunk(i, Carried)>> ELSE <<>>)
                        \o Suffix(i, Sent(i), full))
  <2>1. thinkOpen' = FALSE /\ over' = "no"
    BY <1>1, <1>2, <1>9 DEF CallItem, Yields, Receiving
  <2>2. ASSUME SingleOf(items', style')
        PROVE  /\ SingleFits'
               /\ Lays(content, CloseThink \o (IF i \notin DOMAIN toolIndex
                                               THEN <<CallChunk(i, Carried)>> ELSE <<>>)
                                   \o Suffix(i, Sent(i), full), Laid(items', thinkOpen'))
    <3>1. /\ content \in Seq(Piece) /\ content \o Closing = Laid(items, FALSE)
          /\ \A open : ThoughtOf(items', open) = ThoughtOf(items, open)
          /\ items' \in Seq(Item) /\ SingleFits'
      BY <1>1, <1>5, <1>6, <2>1, <2>2, OtherLaid
    <3>2. TextOf(items', "message") = TextOf(items, "message")
      <4>1. Becomes(items, i, r, items')
        BY <1>4, <1>5, <1>6, <3>1 DEF Becomes
      <4>2. r.type # "message"
        BY <1>1, <1>5
      <4>3. QED
        BY <4>1, <4>2, TextOfChange
    <3>3. content \o Closing = Laid(items', FALSE)
      BY <3>1, <3>2 DEF Laid
    <3>4. QED
      BY <1>1, <1>3, <1>4, <1>7, <1>9, <2>1, <3>1, <3>3, CallLays
  <2>3. QED
    BY <1>1, <1>9, <2>2, YieldLaid
<1>10. QED
  BY <1>2, <1>8, <1>9 DEF CallItem

\* The arguments of a call do nothing to the text.
LEMMA ArgsLaid ==
    ASSUME AdapterInv, AgreeInv, SingleInv, Receiving, NEW i \in DOMAIN items,
           items[i].type = "call", NEW r \in Item, r.type = items[i].type,
           items' = [items EXCEPT ![i] = r], style' = style, thinkOpen' = thinkOpen,
           NEW chunks, Yields(chunks), \A c \in Seq(Piece) : Lays(c, chunks, c)
    PROVE  SingleInv'
<1>1. ASSUME SingleOf(items', style')
      PROVE  SingleFits' /\ Lays(content, chunks, Laid(items', thinkOpen'))
  <2>1. over' = "no" /\ items[i].type # "reasoning"
    BY DEF Yields, Receiving
  <2>2. /\ content = Laid(items, thinkOpen) /\ content \in Seq(Piece)
        /\ \A open : ThoughtOf(items', open) = ThoughtOf(items, open)
        /\ items \in Seq(Item) /\ items' \in Seq(Item)
        /\ TextOf(items', "message") = TextOf(items, "message") => SingleFits'
    BY <1>1, <2>1, OtherLaid
  <2>3. TextOf(items', "message") = TextOf(items, "message")
    <3>1. Becomes(items, i, r, items')
      BY <2>2 DEF Becomes
    <3>2. r.type # "message"
      OBVIOUS
    <3>3. QED
      BY <3>1, <3>2, TextOfChange
  <2>4. Laid(items', thinkOpen') = content
    BY <2>2, <2>3 DEF Laid
  <2>5. QED
    BY <2>2, <2>3, <2>4
<1>2. QED
  BY <1>1, YieldLaid

LEMMA ArgsDeltaLaid ==
    ASSUME AdapterInv, AgreeInv, SingleInv, NEW i \in DOMAIN items, ArgsDelta(i)
    PROVE  SingleInv'
<1> DEFINE x == <<<<i, items[i].size + 1>>>>
           r == [items[i] EXCEPT !.size = @ + 1]
<1>1. TypeOK /\ i \in DOMAIN toolIndex /\ items[i].type = "call" /\ Receiving
  BY OpenCallFacts DEF ArgsDelta, AdapterInv
<1>2. Grow(i) /\ Yields(<<ArgsChunk(i, x)>>) /\ thinkOpen' = thinkOpen
  BY DEF ArgsDelta
<1>3. /\ r \in Item /\ r.type = items[i].type /\ items[i].size \in Nat
      /\ items' = [items EXCEPT ![i] = r] /\ style' = style
  BY <1>1, <1>2, GrowFacts
<1> HIDE DEF r
<1>4. i \in Nat
  BY <1>1 DEF TypeOK
<1>5. x \in Seq(Piece)
  BY <1>3, <1>4, TextPlus
<1> HIDE DEF x
<1>6. IndexOf(i) \in Nat
  BY <1>1, IndexFacts DEF IndexOf
<1>7. ArgsChunk(i, x) \in Chunk /\ ArgsChunk(i, x).kind = "args"
  BY <1>5, <1>6, ArgsType
<1>8. \A c \in Seq(Piece) : Lays(c, <<ArgsChunk(i, x)>>, c)
  BY <1>7, LaysQuiet
<1>9. QED
  BY <1>1, <1>2, <1>3, <1>8, ArgsLaid

LEMMA ArgsDoneLaid ==
    ASSUME AdapterInv, AgreeInv, SingleInv, NEW i \in DOMAIN items, ArgsDone(i)
    PROVE  SingleInv'
<1>1. /\ TypeOK /\ MachineFits /\ i \in DOMAIN toolIndex /\ items[i].type = "call" /\ Receiving
  BY OpenCallFacts, MachineFitsBefore DEF ArgsDone, AdapterInv
<1>2. PICK full \in Full(i) :
         /\ items' = [items EXCEPT ![i].size = Len(full)]
         /\ IF IsPrefix(Sent(i), full)
            THEN /\ Yields(Suffix(i, Sent(i), full))
                 /\ toolArgs' = [toolArgs EXCEPT ![i] = full]
            ELSE Fails("upstream") /\ UNCHANGED toolArgs
  BY DEF ArgsDone
<1>3. full \in Seq(Piece) /\ Len(full) \in Nat
  BY <1>1, FullType
<1> DEFINE r == [items[i] EXCEPT !.size = Len(full)]
<1>4. items[i] \in Item /\ i \in 1 .. MaxItems
  BY <1>1, BoundsAssumption DEF TypeOK
<1>5. r \in Item /\ r.type = items[i].type
  BY <1>3, <1>4 DEF Item
<1>6. items' = [items EXCEPT ![i] = r] /\ style' = style /\ thinkOpen' = thinkOpen
  BY <1>2 DEF ArgsDone
<1> HIDE DEF r
<1>7. IndexOf(i) \in Nat
  BY <1>1, IndexFacts DEF IndexOf
<1>8. CASE IsPrefix(Sent(i), full)
  <2>1. Yields(Suffix(i, Sent(i), full))
    BY <1>2, <1>8
  <2>2. \A c \in Seq(Piece) : Lays(c, Suffix(i, Sent(i), full), c)
    BY <1>1, <1>3, <1>4, <1>7, <1>8, CallLays
  <2>3. QED
    BY <1>1, <1>5, <1>6, <2>1, <2>2, ArgsLaid
<1>9. CASE ~ IsPrefix(Sent(i), full)
  BY <1>2, <1>9, FailLaid
<1>10. QED
  BY <1>8, <1>9

LEMMA TerminalLaid ==
    ASSUME AdapterInv, AgreeInv, SingleInv, NEW t \in {"completed", "incomplete"}, Terminal(t)
    PROVE  SingleInv'
<1>1. /\ TypeOK /\ Receiving /\ over' = t /\ thinkOpen' = FALSE /\ items \in Seq(Item)
      /\ UNCHANGED <<style, items, content, calls>>
  BY DEF AdapterInv, TypeOK, Terminal, upstream, client
<1>2. PICK metered \in {<<>>, <<UsageChunk>>} :
         pending' = CloseThink \o <<FinishChunk(FinishReason(t))>> \o metered
  BY DEF Terminal
<1>3. SUFFICES ASSUME SingleOf(items, style)
               PROVE  SingleFits' /\ SingleTold'
  BY <1>1 DEF SingleInv
<1>4. content = Laid(items, thinkOpen) /\ content \in Seq(Piece) /\ SingleFits
  BY <1>1, <1>3, SingleHere
<1>5. content \o Closing = Laid(items, FALSE)
  BY <1>1, <1>4, LaidClosed DEF SingleFits
<1> DEFINE text == content \o Closing
           finishing == FinishChunk(FinishReason(t))
<1>6. Lays(content, CloseThink, text)
  BY <1>4, LaysClose
<1>7. finishing \in Chunk /\ finishing.kind = "finish" /\ UsageChunk \in Chunk /\ UsageChunk.kind = "usage"
  BY FinishType, UsageType DEF FinishReason, UsageChunk, Blank
<1> HIDE DEF text, finishing
<1>8. Lays(text, <<finishing>>, text)
  BY <1>7, LaysQuiet
<1>9. Lays(text, metered, text)
  <2>1. Lays(text, <<UsageChunk>>, text)
    BY <1>7, LaysQuiet
  <2>2. QED
    BY <2>1, LaysNothing
<1>10. Lays(content, CloseThink \o <<finishing>> \o metered, text)
  <2>1. Lays(content, CloseThink \o <<finishing>>, text)
    BY <1>6, <1>8, LaysConcat
  <2>2. QED
    BY <1>9, <2>1, LaysConcat
<1>11. SingleTold'
  <2>1. Transcript' = [content |-> content, calls |-> calls]
    BY <1>1 DEF Transcript
  <2>2. PICK shown : Turns([content |-> content, calls |-> calls],
                           CloseThink \o <<finishing>> \o metered,
                           [content |-> text, calls |-> shown])
    BY <1>10 DEF Lays
  <2>3. Laid(items', thinkOpen') = text
    BY <1>1, <1>5 DEF text
  <2>4. Turns(Transcript', pending', [content |-> Laid(items', thinkOpen'), calls |-> shown])
    BY <1>2, <2>1, <2>2, <2>3 DEF finishing
  <2>5. QED
    BY <2>4 DEF SingleTold
<1>12. SingleFits'
  BY <1>1, <1>4 DEF SingleFits, Receiving
<1>13. QED
  BY <1>11, <1>12

LEMMA QuietLaid ==
    ASSUME SingleInv, UNCHANGED provider,
           (~ Cut /\ SingleOf(items, style) /\ router \in {"forwarding", "done"} => SingleTold)'
    PROVE  SingleInv'
<1>1. UNCHANGED <<style, items, over, thinkOpen>>
  BY DEF provider, upstream, machine
<1>2. Cut' = Cut /\ SingleFits' = SingleFits
  BY <1>1 DEF Cut, SingleFits
<1>3. QED
  BY <1>1, <1>2 DEF SingleInv

LEMMA ForwardLaid ==
    ASSUME SingleInv, Forward
    PROVE  SingleInv'
<1> DEFINE c == Head(pending)
<1>1. /\ router = "forwarding" /\ router' = "forwarding" /\ pending # <<>>
      /\ Read(c) /\ pending' = Tail(pending) /\ UNCHANGED provider
  BY DEF Forward
<1>2. UNCHANGED <<style, items, over, thinkOpen>>
  BY <1>1 DEF provider, upstream, machine
<1>3. ASSUME ~ Cut', SingleOf(items', style') PROVE SingleTold'
  <2>1. ~ Cut /\ SingleOf(items, style)
    BY <1>2, <1>3 DEF Cut
  <2>2. PICK shown : Turns(Transcript, pending,
                           [content |-> Laid(items, thinkOpen), calls |-> shown])
    BY <1>1, <2>1 DEF SingleInv, SingleTold
  <2>3. Turns(Hears(Transcript, c), Tail(pending),
              [content |-> Laid(items, thinkOpen), calls |-> shown])
    BY <1>1, <2>2, TurnsHead
  <2>4. Transcript' = Hears(Transcript, c)
    <3> HIDE DEF c
    <3>1. QED
      BY <1>1 DEF Read, Transcript, Hears
  <2>5. QED
    BY <1>1, <1>2, <2>3, <2>4 DEF SingleTold
<1>4. QED
  BY <1>1, <1>3, QuietLaid

LEMMA StillLaid ==
    ASSUME SingleInv, UNCHANGED <<provider, pending, content, calls>>,
           router' \in {"forwarding", "done"} => router \in {"forwarding", "done"} \/ Cut
    PROVE  SingleInv'
<1>1. UNCHANGED <<style, items, over, thinkOpen>> /\ UNCHANGED provider
  BY DEF provider, upstream, machine
<1>2. Transcript' = Transcript /\ Cut' = Cut
  BY <1>1 DEF Transcript, Cut
<1>3. SingleTold => SingleTold'
  BY <1>1, <1>2 DEF SingleTold
<1>4. QED
  BY <1>1, <1>2, <1>3, QuietLaid DEF SingleInv

LEMMA InitLaid ==
    ASSUME Init
    PROVE  SingleInv
<1>1. /\ items = <<>> /\ thinkOpen = FALSE /\ pending = <<Blank>> /\ content = <<>>
  BY DEF Init
<1>2. SingleFits
  BY <1>1 DEF SingleFits
<1>3. Laid(items, thinkOpen) = <<>>
  <2>1. ThoughtOf(items, thinkOpen) = <<>>
    BY <1>1 DEF ThoughtOf
  <2>2. [k \in DOMAIN items |-> IF items[k].type = "message" THEN Text(k, items[k].size) ELSE <<>>] = <<>>
    BY <1>1
  <2>3. TextOf(items, "message") = <<>>
    BY <2>2, FlattenEmpty DEF TextOf
  <2>4. <<>> \o <<>> = <<>>
    OBVIOUS
  <2>5. QED
    BY <2>1, <2>3, <2>4 DEF Laid
<1>4. Lays(<<>>, <<Blank>>, <<>>)
  <2>1. Blank.kind # "content"
    BY DEF Blank
  <2>2. QED
    BY <2>1, BlankType, LaysQuiet
<1>5. SingleTold
  BY <1>1, <1>3, <1>4 DEF SingleTold, Lays, Transcript
<1>6. QED
  BY <1>2, <1>5 DEF SingleInv

LEMMA NextLaid ==
    ASSUME AdapterInv, AgreeInv, SingleInv, [Next]_vars
    PROVE  SingleInv'
<1>1. CASE ReasoningAdded
  BY <1>1, ReasoningAddedLaid
<1>2. CASE MessageAdded
  BY <1>2, MessageAddedLaid
<1>3. CASE CallAdded
  <2>1. NewItem("call", FALSE, 0, FALSE) /\ CallItem(Len(items) + 1, <<>>)
    BY <1>3 DEF CallAdded
  <2>2. Text(Len(items) + 1, 0) = <<>>
    BY DEF Text
  <2>3. QED
    BY <2>1, <2>2, NewCallLaid
<1>4. CASE CallWhole
  <2>1. PICK n \in 0 .. Room :
           NewItem("call", FALSE, n, TRUE) /\ CallItem(Len(items) + 1, Text(Len(items) + 1, n))
    BY <1>4 DEF CallWhole
  <2>2. n \in Nat
    BY RoomFacts DEF AdapterInv
  <2>3. QED
    BY <2>1, <2>2, NewCallLaid
<1>5. CASE OtherItem
  BY <1>5, OtherItemLaid
<1>6. ASSUME NEW i \in DOMAIN items,
             \/ SummaryDelta(i) \/ SummaryDone(i) \/ ReasoningDone(i)
             \/ TextDelta(i) \/ MessageDone(i)
             \/ ArgsDelta(i) \/ ArgsDone(i) \/ CallDone(i)
      PROVE  SingleInv'
  BY <1>6, SummaryDeltaLaid, SummaryDoneLaid, ReasoningDoneLaid, TextDeltaLaid,
     MessageDoneLaid, ArgsDeltaLaid, ArgsDoneLaid, CallDoneLaid
<1>7. CASE Terminal("completed") \/ Terminal("incomplete")
  BY <1>7, TerminalLaid
<1>8. CASE UpstreamBreaks
  BY <1>8, FailLaid DEF UpstreamBreaks
<1>9. CASE Forward
  BY <1>9, ForwardLaid
<1>10. CASE ForwardError
  <2>1. router' = "failed" /\ UNCHANGED provider
    BY <1>10 DEF ForwardError
  <2>2. QED
    BY <2>1, QuietLaid
<1>11. CASE SendDone
  <2>1. /\ router = "failed" \/ router = "forwarding"
        /\ UNCHANGED <<provider, pending, content, calls>>
    BY <1>11 DEF SendDone, client
  <2>2. router = "failed" => Cut
    BY DEF AdapterInv, RouterFits
  <2>3. QED
    BY <2>1, <2>2, StillLaid
<1>12. CASE ClientDrop
  <2>1. router' = "dropped" /\ UNCHANGED <<provider, pending, content, calls>>
    BY <1>12 DEF ClientDrop, client
  <2>2. QED
    BY <2>1, StillLaid
<1>13. CASE Continue
  BY <1>13, StillLaid DEF Continue, client
<1>14. CASE UNCHANGED vars
  <2>1. UNCHANGED <<provider, pending, router, content, calls>>
    BY <1>14 DEF vars, provider, client
  <2>2. QED
    BY <2>1, StillLaid
<1>15. QED
  BY <1>1, <1>2, <1>3, <1>4, <1>5, <1>6, <1>7, <1>8, <1>9, <1>10, <1>11, <1>12, <1>13, <1>14
     DEF Next
-----------------------------------------------------------------------------
(* What the next turn hands back *)

\* A summary shown in one block goes, and the answer stays.
LEMMA OneThoughtRest ==
    ASSUME TypeOK, ItemsAgree, TextAgrees(items, style, content),
           content = Laid(items, FALSE), SingleOf(items, style), 1 \in DOMAIN items,
           reasoning[1].size = items[1].size,
           NEW echo \in {content, Among(content, Pieces("message")), <<>>}
    PROVE  Rest(echo, Carried) = Among(echo, Pieces("message"))
<1>1. PICK n \in Nat : n = items[1].size
  <2>1. items[1] \in Item
    BY DEF TypeOK
  <2>2. QED
    BY <2>1 DEF Item
<1>2. DOMAIN Carried = {1} /\ Carried[1] = n
  <2>1. DOMAIN reasoning = {1}
    BY DEF ItemsAgree, SingleOf, Indices
  <2>2. QED
    BY <1>1, <2>1 DEF Carried
<1>3. IsCarried(Carried) /\ Carried # Empty
  <2>1. IsFiniteSet({1})
    BY FS_Singleton
  <2>2. DOMAIN Carried # {} /\ DOMAIN Empty = {}
    BY <1>2 DEF Empty
  <2>3. {1} \subseteq Nat /\ \A i \in {1} : i = 1
    OBVIOUS
  <2>4. IsCarried(Carried)
    BY <1>2, <2>1, <2>3 DEF IsCarried
  <2>5. QED
    BY <2>2, <2>4
<1>4. PICK w \in Seq(Piece) : w = Text(1, n) /\ Len(w) = n
  BY TextFacts
<1>5. Summary(Carried) = w
  <2>1. Cardinality({1}) = 1 /\ IsFiniteSet({1})
    BY FS_Singleton
  <2>1a. {1} \subseteq Nat
    OBVIOUS
  <2>2. \A k \in 1 .. 1 : At({1}, k) = 1
    BY <2>1, <2>1a, Enumerated
  <2>3. Summary(Carried)
           = FlattenSeq([k \in 1 .. Cardinality({1}) |-> Text(At({1}, k), Carried[At({1}, k)])])
    BY <1>2 DEF Summary, InOrder, At
  <2>4. [k \in 1 .. Cardinality({1}) |-> Text(At({1}, k), Carried[At({1}, k)])]
           = [k \in 1 .. 1 |-> w]
    BY <1>2, <1>4, <2>1, <2>2
  <2>5. [k \in 1 .. 1 |-> w] = <<w>>
    OBVIOUS
  <2>6. QED
    BY <2>3, <2>4, <2>5, FlattenOne
<1> DEFINE M == Pieces("message")
<1>6. PICK ans \in Seq(Piece) :
         /\ ans = TextOf(items, "message") /\ ans = Among(content, M)
         /\ Among(ans, M) = ans /\ (ans # <<>> => ans[1] # Open) /\ content \in Seq(Piece)
  <2>1. content \in Seq(Piece)
    BY DEF TypeOK
  <2>2. M = PiecesOf(items, "message")
    BY TextIs
  <2>3. TextOf(items, "message") = Among(content, M)
    BY <2>2 DEF TextAgrees
  <2>4. Open \notin M
    BY DEF Open, Pieces, Indices, TypeOK
  <2> HIDE DEF M
  <2>5. PICK a \in Seq(Piece), b \in Seq(Piece \cap M) : a = Among(content, M) /\ a = b
    BY <2>1, AmongType
  <2>6. \A k \in DOMAIN a : a[k] \in M
    <3>1. \A k \in DOMAIN b : b[k] \in Piece \cap M
      OBVIOUS
    <3>2. QED
      BY <2>5, <3>1
  <2>7. Among(a, M) = a
    BY <2>5, <2>6, AmongAll
  <2>8. a # <<>> => a[1] # Open
    <3>1. ASSUME a # <<>> PROVE 1 \in DOMAIN a
      <4>1. PICK m \in Nat : m = Len(a) /\ DOMAIN a = 1 .. m
        OBVIOUS
      <4>2. Len(a) # 0
        BY <3>1, EmptySeq
      <4>3. QED
        BY <4>1, <4>2
    <3>2. QED
      BY <2>4, <2>6, <3>1
  <2>9. QED
    BY <2>1, <2>3, <2>5, <2>7, <2>8
<1>7. content = ThoughtOf(items, FALSE) \o ans
  BY <1>6 DEF Laid
<1>8. Rest(content, Carried) = ans
  <2>1. CASE n = 0
    <3>1. ThoughtOf(items, FALSE) = <<>>
      BY <1>1, <2>1 DEF ThoughtOf
    <3>2. content = ans
      BY <1>6, <1>7, <3>1, ConcatEmptySeq
    <3>3. QED
      BY <1>3, <1>6, <3>2, RestOfPlain
  <2>2. CASE n # 0
    <3>1. ThoughtOf(items, FALSE) = (<<Open>> \o w) \o <<Close>>
      BY <1>1, <1>4, <2>2 DEF ThoughtOf
    <3>2. content = Wrapped(Summary(Carried)) \o ans
      BY <1>5, <1>7, <3>1 DEF Wrapped
    <3>3. Summary(Carried) # <<>>
      BY <1>4, <1>5, <2>2
    <3>4. QED
      BY <1>3, <1>6, <3>2, <3>3, RestOfWrapped
  <2>3. QED
    BY <2>1, <2>2
<1>9. Rest(ans, Carried) = ans
  BY <1>3, <1>6, RestOfPlain
<1>10. Rest(<<>>, Carried) = <<>> /\ Among(<<>>, M) = <<>>
  BY <1>3, RestNothing, AmongEmpty
<1>11. QED
  BY <1>6, <1>8, <1>9, <1>10

\* The turn that the client hands back holds the calls of the machine.
TurnFits(turn, n, c) ==
    /\ AllCarry(turn, n, c) /\ Apiece(turn, n) /\ IsCarried(c)
    /\ \A k \in 1 .. n : turn[k].item \in DOMAIN toolIndex
                         /\ turn[k].args = toolArgs[turn[k].item]
    /\ \A i \in DOMAIN toolIndex : \E k \in 1 .. n : turn[k].item = i
    /\ calls # Empty => c = Carried

LEMMA TurnIs ==
    ASSUME TypeOK, ItemsAgree, CallsAgree(calls, toolIndex, Carried, toolArgs), NEW turn,
           turn = [k \in 1 .. Cardinality(DOMAIN calls) |-> calls[k - 1]]
    PROVE  \E n \in Nat : \E c : TurnFits(turn, n, c)
<1>1. PICK n \in Nat : n = Cardinality(DOMAIN toolIndex)
  BY IndexFacts
<1>2. DOMAIN calls = 0 .. n - 1 /\ Cardinality(DOMAIN calls) = n
  <2>1. DOMAIN calls = 0 .. n - 1
    BY <1>1 DEF CallsAgree
  <2>2. Cardinality(0 .. n - 1) = IF 0 > n - 1 THEN 0 ELSE n - 1 - 0 + 1
    <3>1. PICK m \in Int : m = n - 1
      OBVIOUS
    <3>2. 0 \in Int
      OBVIOUS
    <3>3. Cardinality(0 .. m) = IF 0 > m THEN 0 ELSE m - 0 + 1
      BY <3>2, FS_Interval
    <3>4. QED
      BY <3>1, <3>3
  <2>3. QED
    BY <2>1, <2>2
<1>3. DOMAIN turn = 1 .. n /\ \A k \in 1 .. n : turn[k] = calls[k - 1]
  BY <1>2
<1>4. ASSUME NEW k \in 1 .. n
      PROVE  \E i \in DOMAIN toolIndex :
                /\ toolIndex[i] = k - 1
                /\ turn[k] = [item |-> i, carries |-> Carried, args |-> toolArgs[i]]
  <2>1. k - 1 \in DOMAIN calls
    BY <1>2
  <2>2. PICK i \in DOMAIN toolIndex : k - 1 = toolIndex[i]
    BY <2>1, ZenonT(60) DEF CallsAgree
  <2>3. calls[toolIndex[i]] = [item |-> i, carries |-> Carried, args |-> toolArgs[i]]
    BY DEF CallsAgree
  <2>4. QED
    BY <1>3, <2>2, <2>3
<1>5. \A k \in 1 .. n : /\ turn[k].item \in DOMAIN toolIndex
                        /\ toolIndex[turn[k].item] = k - 1
                        /\ turn[k].args = toolArgs[turn[k].item]
                        /\ turn[k].carries = Carried
  <2>1. ASSUME NEW k \in 1 .. n
        PROVE  /\ turn[k].item \in DOMAIN toolIndex
               /\ toolIndex[turn[k].item] = k - 1
               /\ turn[k].args = toolArgs[turn[k].item]
               /\ turn[k].carries = Carried
    <3>1. PICK i \in DOMAIN toolIndex :
             /\ toolIndex[i] = k - 1
             /\ turn[k] = [item |-> i, carries |-> Carried, args |-> toolArgs[i]]
      BY <1>4
    <3>2. turn[k].item = i /\ turn[k].args = toolArgs[i] /\ turn[k].carries = Carried
      BY <3>1
    <3>3. QED
      BY <3>1, <3>2
  <2>2. QED
    BY <2>1
<1>6. \A i \in DOMAIN toolIndex : \E k \in 1 .. n : turn[k].item = i
  <2>1. ASSUME NEW i \in DOMAIN toolIndex PROVE \E k \in 1 .. n : turn[k].item = i
    <3>1. PICK t \in Nat : t = toolIndex[i] /\ t < n
      BY <1>1, IndexFacts
    <3>2. t + 1 \in 1 .. n /\ t + 1 - 1 = t
      BY <3>1
    <3>3. toolIndex[turn[t + 1].item] = t /\ turn[t + 1].item \in DOMAIN toolIndex
      BY <1>5, <3>2
    <3>4. turn[t + 1].item = i
      BY <3>1, <3>3, IndicesDistinct DEF Distinct
    <3>5. QED
      BY <3>2, <3>4
  <2>2. QED
    BY <2>1
<1>7. Apiece(turn, n)
  <2>1. \A i \in DOMAIN toolIndex : i \in Nat /\ toolArgs[i] \in Seq(Piece)
    BY DEF TypeOK
  <2>2. \A k \in 1 .. n : turn[k].item \in Nat /\ turn[k].args \in Seq(Piece)
    BY <1>5, <2>1
  <2>3. \A j, k \in 1 .. n : turn[j].item = turn[k].item => j = k
    <3>1. SUFFICES ASSUME NEW j \in 1 .. n, NEW k \in 1 .. n, turn[j].item = turn[k].item
                   PROVE  j = k
      OBVIOUS
    <3>2. j - 1 = k - 1
      BY <1>5, <3>1, ZenonT(60)
    <3>3. QED
      BY <3>2
  <2>4. QED
    BY <2>2, <2>3 DEF Apiece
<1>8. IsCarried(Carried) /\ IsCarried(Empty)
  <2>1. DOMAIN Carried = DOMAIN reasoning /\ \A i \in DOMAIN Carried : Carried[i] = reasoning[i].size
    BY DEF Carried
  <2>2. /\ items \in Seq(Item) /\ DOMAIN reasoning \subseteq DOMAIN items
        /\ \A i \in DOMAIN reasoning : reasoning[i] \in [sealed : BOOLEAN, size : 0 .. MaxPieces]
    BY DEF TypeOK
  <2>3. \A i \in DOMAIN reasoning : reasoning[i].size \in Nat
    BY <2>2
  <2>4. IsFiniteSet(DOMAIN reasoning)
    BY <2>2, FewIndices
  <2>5. DOMAIN reasoning \subseteq Nat
    BY <2>2
  <2>6. IsCarried(Carried)
    BY <2>1, <2>3, <2>4, <2>5 DEF IsCarried
  <2>7. IsCarried(Empty)
    BY FS_EmptySet DEF IsCarried, Empty
  <2>8. QED
    BY <2>6, <2>7
<1>9. CASE n = 0
  <2>1. DOMAIN calls = {} /\ DOMAIN turn = {}
    BY <1>2, <1>3, <1>9
  <2>2. calls = [k \in DOMAIN calls |-> calls[k]]
    BY DEF CallsAgree, IsFcn
  <2>3. calls = Empty
    BY <2>1, <2>2 DEF Empty
  <2>4. turn = <<>>
    <3>1. turn = [k \in 1 .. 0 |-> calls[k - 1]]
      BY <1>2, <1>9
    <3>2. QED
      BY <3>1
  <2>5. AllCarry(turn, n, Empty)
    BY <1>3, <1>9, <2>4 DEF AllCarry
  <2>6. TurnFits(turn, n, Empty)
    BY <1>5, <1>6, <1>7, <1>8, <2>3, <2>5 DEF TurnFits
  <2>7. QED
    BY <2>6
<1>10. CASE n # 0
  <2>1. AllCarry(turn, n, Carried)
    BY <1>3, <1>5, <1>10 DEF AllCarry
  <2>2. TurnFits(turn, n, Carried)
    BY <1>5, <1>6, <1>7, <1>8, <2>1 DEF TurnFits
  <2>3. QED
    BY <2>2
<1>11. QED
  BY <1>9, <1>10

\* The entries that a turn becomes say all that the machine told.
LEMMA HandedBack ==
    ASSUME TypeOK, ItemsAgree, UNCHANGED <<style, items, toolIndex, toolArgs, calls>>,
           NEW turn, NEW n \in Nat, NEW c, TurnFits(turn, n, c),
           NEW d \in Seq(Entries), NEW echo, NEW rest,
           ThoughtsIn(d, c), TextIn(d, rest), CallsIn(d, turn, n),
           Among(rest, Pieces("message")) = Among(echo, Pieces("message")),
           calls # Empty /\ OneThought => rest = Among(echo, Pieces("message")),
           input' = [echo |-> echo, entries |-> d]
    PROVE  ReplayFaithful'
<1> DEFINE W(type) == {k \in DOMAIN d : d[k].type = type}
           M == Pieces("message")
<1>1. /\ \A type : Where(type)' = W(type)
      /\ input'.entries = d /\ input'.echo = echo
      /\ M' = M /\ Indices("reasoning")' = Indices("reasoning") /\ OneThought' = OneThought
  BY DEF Where, Pieces, Indices, OneThought
<1>2. \A k \in DOMAIN d : d[k] \in Entries
  OBVIOUS
<1>3. W("rejected") = {}
  BY <1>2 DEF Entries
<1>4. ASSUME calls # Empty, NEW i \in Indices("reasoning")
      PROVE  Cardinality({k \in W("reasoning") : d[k].item = i}) = 1
  <2>1. i \in DOMAIN c
    BY <1>4 DEF TurnFits, ItemsAgree, Carried
  <2>2. PICK k \in DOMAIN d : d[k].type = "reasoning" /\ d[k].item = i
    BY <2>1 DEF ThoughtsIn
  <2>3. \A l \in W("reasoning") : d[l].item = i => l = k
    BY <2>2 DEF ThoughtsIn, Twins
  <2>4. {l \in W("reasoning") : d[l].item = i} = {k}
    BY <2>2, <2>3
  <2>5. Cardinality({k}) = 1
    BY FS_Singleton
  <2>6. QED
    BY <2>4, <2>5
<1>5. \A k \in W("reasoning"), l \in W("call") : k < l
  BY DEF ThoughtsIn
<1>6. Among(echo, M) # <<>> => {d[k].text : k \in W("message")} # {}
  <2>1. SUFFICES ASSUME Among(echo, M) # <<>> PROVE \E k \in DOMAIN d : d[k].type = "message"
    OBVIOUS
  <2>2. rest # <<>>
    BY <2>1, AmongEmpty
  <2>3. QED
    BY <2>2 DEF TextIn
<1>7. \A text \in {d[k].text : k \in W("message")} : text = rest
  BY DEF TextIn
<1>8. \A k \in DOMAIN d : d[k].type = "call" =>
         \E j \in 1 .. n : d[k] = Entry("call", turn[j].item, toolArgs[turn[j].item])
  <2>1. \A j \in 1 .. n : CallOf(turn[j]) = Entry("call", turn[j].item, toolArgs[turn[j].item])
    BY DEF CallOf, TurnFits
  <2>2. QED
    BY <2>1 DEF CallsIn
<1>9. ASSUME NEW k \in W("call")
      PROVE  /\ d[k].item \in DOMAIN toolIndex /\ d[k].text = toolArgs[d[k].item]
             /\ d[k] = Entry("call", d[k].item, toolArgs[d[k].item])
  <2>1. PICK j \in 1 .. n : d[k] = Entry("call", turn[j].item, toolArgs[turn[j].item])
    BY <1>8
  <2>2. d[k].item = turn[j].item /\ d[k].text = toolArgs[turn[j].item]
    BY <2>1 DEF Entry
  <2>3. turn[j].item \in DOMAIN toolIndex
    BY DEF TurnFits
  <2>4. QED
    BY <2>1, <2>2, <2>3
<1>10. ASSUME NEW i \in DOMAIN toolIndex
       PROVE  \E k \in W("call"), o \in W("output") :
                 k < o /\ d[k].item = i /\ d[k].text = toolArgs[i] /\ d[o].item = i
  <2>1. PICK j \in 1 .. n : turn[j].item = i
    BY DEF TurnFits
  <2>2. PICK k \in DOMAIN d, o \in DOMAIN d :
           k < o /\ d[k] = CallOf(turn[j]) /\ d[o] = OutputOf(turn[j])
    BY DEF CallsIn
  <2>3. turn[j].args = toolArgs[i]
    BY <2>1 DEF TurnFits
  <2>4. d[k].type = "call" /\ d[k].item = i /\ d[k].text = toolArgs[i]
    BY <2>1, <2>2, <2>3 DEF CallOf, Entry
  <2>5. d[o].type = "output" /\ d[o].item = i
    BY <2>1, <2>2 DEF OutputOf, Entry
  <2>6. QED
    BY <2>2, <2>4, <2>5
<1>11. \A k, l \in W("call") : d[k].item = d[l].item => k = l
  <2>1. SUFFICES ASSUME NEW k \in W("call"), NEW l \in W("call"), d[k].item = d[l].item
                 PROVE  k = l
    OBVIOUS
  <2>2. d[k] = d[l]
    BY <1>9, <2>1
  <2>3. QED
    BY <2>2 DEF CallsIn
<1>12. {<<d[k].item, d[k].text>> : k \in W("call")} = {<<i, toolArgs[i]>> : i \in DOMAIN toolIndex}
  <2>1. ASSUME NEW k \in W("call")
        PROVE  <<d[k].item, d[k].text>> \in {<<i, toolArgs[i]>> : i \in DOMAIN toolIndex}
    BY <1>9
  <2>2. ASSUME NEW i \in DOMAIN toolIndex
        PROVE  <<i, toolArgs[i]>> \in {<<d[k].item, d[k].text>> : k \in W("call")}
    <3>1. PICK k \in W("call") : d[k].item = i /\ d[k].text = toolArgs[i]
      BY <1>10
    <3>2. QED
      BY <3>1
  <2>3. QED
    BY <2>1, <2>2
<1>13. Cardinality(W("call")) = Cardinality(DOMAIN toolIndex)
  <2> DEFINE S == W("call")
             T == DOMAIN toolIndex
             f == [k \in S |-> d[k].item]
  <2>1. f \in Bijection(S, T)
    <3>1. \A k \in S : d[k].item \in T
      BY <1>9
    <3>2. \A k, l \in S : d[k].item = d[l].item => k = l
      BY <1>11
    <3>3. \A i \in T : \E k \in S : d[k].item = i
      BY <1>10
    <3> HIDE DEF S, T
    <3>4. f \in Injection(S, T)
      BY <3>1, <3>2 DEF Injection, IsInjective
    <3>5. f \in Surjection(S, T)
      BY <3>1, <3>3 DEF Surjection
    <3>6. QED
      BY <3>4, <3>5 DEF Bijection
  <2>2. IsFiniteSet(T)
    BY IndexFacts
  <2>3. IsFiniteSet(S)
    <3>1. Len(d) \in Nat /\ DOMAIN d = 1 .. Len(d)
      OBVIOUS
    <3>2. IsFiniteSet(1 .. Len(d))
      BY <3>1, FS_Interval
    <3>3. S \subseteq 1 .. Len(d)
      BY <3>1
    <3> HIDE DEF S
    <3>4. QED
      BY <3>2, <3>3, FS_Subset
  <2>4. ExistsBijection(S, T)
    <3> HIDE DEF S, T, f
    <3>1. QED
      BY <2>1 DEF ExistsBijection
  <2>5. QED
    <3> HIDE DEF S, T
    <3>1. Cardinality(S) = Cardinality(T)
      BY <2>2, <2>3, <2>4, FS_Bijection
    <3>2. QED
      BY <3>1 DEF S, T
<1>14. ASSUME NEW k \in W("call")
       PROVE  \E o \in W("output") : o > k /\ d[o].item = d[k].item
  <2>1. d[k].item \in DOMAIN toolIndex
    BY <1>9
  <2>2. PICK l \in W("call"), o \in W("output") : l < o /\ d[l].item = d[k].item /\ d[o].item = d[k].item
    BY <1>10, <2>1
  <2>3. l = k
    BY <1>11, <2>2
  <2>4. QED
    BY <2>2, <2>3
<1>15. ASSUME calls # Empty
       PROVE  /\ \A text \in {d[k].text : k \in W("message")} : Among(text, M) = Among(echo, M)
              /\ OneThought => {d[k].text : k \in W("message")} \subseteq {Among(echo, M)}
  BY <1>7, <1>15
<1> HIDE DEF W, M
<1>16. QED
  BY <1>1, <1>3, <1>4, <1>5, <1>6, <1>12, <1>13, <1>14, <1>15 DEF ReplayFaithful, M

ReplayInv ==
    /\ router = "done" => pending = <<>>
    /\ input # NoTurn => router = "done"
    /\ ReplayFaithful

\* The content of one thought, once the stream ended well.
LEMMA SingleShown ==
    ASSUME AdapterInv, AgreeInv, SingleInv, router = "done", pending = <<>>, ~ Cut, over # "no",
           SingleOf(items, style)
    PROVE  content = Laid(items, FALSE)
<1>1. SingleFits /\ SingleTold
  BY DEF SingleInv
<1>2. ~ thinkOpen /\ thinkOpen \in BOOLEAN
  BY <1>1 DEF SingleFits, AdapterInv, TypeOK
<1>3. thinkOpen = FALSE
  BY <1>2
<1>4. PICK shown : Turns(Transcript, pending, [content |-> Laid(items, thinkOpen), calls |-> shown])
  BY <1>1 DEF SingleTold
<1>5. content = Laid(items, thinkOpen)
  BY <1>4, TurnsNothing DEF Transcript
<1>6. QED
  BY <1>3, <1>5

\* What is left of an echo: the answer of it, and no more if the thought was one.
LEMMA EchoRest ==
    ASSUME AdapterInv, AgreeInv, SingleInv, router = "done", pending = <<>>, ~ Cut, over # "no",
           NEW turn, NEW n \in Nat, NEW c, TurnFits(turn, n, c),
           NEW echo \in {content, Among(content, Pieces("message")), <<>>}
    PROVE  /\ Rest(echo, c) \in Seq(Piece)
           /\ Among(Rest(echo, c), Pieces("message")) = Among(echo, Pieces("message"))
           /\ calls # Empty /\ OneThought => Rest(echo, c) = Among(echo, Pieces("message"))
<1>1. /\ TypeOK /\ ItemsAgree /\ IsCarried(c) /\ content \in Seq(Piece)
      /\ TextAgrees(items, style, content) /\ CallsAgree(calls, toolIndex, Carried, toolArgs)
  <2>1. ItemsAgree /\ Told
    BY DEF AgreeInv
  <2>2. TypeOK /\ content \in Seq(Piece)
    BY DEF AdapterInv, TypeOK
  <2>3. IsCarried(c)
    BY DEF TurnFits
  <2>4. QED
    BY <2>1, <2>2, <2>3, ToldNow
<1> DEFINE M == Pieces("message")
<1>2. echo \in Seq(Piece)
  <2>1. <<>> \in Seq(Piece)
    OBVIOUS
  <2> HIDE DEF M
  <2>2. Among(content, M) \in Seq(Piece)
    BY <1>1, AmongType
  <2>3. QED
    BY <1>1, <2>1, <2>2 DEF M
<1>3. Rest(echo, c) \in Seq(Piece)
  BY <1>1, <1>2, RestIs
<1>4. Among(Rest(echo, c), M) = Among(echo, M)
  <2>1. CASE c = Empty
    BY <2>1 DEF Rest
  <2>2. CASE c # Empty
    <3>1. calls # Empty
      <4>1. n # 0
        BY <2>2 DEF TurnFits, AllCarry
      <4>2. 1 \in 1 .. n
        BY <4>1
      <4>3. PICK i \in DOMAIN toolIndex : TRUE
        BY <4>2 DEF TurnFits
      <4>4. toolIndex[i] \in DOMAIN calls
        BY <1>1 DEF CallsAgree
      <4>5. DOMAIN Empty = {}
        BY DEF Empty
      <4>6. QED
        BY <4>4, <4>5
    <3>2. DOMAIN c = Indices("reasoning")
      BY <1>1, <3>1 DEF TurnFits, ItemsAgree, Carried
    <3>3. \A t \in (DOMAIN c) \X Nat : t \notin M
      <4>1. \A i \in Indices("reasoning") : i \notin Indices("message")
        BY DEF Indices
      <4>2. QED
        BY <3>2, <4>1 DEF Pieces
    <3>4. Open \notin M /\ Close \notin M
      BY <1>1 DEF Open, Close, Pieces, Indices, TypeOK
    <3> HIDE DEF M
    <3>5. QED
      BY <1>1, <1>2, <3>3, <3>4, RestKeeps
  <2>3. QED
    BY <2>1, <2>2
<1>5. ASSUME calls # Empty, OneThought PROVE Rest(echo, c) = Among(echo, M)
  <2>1. PICK j : Indices("reasoning") = {j}
    <3>1. items \in Seq(Item) /\ Indices("reasoning") \subseteq DOMAIN items
      BY <1>1 DEF TypeOK, Indices
    <3>2. IsFiniteSet(Indices("reasoning"))
      BY <3>1, FewIndices
    <3>3. Cardinality(Indices("reasoning")) = 1
      BY <1>5 DEF OneThought
    <3>4. QED
      BY <3>2, <3>3, FS_Singleton
  <2>2. 1 \in DOMAIN items
    <3>1. j \in DOMAIN items
      BY <2>1 DEF Indices
    <3>2. PICK m \in Nat : m = Len(items) /\ DOMAIN items = 1 .. m
      BY <1>1 DEF TypeOK
    <3>3. j \in 1 .. m
      BY <3>1, <3>2
    <3>4. 1 \in 1 .. m
      BY <3>3
    <3>5. QED
      BY <3>2, <3>4
  <2>3. items[1].type = "reasoning" /\ items[1].parts <= 1 /\ style # "done"
    BY <1>5 DEF OneThought
  <2>4. j = 1
    BY <2>1, <2>2, <2>3 DEF Indices
  <2>5. SingleOf(items, style)
    BY <2>1, <2>3, <2>4 DEF SingleOf, Indices
  <2>6. content = Laid(items, FALSE)
    BY <2>5, SingleShown
  <2>7. reasoning[1].size = items[1].size
    <3>1. PICK i \in DOMAIN toolIndex : TRUE
      <4>1. DOMAIN calls # {}
        <5>1. calls = [k \in DOMAIN calls |-> calls[k]]
          BY <1>1 DEF CallsAgree, IsFcn
        <5>2. QED
          BY <1>5, <5>1 DEF Empty
      <4>2. QED
        BY <1>1, <4>1 DEF CallsAgree
    <3>2. i \in Indices("call") /\ 1 \in Indices("reasoning")
      BY <1>1, <2>1, <2>4 DEF ItemsAgree
    <3>3. items[1].done
      BY <1>1, <3>2 DEF ItemsAgree, CallAgrees
    <3>4. QED
      BY <1>1, <3>2, <3>3 DEF ItemsAgree, ThoughtAgrees
  <2>8. c = Carried
    BY <1>5 DEF TurnFits
  <2>9. QED
    BY <1>1, <2>2, <2>5, <2>6, <2>7, <2>8, OneThoughtRest
<1>6. QED
  BY <1>3, <1>4, <1>5

LEMMA ContinueReplays ==
    ASSUME AdapterInv, AgreeInv, SingleInv, ReplayInv, Continue
    PROVE  ReplayInv'
<1> DEFINE turn == [k \in 1 .. Cardinality(DOMAIN calls) |-> calls[k - 1]]
<1>1. /\ router = "done" /\ finish # "none" /\ pending = <<>>
      /\ UNCHANGED <<provider, pending, router, client>>
  BY DEF Continue, ReplayInv
<1>2. PICK echo \in {content, Among(content, Pieces("message")), <<>>} :
        \E entries \in {Joint(echo, turn), Apart(echo, turn)} :
           input' = [echo |-> echo, entries |-> Dedupe(entries)]
  BY DEF Continue
<1>3. PICK entries \in {Joint(echo, turn), Apart(echo, turn)} :
         input' = [echo |-> echo, entries |-> Dedupe(entries)]
  BY <1>2
<1>4. ~ Cut /\ over # "no" /\ TypeOK
  <2>1. ~ error
    BY <1>1 DEF AdapterInv, VerdictBeforeDone
  <2>2. over \in {"completed", "incomplete"} /\ TypeOK
    BY <1>1, <2>1 DEF AdapterInv, VerdictBeforeDone
  <2>3. QED
    BY <2>2 DEF Cut
<1>5. ItemsAgree /\ CallsAgree(calls, toolIndex, Carried, toolArgs)
  BY <1>1, <1>4, ToldNow DEF AgreeInv
<1>6a. PICK n \in Nat : \E c : TurnFits(turn, n, c)
  BY <1>4, <1>5, TurnIs
<1>6. PICK c : TurnFits(turn, n, c)
  BY <1>6a
<1> HIDE DEF turn
<1>7. /\ Rest(echo, c) \in Seq(Piece)
      /\ Among(Rest(echo, c), Pieces("message")) = Among(echo, Pieces("message"))
      /\ calls # Empty /\ OneThought => Rest(echo, c) = Among(echo, Pieces("message"))
  BY <1>1, <1>4, <1>6, EchoRest
<1>8. AllCarry(turn, n, c) /\ Apiece(turn, n) /\ IsCarried(c)
  BY <1>6 DEF TurnFits
<1>9. Hands(entries, Thoughts(c), Rest(echo, c), turn, n)
  BY <1>3, <1>7, <1>8, JointIs, ApartIs
<1>10. /\ Dedupe(entries) \in Seq(Entries) /\ ThoughtsIn(Dedupe(entries), c)
       /\ TextIn(Dedupe(entries), Rest(echo, c)) /\ CallsIn(Dedupe(entries), turn, n)
  BY <1>8, <1>9, ThoughtsAre, DedupeReplays
<1>11. UNCHANGED <<style, items, toolIndex, toolArgs, calls>>
  BY <1>1 DEF provider, client, upstream, machine
<1>12. ReplayFaithful'
  BY <1>3, <1>4, <1>5, <1>6, <1>7, <1>10, <1>11, HandedBack
<1>13. QED
  BY <1>1, <1>12 DEF ReplayInv

\* Until the stream has ended there is no turn to continue.
LEMMA QuietReplays ==
    ASSUME ReplayInv, input' = input, input = NoTurn, router' = "done" => pending' = <<>>
    PROVE  ReplayInv'
BY DEF ReplayInv, ReplayFaithful, NoTurn

LEMMA StillReplays ==
    ASSUME ReplayInv, UNCHANGED vars
    PROVE  ReplayInv'
<1>1. UNCHANGED <<style, items, toolIndex, toolArgs, calls, input, router, pending>>
  BY DEF vars, upstream, machine, client
<1>2. /\ \A type : Where(type)' = Where(type)
      /\ Indices("reasoning")' = Indices("reasoning") /\ OneThought' = OneThought
      /\ Pieces("message")' = Pieces("message")
  BY <1>1 DEF Where, Indices, Pieces, OneThought
<1>3. ReplayFaithful'
  BY <1>1, <1>2 DEF ReplayInv, ReplayFaithful
<1>4. QED
  BY <1>1, <1>3 DEF ReplayInv

LEMMA InitReplays ==
    ASSUME Init
    PROVE  ReplayInv
BY DEF Init, ReplayInv, ReplayFaithful

LEMMA NextReplays ==
    ASSUME AdapterInv, AgreeInv, SingleInv, ReplayInv, [Next]_vars
    PROVE  ReplayInv'
<1>1. CASE Continue
  BY <1>1, ContinueReplays
<1>2. CASE UNCHANGED vars
  BY <1>2, StillReplays
<1>3. CASE Next /\ ~ Continue
  <2>1. router # "done" /\ input' = input /\ (router' = "done" => pending' = <<>>)
    <3>1. CASE Receiving /\ UNCHANGED <<router, input>>
      BY <3>1 DEF Receiving
    <3>2. CASE ReasoningAdded \/ MessageAdded \/ CallAdded \/ CallWhole \/ OtherItem
      BY <3>1, <3>2 DEF ReasoningAdded, MessageAdded, CallAdded, CallWhole, OtherItem,
                        NewItem, CallItem, Yields, Fails
    <3>3. ASSUME NEW i \in DOMAIN items,
                 SummaryDelta(i) \/ SummaryDone(i) \/ ReasoningDone(i) \/ TextDelta(i) \/ MessageDone(i)
          PROVE  router # "done" /\ input' = input /\ (router' = "done" => pending' = <<>>)
      BY <3>1, <3>3, ZenonT(60) DEF SummaryDelta, SummaryDone, ReasoningDone, TextDelta, MessageDone,
                        OpenItem, Yields, Fails
    <3>4. ASSUME NEW i \in DOMAIN items, ArgsDelta(i) \/ ArgsDone(i) \/ CallDone(i)
          PROVE  router # "done" /\ input' = input /\ (router' = "done" => pending' = <<>>)
      BY <3>1, <3>4 DEF ArgsDelta, ArgsDone, CallDone, CallItem, OpenItem, Yields, Fails
    <3>5. CASE Terminal("completed") \/ Terminal("incomplete") \/ UpstreamBreaks
      BY <3>1, <3>5 DEF Terminal, UpstreamBreaks, Fails
    <3>6. CASE Forward \/ ForwardError \/ SendDone \/ ClientDrop
      BY <3>6 DEF Forward, ForwardError, SendDone, ClientDrop
    <3>7. QED
      BY <1>3, <3>2, <3>3, <3>4, <3>5, <3>6 DEF Next
  <2>2. input = NoTurn
    BY <2>1 DEF ReplayInv
  <2>3. QED
    BY <2>1, <2>2, QuietReplays
<1>4. QED
  BY <1>1, <1>2, <1>3

\* A turn that the client hands back is not refused and reaches the upstream
\* as it came: reasoning once and before the calls, every call once with its
\* result behind it, and the whole answer without a summary shown in one block
\* (append_message_items and dedupe_replayed_reasoning_items).
THEOREM ReplayKept == Spec => []ReplayFaithful
<1>1. Init => AgreeInv /\ SingleInv /\ ReplayInv
  BY InitAgrees, InitLaid, InitReplays
<1>2. AdapterInv /\ AdapterInv' /\ AgreeInv /\ [Next]_vars => AgreeInv'
  BY NextAgrees
<1>3. AdapterInv /\ AgreeInv /\ SingleInv /\ [Next]_vars => SingleInv'
  BY NextLaid
<1>4. AdapterInv /\ AgreeInv /\ SingleInv /\ ReplayInv /\ [Next]_vars => ReplayInv'
  BY NextReplays
<1>5. ReplayInv => ReplayFaithful
  BY DEF ReplayInv
<1>6. QED
  BY <1>1, <1>2, <1>3, <1>4, <1>5, AdapterInvariant, PTL DEF Spec
=============================================================================
