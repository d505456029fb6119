--------------------------- MODULE SseLane_proofs ---------------------------
(***************************************************************************)
(* Proofs about SseLane, for any number of frames in any layouts, however  *)
(* their bytes are cut, and for every limit that admits an event line.     *)
(***************************************************************************)
EXTENDS SseLane, SequenceLemmas, FiniteSetTheorems, SequenceTheorems, TLAPS
-----------------------------------------------------------------------------
(* Flattening two and three parts *)

LEMMA PairIs ==
    ASSUME NEW T, NEW a \in T, NEW b \in T
    PROVE  Append(<<a>>, b) = <<a, b>>
<1>1. <<a>> \in Seq(T) /\ <<a, b>> \in Seq(T) /\ Len(<<a>>) = 1 /\ <<a>>[1] = a
  OBVIOUS
<1>2. Append(<<a>>, b) \in Seq(T) /\ Len(Append(<<a>>, b)) = 2
  BY <1>1, AppendProperties
<1>3. Append(<<a>>, b)[1] = a /\ Append(<<a>>, b)[2] = b
  BY <1>1, AppendProperties
<1>4. \A i \in 1 .. 2 : Append(<<a>>, b)[i] = <<a, b>>[i]
  BY <1>3
<1>5. Len(<<a, b>>) = 2
  OBVIOUS
<1>6. QED
  BY <1>1, <1>2, <1>4, <1>5, SeqEqual

LEMMA TripleIs ==
    ASSUME NEW T, NEW a \in T, NEW b \in T, NEW c \in T
    PROVE  Append(<<a, b>>, c) = <<a, b, c>>
<1>1. /\ <<a, b, c>> \in Seq(T) /\ <<a, b>> \in Seq(T)
      /\ Len(<<a, b>>) = 2 /\ <<a, b>>[1] = a /\ <<a, b>>[2] = b
  OBVIOUS
<1>2. Append(<<a, b>>, c) \in Seq(T) /\ Len(Append(<<a, b>>, c)) = 3
  BY <1>1, AppendProperties
<1>3. Append(<<a, b>>, c)[1] = a /\ Append(<<a, b>>, c)[2] = b /\ Append(<<a, b>>, c)[3] = c
  BY <1>1, AppendProperties
<1>4. \A i \in 1 .. 3 : Append(<<a, b>>, c)[i] = <<a, b, c>>[i]
  BY <1>3
<1>5. Len(<<a, b, c>>) = 3
  OBVIOUS
<1>6. QED
  BY <1>1, <1>2, <1>4, <1>5, SeqEqual

LEMMA FlattenTwo ==
    ASSUME NEW T, NEW a \in Seq(T), NEW b \in Seq(T)
    PROVE  FlattenSeq(<<a, b>>) = a \o b
<1>1. <<a>> \in Seq(Seq(T)) /\ Append(<<a>>, b) = <<a, b>>
  BY PairIs
<1>2. FlattenSeq(Append(<<a>>, b)) = FlattenSeq(<<a>>) \o b
  BY <1>1, FlattenAppend
<1>3. QED
  BY <1>1, <1>2, FlattenOne

ThreeParts(a, b, c) == FlattenSeq(<<a, b, c>>) = (a \o b) \o c

LEMMA FlattenThree ==
    ASSUME NEW T, NEW a \in Seq(T), NEW b \in Seq(T), NEW c \in Seq(T)
    PROVE  ThreeParts(a, b, c)
<1>1. <<a, b>> \in Seq(Seq(T)) /\ Append(<<a, b>>, c) = <<a, b, c>>
  BY TripleIs
<1>2. FlattenSeq(Append(<<a, b>>, c)) = FlattenSeq(<<a, b>>) \o c
  BY <1>1, FlattenAppend
<1>3. QED
  BY <1>1, <1>2, FlattenTwo DEF ThreeParts
-----------------------------------------------------------------------------
(* The text of a frame *)

Kinds == {"e1", "e2", "d1", "d", "d2", "m", "n", "c", "cr", "lf"}
Ends  == {<<"lf">>, <<"cr", "lf">>}
Words0 == {EventLine, DataLine, LongLine, <<"m">>, <<"n">>, <<"c">>}

TextWith(layout, end) ==
    FlattenSeq([k \in DOMAIN LinesOf(layout) |-> LinesOf(layout)[k] \o end]) \o end

\* What the lines of a layout are, one by one.
LEMMA OneLine ==
    ASSUME NEW layout, NEW l \in Seq(Kinds), LinesOf(layout) = <<l>>, NEW end \in Seq(Kinds)
    PROVE  TextWith(layout, end) = (l \o end) \o end
<1>1. [k \in DOMAIN <<l>> |-> <<l>>[k] \o end] = <<l \o end>>
  OBVIOUS
<1>2. QED
  BY <1>1, FlattenOne DEF TextWith

LEMMA TwoLines ==
    ASSUME NEW layout, NEW l \in Seq(Kinds), NEW m \in Seq(Kinds),
           LinesOf(layout) = <<l, m>>, NEW end \in Seq(Kinds)
    PROVE  TextWith(layout, end) = ((l \o end) \o (m \o end)) \o end
<1>1. [k \in DOMAIN <<l, m>> |-> <<l, m>>[k] \o end] = <<l \o end, m \o end>>
  BY SMTT(60)
<1>2. l \o end \in Seq(Kinds) /\ m \o end \in Seq(Kinds)
  BY ConcatProperties
<1>3. FlattenSeq(<<l \o end, m \o end>>) = (l \o end) \o (m \o end)
  BY <1>2, FlattenTwo
<1>4. QED
  BY <1>1, <1>3 DEF TextWith

ThreeLineText(l, m, n, end) == (((l \o end) \o (m \o end)) \o (n \o end)) \o end
HasLines(layout, l, m, n) == LinesOf(layout) = <<l, m, n>>

LEMMA ThreeLines ==
    ASSUME NEW layout, NEW l \in Seq(Kinds), NEW m \in Seq(Kinds), NEW n \in Seq(Kinds),
           HasLines(layout, l, m, n), NEW end \in Seq(Kinds)
    PROVE  TextWith(layout, end) = ThreeLineText(l, m, n, end)
<1> DEFINE f == <<l \o end, m \o end, n \o end>>
<1>1. [k \in DOMAIN <<l, m, n>> |-> <<l, m, n>>[k] \o end] = f
  <2>1. f[1] = l \o end /\ f[2] = m \o end /\ f[3] = n \o end
    OBVIOUS
  <2>2. f = [k \in 1 .. 3 |-> f[k]] /\ DOMAIN <<l, m, n>> = 1 .. 3
    OBVIOUS
  <2>3. <<l, m, n>>[1] = l /\ <<l, m, n>>[2] = m /\ <<l, m, n>>[3] = n
    OBVIOUS
  <2>4. \A k \in 1 .. 3 : k = 1 \/ k = 2 \/ k = 3
    OBVIOUS
  <2> HIDE DEF f
  <2>5. \A k \in 1 .. 3 : <<l, m, n>>[k] \o end = f[k]
    BY <2>1, <2>3, <2>4
  <2>6. QED
    BY <2>2, <2>5 DEF f
<1>2. l \o end \in Seq(Kinds) /\ m \o end \in Seq(Kinds) /\ n \o end \in Seq(Kinds)
  BY ConcatProperties
<1>3. FlattenSeq(f) = ((l \o end) \o (m \o end)) \o (n \o end)
  <2> DEFINE a == l \o end
             b == m \o end
             c == n \o end
  <2>1. a \in Seq(Kinds) /\ b \in Seq(Kinds) /\ c \in Seq(Kinds)
    BY <1>2
  <2>2. f = <<a, b, c>>
    OBVIOUS
  <2> HIDE DEF f, a, b, c
  <2>3. ThreeParts(a, b, c)
    BY <2>1, FlattenThree
  <2>4. QED
    BY <2>2, <2>3 DEF ThreeParts, a, b, c
<1>4. QED
  BY <1>1, <1>3 DEF TextWith, HasLines, ThreeLineText

\* A text of whole lines, none of them blank.
Running(t, end) ==
    /\ t \in Seq(Kinds) /\ Len(t) > 0
    /\ t[1] \notin {"cr", "lf"} /\ t[Len(t)] = "lf"
    /\ \A k \in 1 .. Len(t) - 1 : t[k] = "lf" => t[k + 1] \notin {"cr", "lf"}
    /\ end = <<"lf">> => \A k \in 1 .. Len(t) : t[k] # "cr"
    /\ end # <<"lf">> => \A k \in 1 .. Len(t) : t[k] = "lf" => k > 1 /\ t[k - 1] = "cr"

LEMMA EndsType == \A end \in Ends : end \in Seq(Kinds)
<1>1. "cr" \in Kinds /\ "lf" \in Kinds
  BY DEF Kinds
<1>2. <<"lf">> \in Seq(Kinds) /\ <<"cr", "lf">> \in Seq(Kinds)
  BY <1>1
<1>3. QED
  BY <1>2 DEF Ends

LEMMA LineRuns ==
    ASSUME NEW l \in Seq(Kinds \ {"cr", "lf"}), Len(l) > 0, NEW end \in Ends
    PROVE  Running(l \o end, end)
<1> DEFINE t == l \o end
           n == Len(l)
<1>1. l \in Seq(Kinds) /\ end \in Seq(Kinds) /\ n \in Nat
  BY EndsType, SeqMonotonic, LenProperties
<1>2. /\ t \in Seq(Kinds) /\ Len(t) = n + Len(end)
      /\ \A i \in 1 .. n + Len(end) : t[i] = IF i <= n THEN l[i] ELSE end[i - n]
  BY <1>1, ConcatProperties
<1>3. \A i \in 1 .. n : l[i] \notin {"cr", "lf"}
  BY ElementOfSeq
<1>4. n > 0
  OBVIOUS
<1> HIDE DEF t, n
<1>5. CASE end = <<"lf">>
  <2>1. Len(end) = 1 /\ end[1] = "lf"
    BY <1>5
  <2>2. t[n + 1] = "lf" /\ \A i \in 1 .. n : t[i] \notin {"cr", "lf"}
    BY <1>1, <1>2, <1>3, <1>4, <2>1
  <2>3. QED
    BY <1>1, <1>2, <1>4, <1>5, <2>1, <2>2 DEF Running, t
<1>6. CASE end = <<"cr", "lf">>
  <2>1. Len(end) = 2 /\ end[1] = "cr" /\ end[2] = "lf" /\ end # <<"lf">>
    BY <1>6
  <2>2. t[n + 1] = "cr" /\ t[n + 2] = "lf" /\ \A i \in 1 .. n : t[i] \notin {"cr", "lf"}
    BY <1>1, <1>2, <1>3, <1>4, <2>1
  <2>3. \A k \in 1 .. n + 2 : k \in 1 .. n \/ k = n + 1 \/ k = n + 2
    BY <1>1
  <2>4. Len(t) = n + 2 /\ t[1] \notin {"cr", "lf"}
    BY <1>1, <1>2, <1>4, <2>1, <2>2
  <2>5. ASSUME NEW k \in 1 .. n + 2, t[k] = "lf"
        PROVE  k = n + 2 /\ k > 1 /\ t[k - 1] = "cr"
    <3>1. k = n + 2
      BY <2>2, <2>3, <2>5
    <3>2. k - 1 = n + 1 /\ k > 1
      BY <1>1, <1>4, <3>1
    <3>3. QED
      BY <2>2, <3>1, <3>2
  <2>6. \A k \in 1 .. Len(t) - 1 : t[k] # "lf"
    BY <1>1, <2>4, <2>5
  <2>7. QED
    BY <1>1, <1>2, <2>1, <2>2, <2>4, <2>5, <2>6, SMTT(60) DEF Running, t
<1>7. QED
  BY <1>5, <1>6 DEF Ends

LEMMA ConcatParts ==
    ASSUME NEW T, NEW s \in Seq(T), NEW r \in Seq(T)
    PROVE  /\ Len(s) \in Nat /\ Len(r) \in Nat
           /\ s \o r \in Seq(T) /\ Len(s \o r) = Len(s) + Len(r)
           /\ \A i \in 1 .. Len(s) : (s \o r)[i] = s[i]
           /\ \A i \in 1 .. Len(r) : (s \o r)[Len(s) + i] = r[i]
<1>1. Len(s) \in Nat /\ Len(r) \in Nat
  BY LenProperties
<1>2. /\ s \o r \in Seq(T) /\ Len(s \o r) = Len(s) + Len(r)
      /\ \A i \in 1 .. Len(s) + Len(r) : (s \o r)[i] = IF i <= Len(s) THEN s[i] ELSE r[i - Len(s)]
  BY ConcatProperties
<1>3. \A i \in 1 .. Len(s) : (s \o r)[i] = s[i]
  BY <1>1, <1>2
<1>4. ASSUME NEW i \in 1 .. Len(r) PROVE (s \o r)[Len(s) + i] = r[i]
  <2>1. PICK j : j = Len(s) + i
    OBVIOUS
  <2>2. j \in 1 .. Len(s) + Len(r) /\ ~ (j <= Len(s)) /\ j - Len(s) = i
    BY <1>1, <2>1
  <2>3. (s \o r)[j] = r[j - Len(s)]
    BY <1>2, <2>2
  <2>4. QED
    BY <2>1, <2>2, <2>3
<1>5. QED
  BY <1>1, <1>2, <1>3, <1>4

LEMMA LinesRun ==
    ASSUME NEW t, NEW u, NEW end, Running(t, end), Running(u, end)
    PROVE  Running(t \o u, end)
<1>1. t \in Seq(Kinds) /\ u \in Seq(Kinds) /\ Len(t) > 0 /\ Len(u) > 0
  BY DEF Running
<1>2. PICK n \in Nat, m \in Nat, v \in {t \o u} : n = Len(t) /\ m = Len(u) /\ v = t \o u
  BY <1>1, LenProperties
<1>3. /\ v \in Seq(Kinds) /\ Len(v) = n + m
      /\ \A i \in 1 .. n : v[i] = t[i]
      /\ \A i \in 1 .. m : v[n + i] = u[i]
  BY <1>1, <1>2, ConcatParts
<1>4. /\ t[1] \notin {"cr", "lf"} /\ t[n] = "lf" /\ u[1] \notin {"cr", "lf"} /\ u[m] = "lf"
      /\ n > 0 /\ m > 0
  BY <1>1, <1>2 DEF Running
<1>5. /\ \A k \in 1 .. n - 1 : t[k] = "lf" => t[k + 1] \notin {"cr", "lf"}
      /\ \A k \in 1 .. m - 1 : u[k] = "lf" => u[k + 1] \notin {"cr", "lf"}
      /\ end = <<"lf">> => \A k \in 1 .. n : t[k] # "cr"
      /\ end = <<"lf">> => \A k \in 1 .. m : u[k] # "cr"
      /\ end # <<"lf">> => \A k \in 1 .. n : t[k] = "lf" => k > 1 /\ t[k - 1] = "cr"
      /\ end # <<"lf">> => \A k \in 1 .. m : u[k] = "lf" => k > 1 /\ u[k - 1] = "cr"
  BY <1>2 DEF Running
<1>6. \A k \in 1 .. n + m : k \in 1 .. n \/ \E j \in 1 .. m : k = n + j
  <2>1. ASSUME NEW k \in 1 .. n + m, k \notin 1 .. n PROVE \E j \in 1 .. m : k = n + j
    <3>1. k - n \in 1 .. m /\ k = n + (k - n)
      BY <2>1
    <3>2. QED
      BY <3>1
  <2>2. QED
    BY <2>1
<1>7. v[1] \notin {"cr", "lf"} /\ v[n + m] = "lf"
  <2>1. 1 \in 1 .. n /\ m \in 1 .. m
    BY <1>4
  <2>2. QED
    BY <1>3, <1>4, <2>1
<1>8. ASSUME NEW k \in 1 .. n + m - 1, v[k] = "lf" PROVE v[k + 1] \notin {"cr", "lf"}
  <2>1. CASE k < n
    <3>1. k \in 1 .. n - 1 /\ k \in 1 .. n /\ k + 1 \in 1 .. n
      BY <2>1
    <3>2. v[k] = t[k] /\ v[k + 1] = t[k + 1]
      BY <1>3, <3>1
    <3>3. QED
      BY <1>5, <1>8, <3>1, <3>2
  <2>2. CASE k = n
    <3>1. 1 \in 1 .. m
      BY <1>4
    <3>2. v[n + 1] = u[1]
      BY <1>3, <3>1
    <3>3. QED
      BY <1>4, <2>2, <3>2
  <2>3. CASE k > n
    <3>1. PICK j \in 1 .. m : k = n + j
      BY <1>6, <2>3
    <3>2. j \in 1 .. m - 1 /\ j + 1 \in 1 .. m /\ k + 1 = n + (j + 1)
      BY <1>8, <3>1
    <3>3. v[k] = u[j] /\ v[k + 1] = u[j + 1]
      BY <1>3, <3>1, <3>2
    <3>4. QED
      BY <1>5, <1>8, <3>2, <3>3
  <2>4. QED
    BY <2>1, <2>2, <2>3
<1>9. ASSUME end = <<"lf">>, NEW k \in 1 .. n + m PROVE v[k] # "cr"
  <2>1. CASE k \in 1 .. n
    BY <1>3, <1>5, <1>9, <2>1
  <2>2. CASE \E j \in 1 .. m : k = n + j
    BY <1>3, <1>5, <1>9, <2>2
  <2>3. QED
    BY <1>6, <2>1, <2>2
<1>10. ASSUME end # <<"lf">>, NEW k \in 1 .. n + m, v[k] = "lf"
       PROVE  k > 1 /\ v[k - 1] = "cr"
  <2>1. CASE k \in 1 .. n
    <3>1. k > 1 /\ t[k - 1] = "cr"
      BY <1>3, <1>5, <1>10, <2>1
    <3>2. k - 1 \in 1 .. n
      BY <2>1, <3>1
    <3>3. QED
      BY <1>3, <3>1, <3>2
  <2>2. CASE \E j \in 1 .. m : k = n + j
    <3>1. PICK j \in 1 .. m : k = n + j
      BY <2>2
    <3>2. j > 1 /\ u[j - 1] = "cr"
      BY <1>3, <1>5, <1>10, <3>1
    <3>3. j - 1 \in 1 .. m /\ k - 1 = n + (j - 1) /\ k > 1
      BY <3>1, <3>2
    <3>4. v[k - 1] = u[j - 1]
      BY <1>3, <3>3
    <3>5. QED
      BY <3>2, <3>3, <3>4
  <2>3. QED
    BY <1>6, <2>1, <2>2
<1>11. QED
  <2>1. Len(v) > 0
    BY <1>3, <1>4
  <2>2. Running(v, end)
    BY <1>3, <1>7, <1>8, <1>9, <1>10, <2>1 DEF Running
  <2>3. QED
    BY <1>2, <2>2

LEMMA WordsPlain == \A l \in Words0 : l \in Seq(Kinds \ {"cr", "lf"}) /\ Len(l) > 0
<1> DEFINE T == Kinds \ {"cr", "lf"}
<1>1. {"e1", "e2", "d1", "d", "d2", "m", "n", "c"} \subseteq T
  BY DEF Kinds
<1>2. /\ "e1" \in T /\ "e2" \in T /\ "d1" \in T /\ "d" \in T /\ "d2" \in T
      /\ "m" \in T /\ "n" \in T /\ "c" \in T
  BY <1>1
<1> HIDE DEF T
<1>3. EventLine \in Seq(T) /\ Len(EventLine) = 2
  BY <1>2 DEF EventLine
<1>4. DataLine \in Seq(T) /\ Len(DataLine) = 2
  BY <1>2 DEF DataLine
<1>5. LongLine \in Seq(T) /\ Len(LongLine) = 4
  BY <1>2 DEF LongLine
<1>6. <<"m">> \in Seq(T) /\ <<"n">> \in Seq(T) /\ <<"c">> \in Seq(T)
  BY <1>2
<1>7. Len(<<"m">>) = 1 /\ Len(<<"n">>) = 1 /\ Len(<<"c">>) = 1
  OBVIOUS
<1>8. \A l \in Words0 : l \in Seq(T) /\ Len(l) > 0
  <2>1. \A l \in Words0 : \/ l = EventLine \/ l = DataLine \/ l = LongLine
                          \/ l = <<"m">> \/ l = <<"n">> \/ l = <<"c">>
    BY DEF Words0
  <2>2. /\ Len(EventLine) > 0 /\ Len(DataLine) > 0 /\ Len(LongLine) > 0
        /\ Len(<<"m">>) > 0 /\ Len(<<"n">>) > 0 /\ Len(<<"c">>) > 0
    BY <1>3, <1>4, <1>5, <1>7
  <2>3. QED
    BY <1>3, <1>4, <1>5, <1>6, <2>1, <2>2, Zenon
<1>9. QED
  BY <1>8 DEF T

LEMMA WordType == \A l \in Words0 : l \in Seq(Kinds)
<1>1. Kinds \ {"cr", "lf"} \subseteq Kinds
  OBVIOUS
<1>2. QED
  BY <1>1, WordsPlain, SeqMonotonic

LEMMA LayoutLines ==
    ASSUME NEW layout \in Layouts
    PROVE  \/ \E l \in Words0 : LinesOf(layout) = <<l>>
           \/ \E l, m \in Words0 : LinesOf(layout) = <<l, m>>
           \/ \E l, m, n \in Words0 : LinesOf(layout) = <<l, m, n>>
<1>1. CASE layout \in {"data", "long", "comment"}
  BY <1>1, ZenonT(60) DEF LinesOf, Words0
<1>2. CASE layout \in {"event data", "data event", "split", "event long", "long event"}
  BY <1>2 DEF LinesOf, Words0
<1>3. CASE layout = "event split"
  BY <1>3 DEF LinesOf, Words0
<1>4. QED
  BY <1>1, <1>2, <1>3, ZenonT(60) DEF Layouts

\* Whether a text has a part of a data line.
DataKinds == {"d1", "d", "d2", "m", "n"}
DataWords == {DataLine, LongLine, <<"m">>, <<"n">>}
Spells(t) == \E k \in 1 .. Len(t) : t[k] \in DataKinds

LEMMA LineSpells ==
    ASSUME NEW l \in Words0, NEW end \in Ends
    PROVE  /\ l \in DataWords => Spells(l \o end)
           /\ l = <<"c">> => ~ Spells(l \o end)
<1>1. l \in Seq(Kinds) /\ end \in Seq(Kinds) /\ Len(l) > 0
  BY WordType, WordsPlain, EndsType
<1>2. PICK n \in Nat, m \in Nat, v \in {l \o end} : n = Len(l) /\ m = Len(end) /\ v = l \o end
  BY <1>1, LenProperties
<1>3. /\ v \in Seq(Kinds) /\ Len(v) = n + m /\ n > 0
      /\ \A i \in 1 .. n : v[i] = l[i]
      /\ \A i \in 1 .. m : v[n + i] = end[i]
  BY <1>1, <1>2, ConcatParts
<1>4. ASSUME l \in DataWords PROVE Spells(v)
  <2>1. l[1] \in DataKinds
    <3>1. DataLine[1] = "d1" /\ LongLine[1] = "d1"
      BY DEF DataLine, LongLine
    <3>2. \A x : <<x>>[1] = x
      OBVIOUS
    <3>3. CASE l = DataLine \/ l = LongLine
      BY <3>1, <3>3 DEF DataKinds
    <3>4. CASE l = <<"m">> \/ l = <<"n">>
      BY <3>2, <3>4 DEF DataKinds
    <3>5. QED
      BY <1>4, <3>3, <3>4 DEF DataWords
  <2>2. 1 \in 1 .. n /\ 1 \in 1 .. Len(v)
    BY <1>3
  <2>3. QED
    BY <1>3, <2>1, <2>2 DEF Spells
<1>5. ASSUME l = <<"c">> PROVE ~ Spells(v)
  <2>1. n = 1 /\ l[1] = "c"
    BY <1>2, <1>5
  <2>2. \A i \in 1 .. m : end[i] \in {"cr", "lf"}
    <3>1. CASE end = <<"lf">>
      <4>1. m = 1 /\ end[1] = "lf"
        BY <1>2, <3>1
      <4>2. QED
        BY <4>1
    <3>2. CASE end = <<"cr", "lf">>
      <4>1. m = 2 /\ end[1] = "cr" /\ end[2] = "lf"
        BY <1>2, <3>2
      <4>2. \A i \in 1 .. 2 : i = 1 \/ i = 2
        OBVIOUS
      <4>3. QED
        BY <4>1, <4>2
    <3>3. QED
      BY <3>1, <3>2 DEF Ends
  <2>3. ASSUME NEW k \in 1 .. Len(v) PROVE v[k] \notin DataKinds
    <3>1. CASE k = 1
      BY <1>3, <2>1, <3>1 DEF DataKinds
    <3>2. CASE k # 1
      <4>1. PICK i \in 1 .. m : k = n + i
        <5>1. k - 1 \in 1 .. m /\ k = n + (k - 1)
          BY <1>3, <2>1, <3>2
        <5>2. QED
          BY <5>1
      <4>2. v[k] \in {"cr", "lf"}
        BY <1>3, <2>2, <4>1
      <4>3. QED
        BY <4>2 DEF DataKinds
    <3>3. QED
      BY <3>1, <3>2
  <2>4. QED
    BY <2>3 DEF Spells
<1>6. QED
  BY <1>2, <1>4, <1>5

LEMMA MoreSpells ==
    ASSUME NEW t \in Seq(Kinds), NEW u \in Seq(Kinds), Spells(t) \/ Spells(u)
    PROVE  Spells(t \o u)
<1>1. PICK n \in Nat, m \in Nat, v \in {t \o u} : n = Len(t) /\ m = Len(u) /\ v = t \o u
  BY LenProperties
<1>2. /\ v \in Seq(Kinds) /\ Len(v) = n + m
      /\ \A i \in 1 .. n : v[i] = t[i]
      /\ \A i \in 1 .. m : v[n + i] = u[i]
  BY <1>1, ConcatParts
<1>3. CASE Spells(t)
  <2>1. PICK k \in 1 .. n : t[k] \in DataKinds
    BY <1>1, <1>3 DEF Spells
  <2>2. k \in 1 .. Len(v) /\ v[k] \in DataKinds
    BY <1>2, <2>1
  <2>3. QED
    BY <1>1, <2>2 DEF Spells
<1>4. CASE Spells(u)
  <2>1. PICK k \in 1 .. m : u[k] \in DataKinds
    BY <1>1, <1>4 DEF Spells
  <2>2. n + k \in 1 .. Len(v) /\ v[n + k] \in DataKinds
    BY <1>2, <2>1
  <2>3. QED
    BY <1>1, <2>2 DEF Spells
<1>5. QED
  BY <1>3, <1>4

\* The lines of a layout, and that only a comment has no data.
LEMMA LayoutData ==
    ASSUME NEW layout \in Layouts
    PROVE  \/ layout = "comment" /\ LinesOf(layout) = <<<<"c">>>>
           \/ layout # "comment" /\ \E l \in DataWords : LinesOf(layout) = <<l>>
           \/ layout # "comment" /\ \E l, m \in Words0 :
                 LinesOf(layout) = <<l, m>> /\ (l \in DataWords \/ m \in DataWords)
           \/ layout # "comment" /\ \E l, m, n \in Words0 :
                 LinesOf(layout) = <<l, m, n>> /\ m \in DataWords
<1>1. CASE layout \in {"data", "long"}
  BY <1>1 DEF LinesOf, DataWords
<1>2. CASE layout \in {"event data", "event long"}
  <2>1. EventLine \in Words0 /\ DataLine \in Words0 /\ LongLine \in Words0
        /\ DataLine \in DataWords /\ LongLine \in DataWords
    BY DEF Words0, DataWords
  <2>2. LinesOf(layout) = <<EventLine, DataLine>> \/ LinesOf(layout) = <<EventLine, LongLine>>
    BY <1>2 DEF LinesOf
  <2>3. layout # "comment"
    BY <1>2
  <2>4. QED
    BY <2>1, <2>2, <2>3, Zenon
<1>3. CASE layout \in {"data event", "long event"}
  <2>1. EventLine \in Words0 /\ DataLine \in Words0 /\ LongLine \in Words0
        /\ DataLine \in DataWords /\ LongLine \in DataWords
    BY DEF Words0, DataWords
  <2>2. LinesOf(layout) = <<DataLine, EventLine>> \/ LinesOf(layout) = <<LongLine, EventLine>>
    BY <1>3 DEF LinesOf
  <2>3. layout # "comment"
    BY <1>3
  <2>4. QED
    BY <2>1, <2>2, <2>3, Zenon
<1>4. CASE layout = "split"
  <2>1. <<"m">> \in Words0 /\ <<"n">> \in Words0 /\ <<"m">> \in DataWords
    BY DEF Words0, DataWords
  <2>2. LinesOf(layout) = <<<<"m">>, <<"n">>>> /\ layout # "comment"
    BY <1>4 DEF LinesOf
  <2>3. QED
    BY <2>1, <2>2, Zenon
<1>5. CASE layout = "event split"
  <2>1. EventLine \in Words0 /\ <<"m">> \in Words0 /\ <<"n">> \in Words0 /\ <<"m">> \in DataWords
    BY DEF Words0, DataWords
  <2>2. LinesOf(layout) = <<EventLine, <<"m">>, <<"n">>>> /\ layout # "comment"
    BY <1>5 DEF LinesOf
  <2>3. QED
    BY <2>1, <2>2, Zenon
<1>6. CASE layout = "comment"
  BY <1>6 DEF LinesOf
<1>7. QED
  BY <1>1, <1>2, <1>3, <1>4, <1>5, <1>6 DEF Layouts

\* The text of a frame is lines, none of them blank, and then a blank one.
LEMMA TextRuns ==
    ASSUME NEW layout \in Layouts, NEW end \in Ends
    PROVE  \E t : /\ Running(t, end) /\ TextWith(layout, end) = t \o end
                  /\ Spells(t) <=> layout # "comment"
<1>1. end \in Seq(Kinds)
  BY EndsType
<1>2. \A l \in Words0 : l \in Seq(Kinds) /\ l \o end \in Seq(Kinds) /\ Running(l \o end, end)
  BY <1>1, WordsPlain, WordType, LineRuns, ConcatProperties
<1>3. <<"c">> \in Words0 /\ DataWords \subseteq Words0
  BY DEF Words0, DataWords
<1>4. CASE layout = "comment" /\ LinesOf(layout) = <<<<"c">>>>
  <2>1. PICK l \in Words0 : l = <<"c">>
    BY <1>3
  <2>2. TextWith(layout, end) = (l \o end) \o end
    BY <1>1, <1>2, <1>4, <2>1, OneLine
  <2>3. ~ Spells(l \o end)
    BY <2>1, LineSpells
  <2>4. QED
    BY <1>2, <1>4, <2>2, <2>3
<1>5. CASE layout # "comment" /\ \E l \in DataWords : LinesOf(layout) = <<l>>
  <2>1. PICK l \in Words0 : LinesOf(layout) = <<l>> /\ l \in DataWords
    BY <1>3, <1>5
  <2>2. TextWith(layout, end) = (l \o end) \o end
    BY <1>1, <1>2, <2>1, OneLine
  <2>3. Spells(l \o end)
    BY <2>1, LineSpells
  <2>4. QED
    BY <1>2, <1>5, <2>2, <2>3
<1>6. CASE layout # "comment" /\ \E l, m \in Words0 :
              LinesOf(layout) = <<l, m>> /\ (l \in DataWords \/ m \in DataWords)
  <2>1. PICK l \in Words0, m \in Words0 :
            LinesOf(layout) = <<l, m>> /\ (l \in DataWords \/ m \in DataWords)
    BY <1>6
  <2>2. TextWith(layout, end) = ((l \o end) \o (m \o end)) \o end
    <3>1. l \in Seq(Kinds) /\ m \in Seq(Kinds) /\ LinesOf(layout) = <<l, m>>
      BY <1>2, <2>1
    <3>2. QED
      BY <1>1, <3>1, TwoLines, ZenonT(60)
  <2>3. Running((l \o end) \o (m \o end), end)
    BY <1>2, LinesRun
  <2>4. Spells((l \o end) \o (m \o end))
    <3>1. Spells(l \o end) \/ Spells(m \o end)
      BY <2>1, LineSpells
    <3>2. QED
      BY <1>2, <3>1, MoreSpells
  <2>5. QED
    BY <1>6, <2>2, <2>3, <2>4
<1>7. CASE layout # "comment" /\ \E l, m, n \in Words0 :
              LinesOf(layout) = <<l, m, n>> /\ m \in DataWords
  <2>1. PICK l \in Words0, m \in Words0, n \in Words0 :
            LinesOf(layout) = <<l, m, n>> /\ m \in DataWords
    BY <1>7
  <2>2. TextWith(layout, end) = ThreeLineText(l, m, n, end)
    <3>1. l \in Seq(Kinds) /\ m \in Seq(Kinds) /\ n \in Seq(Kinds)
      BY <1>2
    <3>2. HasLines(layout, l, m, n)
      BY <2>1 DEF HasLines
    <3>3. QED
      BY <1>1, <3>1, <3>2, ThreeLines
  <2>3. Running((l \o end) \o (m \o end), end) /\ Running(n \o end, end)
    BY <1>2, LinesRun
  <2>4. Running(((l \o end) \o (m \o end)) \o (n \o end), end)
    BY <2>3, LinesRun
  <2>5. Spells(((l \o end) \o (m \o end)) \o (n \o end))
    <3>1. Spells(m \o end)
      BY <2>1, LineSpells
    <3>2. PICK a, b, c : a = l \o end /\ b = m \o end /\ c = n \o end
      OBVIOUS
    <3>3. a \in Seq(Kinds) /\ b \in Seq(Kinds) /\ c \in Seq(Kinds) /\ a \o b \in Seq(Kinds)
      BY <1>2, <3>2, ConcatProperties
    <3>4. Spells(a \o b)
      BY <3>1, <3>2, <3>3, MoreSpells
    <3>5. Spells((a \o b) \o c)
      BY <3>3, <3>4, MoreSpells
    <3>6. QED
      BY <3>2, <3>5
  <2>6. QED
    BY <1>7, <2>2, <2>4, <2>5 DEF ThreeLineText
<1>8. QED
  BY <1>4, <1>5, <1>6, <1>7, LayoutData
-----------------------------------------------------------------------------
(* The bytes of the frames *)

Byte == (1 .. NumFrames) \X Kinds

FramesFit == frames \in [1 .. NumFrames -> Frame] /\ eol \in {"lf", "crlf"}

\* The bytes of frame f that spell t.
Mark(f, t) == [k \in DOMAIN t |-> <<f, t[k]>>]

LEMMA MarkType ==
    ASSUME NEW f \in 1 .. NumFrames, NEW t \in Seq(Kinds)
    PROVE  /\ Mark(f, t) \in Seq(Byte) /\ Len(Mark(f, t)) = Len(t)
           /\ \A k \in 1 .. Len(t) : Mark(f, t)[k] = <<f, t[k]>>
<1>1. Len(t) \in Nat /\ DOMAIN t = 1 .. Len(t)
  BY LenProperties
<1>2. \A k \in 1 .. Len(t) : <<f, t[k]>> \in Byte
  BY ElementOfSeq DEF Byte
<1>3. Mark(f, t) = [k \in 1 .. Len(t) |-> <<f, t[k]>>]
  BY <1>1 DEF Mark
<1>4. QED
  BY <1>1, <1>2, <1>3

LEMMA MarkConcat ==
    ASSUME NEW f \in 1 .. NumFrames, NEW t \in Seq(Kinds), NEW u \in Seq(Kinds)
    PROVE  Mark(f, t \o u) = Mark(f, t) \o Mark(f, u)
<1>1. PICK n \in Nat, m \in Nat, v \in {t \o u} : n = Len(t) /\ m = Len(u) /\ v = t \o u
  BY LenProperties
<1>2. /\ v \in Seq(Kinds) /\ Len(v) = n + m
      /\ \A i \in 1 .. n : v[i] = t[i]
      /\ \A i \in 1 .. m : v[n + i] = u[i]
  BY <1>1, ConcatParts
<1>3. PICK a, b, c : a = Mark(f, t) /\ b = Mark(f, u) /\ c = Mark(f, v)
  OBVIOUS
<1>4. /\ a \in Seq(Byte) /\ Len(a) = n
      /\ b \in Seq(Byte) /\ Len(b) = m
      /\ c \in Seq(Byte) /\ Len(c) = n + m
  BY <1>1, <1>2, <1>3, MarkType
<1> DEFINE at(x) == <<f, x>>
<1>0. /\ \A k \in 1 .. n : a[k] = at(t[k])
      /\ \A k \in 1 .. m : b[k] = at(u[k])
      /\ \A k \in 1 .. n + m : c[k] = at(v[k])
  BY <1>1, <1>2, <1>3, MarkType, ZenonT(60)
<1> HIDE DEF at
<1>5. PICK d : d = a \o b
  OBVIOUS
<1>6. /\ d \in Seq(Byte) /\ Len(d) = n + m
      /\ \A i \in 1 .. n : d[i] = a[i]
      /\ \A i \in 1 .. m : d[n + i] = b[i]
  <2>1. /\ a \o b \in Seq(Byte) /\ Len(a \o b) = Len(a) + Len(b)
        /\ \A i \in 1 .. Len(a) : (a \o b)[i] = a[i]
        /\ \A i \in 1 .. Len(b) : (a \o b)[Len(a) + i] = b[i]
    <3>1. a \in Seq(Byte) /\ b \in Seq(Byte)
      BY <1>4
    <3>2. QED
      BY <3>1, ConcatParts, SMTT(60)
  <2>2. QED
    BY <1>4, <1>5, <2>1
<1>7. ASSUME NEW k \in 1 .. n + m PROVE c[k] = d[k]
  <2>1. CASE k <= n
    <3>1. k \in 1 .. n
      BY <2>1
    <3>2. QED
      BY <1>0, <1>2, <1>6, <3>1
  <2>2. CASE k > n
    <3>1. PICK j \in 1 .. m : k = n + j
      <4>1. k - n \in 1 .. m /\ k = n + (k - n)
        BY <2>2
      <4>2. QED
        BY <4>1
    <3>2. QED
      BY <1>0, <1>2, <1>6, <3>1, ZenonT(60)
  <2>3. QED
    BY <2>1, <2>2
<1>8. c = d
  BY <1>4, <1>6, <1>7, SeqEqual
<1>9. QED
  BY <1>1, <1>3, <1>5, <1>8

LEMMA EolIs == Eol \in Ends /\ Eol \in Seq(Kinds)
<1>1. Eol \in Ends
  BY DEF Eol, Ends
<1>2. QED
  BY <1>1, EndsType

LEMMA FrameIs ==
    ASSUME FramesFit, NEW f \in 1 .. NumFrames
    PROVE  frames[f].layout \in Layouts /\ BytesOf(f) = Mark(f, TextWith(frames[f].layout, Eol))
BY DEF FramesFit, Frame, BytesOf, Mark, TextWith

\* A frame is lines, none of them blank, and then a blank one.
LEMMA FrameRuns ==
    ASSUME FramesFit, NEW f \in 1 .. NumFrames
    PROVE  \E t : /\ Running(t, Eol) /\ BytesOf(f) = Mark(f, t \o Eol)
                  /\ Spells(t) <=> HasEvent(f)
<1>1. PICK lay : lay = frames[f].layout
  OBVIOUS
<1>2. lay \in Layouts /\ BytesOf(f) = Mark(f, TextWith(lay, Eol)) /\ Eol \in Ends
  BY <1>1, FrameIs, EolIs
<1>3. PICK t : /\ Running(t, Eol) /\ TextWith(lay, Eol) = t \o Eol
               /\ Spells(t) <=> lay # "comment"
  BY <1>2, TextRuns
<1>4. QED
  BY <1>1, <1>2, <1>3 DEF HasEvent

LEMMA BytesOfType ==
    ASSUME FramesFit, NEW f \in 1 .. NumFrames
    PROVE  BytesOf(f) \in Seq(Byte) /\ Len(BytesOf(f)) \in Nat /\ Len(BytesOf(f)) > 0
<1>1. PICK t : Running(t, Eol) /\ BytesOf(f) = Mark(f, t \o Eol)
  BY FrameRuns
<1>2. PICK u : u = t \o Eol
  OBVIOUS
<1>3. t \in Seq(Kinds) /\ Len(t) > 0 /\ Eol \in Seq(Kinds)
  BY <1>1, EolIs DEF Running
<1>4. u \in Seq(Kinds) /\ Len(u) = Len(t) + Len(Eol) /\ Len(t) \in Nat /\ Len(Eol) \in Nat
  BY <1>2, <1>3, ConcatParts
<1>5. Mark(f, u) \in Seq(Byte) /\ Len(Mark(f, u)) = Len(u)
  BY <1>4, MarkType
<1>6. QED
  BY <1>1, <1>2, <1>3, <1>4, <1>5
-----------------------------------------------------------------------------
(* The first frames *)

Upto(n) == FlattenSeq([f \in 1 .. n |-> BytesOf(f)])

LEMMA UptoIs ==
    ASSUME FramesFit
    PROVE  Bytes = Upto(NumFrames) /\ \A n : Until(n) = Len(Upto(n))
<1>1. Bytes = Upto(NumFrames)
  BY DEF Bytes, Upto, FramesFit
<1>2. QED
  BY <1>1 DEF Until, Upto

LEMMA UptoStep ==
    ASSUME FramesFit
    PROVE  /\ Upto(0) = <<>> /\ Until(0) = 0
           /\ \A n \in 0 .. NumFrames : Upto(n) \in Seq(Byte) /\ Until(n) \in Nat
           /\ \A n \in 0 .. NumFrames - 1 :
                 /\ Upto(n + 1) = Upto(n) \o BytesOf(n + 1)
                 /\ Until(n + 1) = Until(n) + Len(BytesOf(n + 1))
                 /\ Until(n) < Until(n + 1)
<1> DEFINE parts(n) == [f \in 1 .. n |-> BytesOf(f)]
<1>0. NumFrames \in Nat
  BY LimitsAssumption
<1>1. \A n \in 0 .. NumFrames : parts(n) \in Seq(Seq(Byte)) /\ Len(parts(n)) = n
  <2>1. TAKE n \in 0 .. NumFrames
  <2>2. \A f \in 1 .. n : BytesOf(f) \in Seq(Byte)
    BY <1>0, BytesOfType
  <2>3. QED
    BY <1>0, <2>2
<1>2. \A n \in 0 .. NumFrames : Upto(n) = FlattenSeq(parts(n))
  BY DEF Upto
<1>3. Upto(0) = <<>>
  <2>1. parts(0) = <<>>
    OBVIOUS
  <2>2. 0 \in 0 .. NumFrames
    BY <1>0
  <2> HIDE DEF parts
  <2>3. QED
    BY <1>2, <2>1, <2>2, FlattenEmpty
<1>4. ASSUME NEW n \in 0 .. NumFrames PROVE Upto(n) \in Seq(Byte) /\ Until(n) \in Nat
  <2> HIDE DEF parts
  <2>1. parts(n) \in Seq(Seq(Byte))
    BY <1>1
  <2>2. FlattenSeq(parts(n)) \in Seq(Byte)
    BY <2>1, FlattenType
  <2>3. Upto(n) \in Seq(Byte)
    BY <1>2, <2>2
  <2>4. QED
    BY <2>3, UptoIs, LenProperties
<1>5. ASSUME NEW n \in 0 .. NumFrames - 1
      PROVE  /\ Upto(n + 1) = Upto(n) \o BytesOf(n + 1)
             /\ Until(n + 1) = Until(n) + Len(BytesOf(n + 1))
             /\ Until(n) < Until(n + 1)
  <2>1. n \in 0 .. NumFrames /\ n + 1 \in 0 .. NumFrames /\ n + 1 \in 1 .. NumFrames
    BY <1>0
  <2>2. BytesOf(n + 1) \in Seq(Byte) /\ Len(BytesOf(n + 1)) \in Nat /\ Len(BytesOf(n + 1)) > 0
    BY <2>1, BytesOfType
  <2>3. parts(n + 1) = Append(parts(n), BytesOf(n + 1))
    <3>1. PICK p, q, b : p = parts(n) /\ q = parts(n + 1) /\ b = BytesOf(n + 1)
      OBVIOUS
    <3>2. /\ p \in Seq(Seq(Byte)) /\ Len(p) = n /\ q \in Seq(Seq(Byte)) /\ Len(q) = n + 1
          /\ b \in Seq(Byte)
      BY <1>1, <2>1, <2>2, <3>1
    <3>3. /\ Append(p, b) \in Seq(Seq(Byte)) /\ Len(Append(p, b)) = n + 1
          /\ \A i \in 1 .. n : Append(p, b)[i] = p[i]
          /\ Append(p, b)[n + 1] = b
      BY <3>2, AppendProperties
    <3>4. /\ \A i \in 1 .. n : q[i] = BytesOf(i) /\ p[i] = BytesOf(i)
          /\ q[n + 1] = b
      BY <2>1, <3>1
    <3>5. \A i \in 1 .. n + 1 : q[i] = Append(p, b)[i]
      <4>1. \A i \in 1 .. n + 1 : i \in 1 .. n \/ i = n + 1
        BY <2>1
      <4>2. QED
        BY <3>3, <3>4, <4>1
    <3>6. q = Append(p, b)
      BY <3>2, <3>3, <3>5, SeqEqual
    <3>7. QED
      BY <3>1, <3>6
  <2> HIDE DEF parts
  <2>4. FlattenSeq(Append(parts(n), BytesOf(n + 1))) = FlattenSeq(parts(n)) \o BytesOf(n + 1)
    BY <1>1, <2>1, <2>2, FlattenAppend
  <2>5. Upto(n + 1) = Upto(n) \o BytesOf(n + 1)
    BY <1>2, <2>1, <2>3, <2>4
  <2>6. Until(n) \in Nat /\ Upto(n) \in Seq(Byte)
    BY <1>4, <2>1
  <2>7. Until(n + 1) = Until(n) + Len(BytesOf(n + 1))
    <3>1. Len(Upto(n) \o BytesOf(n + 1)) = Len(Upto(n)) + Len(BytesOf(n + 1))
      BY <2>2, <2>6, ConcatProperties
    <3>2. QED
      BY <2>5, <3>1, UptoIs
  <2>8. QED
    BY <2>2, <2>5, <2>6, <2>7
<1>6. Until(0) = 0
  BY <1>3, UptoIs, EmptySeq
<1>7. QED
  BY <1>3, <1>4, <1>5, <1>6
-----------------------------------------------------------------------------
(* Where a position falls *)

\* Position s is behind n frames and in the next one.
At(n, s) == /\ n \in 0 .. NumFrames /\ Until(n) <= s
            /\ n < NumFrames => s < Until(n + 1)

LEMMA UptoPrefix ==
    ASSUME FramesFit, NEW i \in 0 .. NumFrames, NEW j \in i .. NumFrames
    PROVE  \E r \in Seq(Byte) : Upto(j) = Upto(i) \o r
<1> DEFINE S == {m \in Nat : m \in i .. NumFrames => \E r \in Seq(Byte) : Upto(m) = Upto(i) \o r}
<1>0. NumFrames \in Nat /\ Upto(i) \in Seq(Byte)
  BY LimitsAssumption, UptoStep
<1>1. <<>> \in Seq(Byte) /\ Upto(i) = Upto(i) \o <<>>
  BY <1>0, EmptySeq, ConcatEmptySeq
<1>2. 0 \in S
  <2>1. 0 \in i .. NumFrames => i = 0
    BY <1>0
  <2>2. QED
    BY <1>1, <2>1
<1>3. ASSUME NEW m \in Nat, m \in S PROVE m + 1 \in S
  <2>1. SUFFICES ASSUME m + 1 \in i .. NumFrames
                 PROVE  \E r \in Seq(Byte) : Upto(m + 1) = Upto(i) \o r
    OBVIOUS
  <2>2. CASE i = m + 1
    BY <1>1, <2>2
  <2>3. CASE i # m + 1
    <3>1. m \in i .. NumFrames /\ m \in 0 .. NumFrames - 1 /\ m + 1 \in 1 .. NumFrames
      BY <1>0, <2>1, <2>3
    <3>2. PICK r \in Seq(Byte) : Upto(m) = Upto(i) \o r
      BY <1>3, <3>1
    <3>3. BytesOf(m + 1) \in Seq(Byte)
      BY <3>1, BytesOfType
    <3>4. Upto(m + 1) = Upto(m) \o BytesOf(m + 1)
      BY <3>1, UptoStep
    <3>5. Upto(m + 1) = Upto(i) \o (r \o BytesOf(m + 1))
      <4>1. PICK a, b : a = Upto(i) /\ b = BytesOf(m + 1)
        OBVIOUS
      <4>2. a \in Seq(Byte) /\ b \in Seq(Byte)
        BY <1>0, <3>3, <4>1
      <4>3. (a \o r) \o b = a \o (r \o b)
        BY <4>2, ConcatThree, SMTT(60)
      <4>4. QED
        BY <3>2, <3>4, <4>1, <4>3
    <3>6. r \o BytesOf(m + 1) \in Seq(Byte)
      BY <3>2, <3>3, ConcatProperties
    <3>7. QED
      BY <3>5, <3>6
  <2>4. QED
    BY <2>2, <2>3
<1>4. Nat \subseteq S
  <2> HIDE DEF S
  <2>1. QED
    BY <1>2, <1>3, NatInductionSet
<1>5. j \in S
  <2> HIDE DEF S
  <2>1. j \in Nat
    BY <1>0
  <2>2. QED
    BY <1>4, <2>1
<1>6. QED
  BY <1>5

LEMMA UntilMonotone ==
    ASSUME FramesFit, NEW i \in 0 .. NumFrames, NEW j \in i .. NumFrames
    PROVE  Until(i) <= Until(j)
<1>0. NumFrames \in Nat /\ j \in 0 .. NumFrames
  BY LimitsAssumption
<1>1. PICK r \in Seq(Byte) : Upto(j) = Upto(i) \o r
  BY UptoPrefix
<1>2. Upto(i) \in Seq(Byte) /\ Until(i) \in Nat /\ Until(j) \in Nat
  BY <1>0, UptoStep
<1>3. Len(Upto(j)) = Len(Upto(i)) + Len(r) /\ Len(r) \in Nat
  BY <1>1, <1>2, ConcatParts
<1>4. Until(j) = Until(i) + Len(r)
  BY <1>3, UptoIs
<1>5. QED
  BY <1>2, <1>3, <1>4

LEMMA BytesType ==
    ASSUME FramesFit
    PROVE  Bytes \in Seq(Byte) /\ Len(Bytes) = Until(NumFrames) /\ Len(Bytes) \in Nat
<1>0. NumFrames \in 0 .. NumFrames
  BY LimitsAssumption
<1>1. Upto(NumFrames) \in Seq(Byte) /\ Until(NumFrames) \in Nat
  BY <1>0, UptoStep
<1>2. QED
  BY <1>1, UptoIs

\* The bytes of a frame are where the frames before it end.
LEMMA BytesAt ==
    ASSUME FramesFit, NEW n \in 0 .. NumFrames - 1
    PROVE  /\ Until(n + 1) = Until(n) + Len(BytesOf(n + 1)) /\ Until(n + 1) <= Len(Bytes)
           /\ \A k \in 1 .. Until(n) : Bytes[k] = Upto(n)[k]
           /\ \A k \in 1 .. Len(BytesOf(n + 1)) : Bytes[Until(n) + k] = BytesOf(n + 1)[k]
<1>0. NumFrames \in Nat /\ n \in 0 .. NumFrames /\ n + 1 \in 0 .. NumFrames /\ n + 1 \in 1 .. NumFrames
      /\ NumFrames \in n + 1 .. NumFrames
  BY LimitsAssumption
<1>1. PICK a, b, c : a = Upto(n) /\ b = BytesOf(n + 1) /\ c = Upto(n + 1)
  OBVIOUS
<1>2. a \in Seq(Byte) /\ b \in Seq(Byte) /\ c \in Seq(Byte) /\ c = a \o b
  BY <1>0, <1>1, UptoStep, BytesOfType
<1>3. PICK r \in Seq(Byte) : Upto(NumFrames) = Upto(n + 1) \o r
  BY <1>0, UptoPrefix
<1>4. Bytes = c \o r
  BY <1>1, <1>3, UptoIs
<1>5. /\ Len(a) = Until(n) /\ Len(c) = Until(n + 1)
  BY <1>1, UptoIs
<1>6. /\ Len(a) \in Nat /\ Len(b) \in Nat /\ Len(c) = Len(a) + Len(b)
      /\ \A i \in 1 .. Len(a) : c[i] = a[i]
      /\ \A i \in 1 .. Len(b) : c[Len(a) + i] = b[i]
  BY <1>2, ConcatParts
<1>7. /\ Len(c) \in Nat /\ Len(r) \in Nat /\ Len(Bytes) = Len(c) + Len(r)
      /\ \A i \in 1 .. Len(c) : Bytes[i] = c[i]
  BY <1>2, <1>4, ConcatParts
<1>8. Until(n + 1) = Until(n) + Len(b) /\ Until(n + 1) <= Len(Bytes)
  BY <1>5, <1>6, <1>7
<1>9. \A k \in 1 .. Len(a) : Bytes[k] = a[k]
  BY <1>6, <1>7
<1>10. ASSUME NEW k \in 1 .. Len(b) PROVE Bytes[Len(a) + k] = b[k]
  <2>1. PICK j : j = Len(a) + k
    OBVIOUS
  <2>2. j \in 1 .. Len(c)
    BY <1>6, <2>1
  <2>3. QED
    BY <1>6, <1>7, <2>1, <2>2
<1>11. QED
  BY <1>1, <1>5, <1>8, <1>9, <1>10

LEMMA AtExists ==
    ASSUME FramesFit, NEW s \in 0 .. Len(Bytes)
    PROVE  \E n : At(n, s)
<1>0. NumFrames \in Nat /\ NumFrames \in 0 .. NumFrames
  BY LimitsAssumption
<1> DEFINE S == {m \in Nat : m \in 0 .. NumFrames /\ s < Until(m) => \E n : At(n, s)}
<1>1. 0 \in S
  BY UptoStep
<1>2. ASSUME NEW m \in Nat, m \in S PROVE m + 1 \in S
  <2>1. SUFFICES ASSUME m + 1 \in 0 .. NumFrames, s < Until(m + 1) PROVE \E n : At(n, s)
    OBVIOUS
  <2>2. m \in 0 .. NumFrames /\ Until(m) \in Nat
    BY <1>0, <2>1, UptoStep
  <2>3. CASE Until(m) <= s
    BY <2>1, <2>2, <2>3 DEF At
  <2>4. CASE s < Until(m)
    BY <1>2, <2>2, <2>4
  <2>5. QED
    BY <2>2, <2>3, <2>4
<1>3. Nat \subseteq S
  <2> HIDE DEF S
  <2>1. QED
    BY <1>1, <1>2, NatInductionSet
<1>4. Len(Bytes) = Until(NumFrames) /\ Len(Bytes) \in Nat
  BY BytesType
<1>5. CASE s < Until(NumFrames)
  BY <1>0, <1>3, <1>5
<1>6. CASE s = Until(NumFrames)
  <2>1. At(NumFrames, s)
    BY <1>0, <1>4, <1>6 DEF At
  <2>2. QED
    BY <2>1
<1>7. QED
  BY <1>4, <1>5, <1>6

\* The frames that are complete at a position are those before it.
LEMMA AtComplete ==
    ASSUME FramesFit, NEW s \in 0 .. Len(Bytes), NEW n, At(n, s)
    PROVE  {f \in DOMAIN frames : Until(f) <= s} = 1 .. n
<1>0. NumFrames \in Nat /\ DOMAIN frames = 1 .. NumFrames /\ n \in 0 .. NumFrames
      /\ Len(Bytes) \in Nat
  BY LimitsAssumption, BytesType DEF FramesFit, At
<1>1. ASSUME NEW f \in 1 .. NumFrames, f <= n PROVE Until(f) <= s
  <2>1. f \in 0 .. NumFrames /\ n \in f .. NumFrames
    BY <1>0, <1>1
  <2>2. Until(f) <= Until(n) /\ Until(f) \in Nat /\ Until(n) \in Nat
    BY <1>0, <2>1, UntilMonotone, UptoStep
  <2>3. Until(n) <= s
    BY DEF At
  <2>4. QED
    BY <1>0, <2>2, <2>3
<1>2. ASSUME NEW f \in 1 .. NumFrames, n < f PROVE ~ (Until(f) <= s)
  <2>1. n + 1 \in 0 .. NumFrames /\ f \in n + 1 .. NumFrames /\ f \in 0 .. NumFrames
    BY <1>0, <1>2
  <2>2. Until(n + 1) <= Until(f) /\ Until(f) \in Nat /\ Until(n + 1) \in Nat
    BY <2>1, UntilMonotone, UptoStep
  <2>3. s < Until(n + 1)
    BY <1>0, <1>2 DEF At
  <2>4. QED
    BY <1>0, <2>2, <2>3
<1>3. QED
  BY <1>0, <1>1, <1>2
-----------------------------------------------------------------------------
(* The terminator, byte by byte *)

\* g is the run of the terminator over the first n bytes of a chunk.
Runs(g, s, chunk, n) == g = [k \in 0 .. n |-> IF k = 0 THEN s ELSE Observe1(g[k - 1], chunk[k])]

RunsHere(g, s, chunk, k) == g[k] = IF k = 0 THEN s ELSE Observe1(g[k - 1], chunk[k])

LEMMA RunsAt ==
    ASSUME NEW g, NEW s, NEW chunk, NEW n, Runs(g, s, chunk, n), NEW k \in 0 .. n
    PROVE  RunsHere(g, s, chunk, k)
BY DEF Runs, RunsHere

LEMMA RunsExist ==
    ASSUME NEW s, NEW chunk, NEW m \in Nat
    PROVE  \E g : Runs(g, s, chunk, m)
<1> DEFINE S == {n \in Nat : \E g : Runs(g, s, chunk, n)}
<1>1. 0 \in S
  <2>1. Runs([k \in 0 .. 0 |-> s], s, chunk, 0)
    BY DEF Runs
  <2>2. QED
    BY <2>1
<1>2. ASSUME NEW n \in Nat, n \in S PROVE n + 1 \in S
  <2>1. PICK f : Runs(f, s, chunk, n)
    BY <1>2
  <2> DEFINE g == [k \in 0 .. n + 1 |-> IF k <= n THEN f[k] ELSE Observe1(f[k - 1], chunk[k])]
  <2>2. ASSUME NEW k \in 0 .. n + 1
        PROVE  g[k] = IF k = 0 THEN s ELSE Observe1(g[k - 1], chunk[k])
    <3>1. CASE k <= n
      <4>1. f[k] = IF k = 0 THEN s ELSE Observe1(f[k - 1], chunk[k])
        <5>1. k \in 0 .. n
          BY <3>1
        <5>2. QED
          BY <2>1, <5>1, RunsAt DEF RunsHere
      <4>2. k # 0 => g[k - 1] = f[k - 1]
        BY <3>1
      <4>3. QED
        BY <3>1, <4>1, <4>2
    <3>2. CASE k = n + 1
      <4>1. k # 0 /\ g[k - 1] = f[k - 1] /\ g[k] = Observe1(f[k - 1], chunk[k])
        BY <3>2
      <4>2. QED
        BY <4>1
    <3>3. QED
      BY <3>1, <3>2
  <2>3. Runs(g, s, chunk, n + 1)
    <3> DEFINE h == [k \in 0 .. n + 1 |-> IF k = 0 THEN s ELSE Observe1(g[k - 1], chunk[k])]
    <3>1. \A k \in 0 .. n + 1 : g[k] = h[k]
      BY <2>2
    <3>2. g = h
      BY <3>1
    <3>3. QED
      BY <3>2 DEF Runs
  <2>4. QED
    BY <2>3
<1>3. Nat \subseteq S
  <2> HIDE DEF S
  <2>1. QED
    BY <1>1, <1>2, NatInductionSet
<1>4. QED
  BY <1>3

AgreeOn(f, g, j, k) == \A i \in j .. k : f[i] = g[i]

LEMMA RunsUnique ==
    ASSUME NEW s, NEW c, NEW d, NEW f, NEW g, NEW m \in Nat, NEW n \in Nat,
           Runs(f, s, c, m), Runs(g, s, d, n),
           NEW k \in Nat, k <= m, k <= n, AgreeOn(c, d, 1, k)
    PROVE  AgreeOn(f, g, 0, k)
<1> DEFINE S == {i \in Nat : i \in 0 .. k => f[i] = g[i]}
<1>1. 0 \in S
  <2>1. 0 \in 0 .. m /\ 0 \in 0 .. n
    OBVIOUS
  <2>2. RunsHere(f, s, c, 0) /\ RunsHere(g, s, d, 0)
    BY <2>1, RunsAt
  <2>3. QED
    BY <2>2 DEF RunsHere
<1>2. ASSUME NEW i \in Nat, i \in S PROVE i + 1 \in S
  <2>1. SUFFICES ASSUME i + 1 \in 0 .. k PROVE f[i + 1] = g[i + 1]
    OBVIOUS
  <2>2. PICK j : j = i + 1
    OBVIOUS
  <2>3. j \in 0 .. m /\ j \in 0 .. n /\ j # 0 /\ j - 1 = i /\ c[j] = d[j] /\ f[i] = g[i]
    BY <1>2, <2>1, <2>2 DEF AgreeOn
  <2>4. RunsHere(f, s, c, j) /\ RunsHere(g, s, d, j)
    BY <2>3, RunsAt
  <2>5. f[j] = Observe1(f[i], c[j]) /\ g[j] = Observe1(g[i], d[j])
    BY <2>3, <2>4 DEF RunsHere
  <2>6. QED
    BY <2>2, <2>3, <2>5
<1>3. Nat \subseteq S
  <2> HIDE DEF S
  <2>1. QED
    BY <1>1, <1>2, NatInductionSet
<1>4. QED
  BY <1>3 DEF AgreeOn

LEMMA WatchChoice ==
    ASSUME NEW s, NEW chunk, Len(chunk) \in Nat
    PROVE  \E g : Runs(g, s, chunk, Len(chunk)) /\ Watch(s, chunk) = g[Len(chunk)]
<1> DEFINE g == CHOOSE h : Runs(h, s, chunk, Len(chunk))
<1>1. Runs(g, s, chunk, Len(chunk))
  BY RunsExist
<1>2. Watch(s, chunk) = g[Len(chunk)]
  BY DEF Watch, Runs
<1>3. QED
  BY <1>1, <1>2

LEMMA WatchEmpty ==
    ASSUME NEW s
    PROVE  Watch(s, <<>>) = s
<1>1. Len(<<>>) = 0
  OBVIOUS
<1>2. PICK g : Runs(g, s, <<>>, Len(<<>>)) /\ Watch(s, <<>>) = g[Len(<<>>)]
  <2>1. Len(<<>>) \in Nat
    BY <1>1
  <2>2. QED
    BY <2>1, WatchChoice
<1>3. RunsHere(g, s, <<>>, 0)
  <2>1. Runs(g, s, <<>>, 0) /\ 0 \in 0 .. 0
    BY <1>1, <1>2
  <2>2. QED
    BY <2>1, RunsAt
<1>4. QED
  BY <1>1, <1>2, <1>3 DEF RunsHere

LEMMA WatchAppend ==
    ASSUME NEW T, NEW c \in Seq(T), NEW b \in T, NEW s
    PROVE  Watch(s, Append(c, b)) = Observe1(Watch(s, c), b)
<1>1. PICK n \in Nat, d \in {Append(c, b)} : d = Append(c, b) /\ n = Len(c)
  BY LenProperties
<1>2. Len(d) = n + 1 /\ d[n + 1] = b /\ \A i \in 1 .. n : c[i] = d[i]
  BY <1>1, AppendProperties
<1>3. PICK f : Runs(f, s, c, n) /\ Watch(s, c) = f[n]
  BY <1>1, WatchChoice
<1>4. PICK g : Runs(g, s, d, n + 1) /\ Watch(s, d) = g[n + 1]
  <2>1. Len(d) \in Nat
    BY <1>2
  <2>2. QED
    BY <1>2, <2>1, WatchChoice
<1>5. f[n] = g[n]
  <2>1. n + 1 \in Nat /\ n <= n /\ n <= n + 1 /\ n \in 0 .. n
    OBVIOUS
  <2>2. AgreeOn(c, d, 1, n)
    BY <1>2 DEF AgreeOn
  <2>3. AgreeOn(f, g, 0, n)
    BY <1>3, <1>4, <2>1, <2>2, RunsUnique
  <2>4. QED
    BY <2>1, <2>3 DEF AgreeOn
<1>6. g[n + 1] = Observe1(g[n], b)
  <2>1. PICK j : j = n + 1
    OBVIOUS
  <2>2. j \in 0 .. n + 1 /\ j # 0 /\ j - 1 = n /\ d[j] = b
    BY <1>2, <2>1
  <2>3. RunsHere(g, s, d, j)
    BY <1>4, <2>2, RunsAt
  <2>4. QED
    BY <2>1, <2>2, <2>3 DEF RunsHere
<1>7. QED
  BY <1>1, <1>3, <1>4, <1>5, <1>6

\* A chunk may be cut anywhere.
LEMMA WatchConcat ==
    ASSUME NEW T, NEW c \in Seq(T), NEW d \in Seq(T), NEW s
    PROVE  Watch(s, c \o d) = Watch(Watch(s, c), d)
<1> DEFINE Q == {r \in Seq(T) : Watch(s, c \o r) = Watch(Watch(s, c), r)}
<1>1. <<>> \in Q
  <2>1. Watch(Watch(s, c), <<>>) = Watch(s, c)
    BY WatchEmpty
  <2>2. c \o <<>> = c /\ <<>> \in Seq(T)
    BY ConcatEmptySeq, EmptySeq
  <2>3. QED
    BY <2>1, <2>2
<1>2. ASSUME NEW r \in Seq(T), NEW e \in T, r \in Q PROVE Append(r, e) \in Q
  <2>1. c \o Append(r, e) = Append(c \o r, e) /\ c \o r \in Seq(T) /\ Append(r, e) \in Seq(T)
    OBVIOUS
  <2>2. Watch(s, Append(c \o r, e)) = Observe1(Watch(s, c \o r), e)
    BY <2>1, WatchAppend
  <2>3. Watch(Watch(s, c), Append(r, e)) = Observe1(Watch(Watch(s, c), r), e)
    BY WatchAppend
  <2>4. QED
    BY <1>2, <2>1, <2>2, <2>3
<1>3. Seq(T) \subseteq Q
  <2> HIDE DEF Q
  <2>1. QED
    BY <1>1, <1>2, SeqInductionSet
<1>4. QED
  BY <1>3

\* Nothing is looked at after the terminal event.
LEMMA WatchFound ==
    ASSUME NEW T, NEW c \in Seq(T), NEW s, s.found
    PROVE  Watch(s, c) = s
<1> DEFINE Q == {r \in Seq(T) : Watch(s, r) = s}
<1>1. <<>> \in Q
  BY WatchEmpty, EmptySeq
<1>2. ASSUME NEW r \in Seq(T), NEW e \in T, r \in Q PROVE Append(r, e) \in Q
  <2>1. Append(r, e) \in Seq(T)
    BY AppendProperties
  <2>2. Watch(s, Append(r, e)) = Observe1(Watch(s, r), e)
    BY WatchAppend
  <2>3. Observe1(s, e) = s
    BY DEF Observe1
  <2>4. QED
    BY <1>2, <2>1, <2>2, <2>3
<1>3. Seq(T) \subseteq Q
  <2> HIDE DEF Q
  <2>1. QED
    BY <1>1, <1>2, SeqInductionSet
<1>4. QED
  BY <1>3
-----------------------------------------------------------------------------
(* What the terminator makes of a line *)

Lines  == {l \in Seq(Byte) : Len(l) <= MaxLine /\ \A k \in 1 .. Len(l) : l[k][2] # "lf"}
Record == [frame : 0 .. NumFrames, usage : BOOLEAN]
WState == [line : Lines, armed : BOOLEAN, terminal : Record, found : BOOLEAN]

Neutral == Unreturned(<<>>, FALSE, NoTerminal)

Keep(s) == Unreturned(<<>>, s.armed, s.terminal)

BlankLine(s) ==
    [Unreturned(<<>>, FALSE, IF s.armed THEN s.terminal ELSE NoTerminal) EXCEPT !.found = s.armed]

\* What a line of frame f does that spells c.
OnWords(s, f, c) ==
    IF c = <<>> THEN BlankLine(s)
    ELSE IF c = EventLine THEN OnEvent(s, f)
    ELSE IF c \in {DataLine, LongLine} THEN OnData(s, f)
    ELSE Keep(s)

\* A line as long as the terminator keeps it.
Cut(t) == IF Len(t) <= MaxLine THEN t ELSE SubSeq(t, 1, MaxLine)

LEMMA UnreturnedType ==
    ASSUME NEW a \in BOOLEAN, NEW t \in Record
    PROVE  Unreturned(<<>>, a, t) \in WState
<1>1. <<>> \in Seq(Byte) /\ Len(<<>>) = 0
  BY EmptySeq
<1>2. <<>> \in Lines
  BY <1>1, LimitsAssumption DEF Lines
<1>3. QED
  BY <1>2 DEF Unreturned, WState

LEMMA NeutralType == Neutral \in WState /\ NoTerminal \in Record /\ ~ Neutral.found
                     /\ Neutral.line = <<>>
<1>1. NoTerminal \in Record
  BY LimitsAssumption DEF NoTerminal, Record
<1>2. QED
  BY <1>1, UnreturnedType DEF Neutral, Unreturned

\* A line has been told when it ends.
LEMMA EffectType ==
    ASSUME FramesFit, NEW s \in WState, NEW f \in 1 .. NumFrames
    PROVE  /\ OnEvent(s, f) \in WState /\ OnEvent(s, f).line = <<>> /\ ~ OnEvent(s, f).found
           /\ OnData(s, f) \in WState /\ OnData(s, f).line = <<>> /\ ~ OnData(s, f).found
           /\ Keep(s) \in WState /\ Keep(s).line = <<>> /\ ~ Keep(s).found
           /\ BlankLine(s) \in WState
<1>1. s.armed \in BOOLEAN /\ s.terminal \in Record
  BY DEF WState
<1>2. FromEvent(f, TRUE) \in Record /\ FromEvent(f, FALSE) \in Record /\ NoTerminal \in Record
  BY NeutralType, LimitsAssumption DEF FromEvent, Record
<1>3. \A a, t : Unreturned(<<>>, a, t).line = <<>> /\ ~ Unreturned(<<>>, a, t).found
  BY DEF Unreturned
<1>4. OnEvent(s, f) \in WState /\ OnEvent(s, f).line = <<>> /\ ~ OnEvent(s, f).found
  BY <1>1, <1>2, <1>3, UnreturnedType DEF OnEvent
<1>5. OnData(s, f) \in WState /\ OnData(s, f).line = <<>> /\ ~ OnData(s, f).found
  BY <1>1, <1>2, <1>3, UnreturnedType DEF OnData
<1>6. Keep(s) \in WState /\ Keep(s).line = <<>> /\ ~ Keep(s).found
  BY <1>1, <1>3, UnreturnedType DEF Keep
<1>7. BlankLine(s) \in WState
  <2>1. Unreturned(<<>>, FALSE, IF s.armed THEN s.terminal ELSE NoTerminal) \in WState
    BY <1>1, <1>2, UnreturnedType
  <2>2. QED
    BY <1>1, <2>1 DEF BlankLine, WState
<1>8. QED
  BY <1>4, <1>5, <1>6, <1>7

\* The words of a line are what it spells, and its bytes are of one frame.
LEMMA SpelledLine ==
    ASSUME NEW f \in 1 .. NumFrames, NEW c \in Seq(Kinds), NEW s, Stripped(s.line) = Mark(f, c)
    PROVE  OnLine(s) = OnWords(s, f, c)
<1>1. PICK l : l = Mark(f, c)
  OBVIOUS
<1>2. /\ l \in Seq(Byte) /\ Len(l) = Len(c) /\ Len(c) \in Nat
      /\ \A k \in 1 .. Len(c) : l[k] = <<f, c[k]>>
  BY <1>1, MarkType, LenProperties
<1>3. CASE c = <<>>
  <2>1. l = <<>>
    <3>1. Len(l) = 0
      BY <1>2, <1>3
    <3>2. QED
      BY <1>2, <3>1, EmptySeq
  <2>2. OnLine(s) = BlankLine(s)
    BY <1>1, <2>1 DEF OnLine, BlankLine
  <2>3. QED
    BY <1>3, <2>2 DEF OnWords
<1>4. CASE c # <<>>
  <2>1. 1 \in 1 .. Len(c)
    BY <1>2, <1>4, EmptySeq
  <2>2. l # <<>> /\ l[1][1] = f
    <3>1. l[1] = <<f, c[1]>> /\ Len(l) # 0
      BY <1>2, <2>1
    <3>2. QED
      BY <3>1, EmptySeq
  <2>3. Words(l) = c
    <3>1. DOMAIN l = 1 .. Len(c) /\ DOMAIN c = 1 .. Len(c) /\ c = [k \in DOMAIN c |-> c[k]]
      BY <1>2, LenProperties
    <3>2. \A k \in 1 .. Len(c) : l[k][2] = c[k]
      BY <1>2
    <3>3. QED
      BY <3>1, <3>2 DEF Words
  <2>4. /\ c = EventLine => OnLine(s) = OnEvent(s, f)
        /\ c # EventLine /\ c \in {DataLine, LongLine} => OnLine(s) = OnData(s, f)
        /\ c # EventLine /\ c \notin {DataLine, LongLine} => OnLine(s) = Keep(s)
    BY <1>1, <2>2, <2>3 DEF OnLine, Parses, Keep
  <2>5. QED
    BY <1>4, <2>4 DEF OnWords
<1>5. QED
  BY <1>3, <1>4

LEMMA CutIs ==
    ASSUME NEW T, NEW t \in Seq(T)
    PROVE  /\ Cut(t) \in Seq(T) /\ Len(Cut(t)) \in Nat /\ Len(Cut(t)) <= MaxLine
           /\ Len(t) <= MaxLine => Cut(t) = t
           /\ Len(t) >= MaxLine => Len(Cut(t)) = MaxLine
           /\ Len(Cut(t)) <= Len(t)
           /\ \A k \in 1 .. Len(Cut(t)) : Cut(t)[k] = t[k]
<1>0. Len(t) \in Nat /\ MaxLine \in Nat /\ MaxLine >= 2
  BY LenProperties, LimitsAssumption
<1>1. CASE Len(t) <= MaxLine
  BY <1>0, <1>1 DEF Cut
<1>2. CASE ~ (Len(t) <= MaxLine)
  <2>1. Cut(t) = SubSeq(t, 1, MaxLine)
    BY <1>2 DEF Cut
  <2>2. \A i \in 1 .. MaxLine : t[i] \in T
    BY <1>0, <1>2, ElementOfSeq
  <2>3. PICK u : u = SubSeq(t, 1, MaxLine)
    OBVIOUS
  <2>4. /\ u \in Seq(T) /\ Len(u) = MaxLine
        /\ \A i \in 1 .. MaxLine : u[i] = t[i]
    <3>1. /\ SubSeq(t, 1, MaxLine) \in Seq(T)
          /\ Len(SubSeq(t, 1, MaxLine)) = IF 1 <= MaxLine THEN MaxLine - 1 + 1 ELSE 0
          /\ \A i \in 1 .. MaxLine - 1 + 1 : SubSeq(t, 1, MaxLine)[i] = t[1 + i - 1]
      BY <1>0, <2>2, SubSeqProperties
    <3>2. QED
      BY <1>0, <2>3, <3>1
  <2>5. QED
    BY <1>0, <1>2, <2>1, <2>3, <2>4
<1>3. QED
  BY <1>1, <1>2

LEMMA CutAppend ==
    ASSUME NEW T, NEW t \in Seq(T), NEW e \in T
    PROVE  /\ Len(t) < MaxLine => Cut(Append(t, e)) = Append(t, e) /\ Cut(t) = t
           /\ ~ (Len(t) < MaxLine) => Cut(Append(t, e)) = Cut(t) /\ Len(Cut(t)) = MaxLine
<1>0. PICK n \in Nat, u \in {Append(t, e)} : n = Len(t) /\ u = Append(t, e)
  BY LenProperties
<1>1. u \in Seq(T) /\ Len(u) = n + 1 /\ \A i \in 1 .. n : u[i] = t[i]
  BY <1>0, AppendProperties
<1>2. MaxLine \in Nat
  BY LimitsAssumption
<1>3. CASE n < MaxLine
  <2>1. Len(t) <= MaxLine /\ Len(u) <= MaxLine
    BY <1>0, <1>1, <1>2, <1>3
  <2>2. QED
    BY <1>0, <1>2, <1>3, <2>1 DEF Cut
<1>4. CASE ~ (n < MaxLine)
  <2>1. PICK a, b : a = Cut(t) /\ b = Cut(u)
    OBVIOUS
  <2>2. a \in Seq(T) /\ Len(a) = MaxLine /\ \A k \in 1 .. MaxLine : a[k] = t[k]
    <3>1. Len(t) >= MaxLine
      BY <1>0, <1>2, <1>4
    <3>2. QED
      BY <2>1, <3>1, CutIs
  <2>3. b \in Seq(T) /\ Len(b) = MaxLine /\ \A k \in 1 .. MaxLine : b[k] = u[k]
    <3>1. Len(u) >= MaxLine
      BY <1>1, <1>2, <1>4
    <3>2. QED
      BY <1>1, <2>1, <3>1, CutIs
  <2>4. \A k \in 1 .. MaxLine : a[k] = b[k]
    BY <1>1, <1>2, <1>4, <2>2, <2>3
  <2>5. a = b
    BY <2>2, <2>3, <2>4, SeqEqual
  <2>6. QED
    BY <1>0, <1>4, <2>1, <2>2, <2>5
<1>5. QED
  BY <1>3, <1>4

LEMMA MarkAppend ==
    ASSUME NEW f \in 1 .. NumFrames, NEW t \in Seq(Kinds), NEW e \in Kinds
    PROVE  Mark(f, Append(t, e)) = Append(Mark(f, t), <<f, e>>)
<1>1. <<e>> \in Seq(Kinds) /\ Append(t, e) = t \o <<e>>
  BY AppendIsConcat
<1>2. Mark(f, <<e>>) = <<<<f, e>>>>
  BY DEF Mark
<1>3. <<f, e>> \in Byte
  BY DEF Byte
<1>4. Mark(f, t) \in Seq(Byte)
  BY MarkType
<1>5. Append(Mark(f, t), <<f, e>>) = Mark(f, t) \o <<<<f, e>>>>
  <2>1. PICK b \in Byte, m \in Seq(Byte) : b = <<f, e>> /\ m = Mark(f, t)
    BY <1>3, <1>4
  <2>2. Append(m, b) = m \o <<b>>
    BY AppendIsConcat
  <2>3. QED
    BY <2>1, <2>2
<1>6. QED
  BY <1>1, <1>2, <1>5, MarkConcat

\* While a line lasts the terminator keeps it, up to its limit.
LEMMA LineTaken ==
    ASSUME NEW f \in 1 .. NumFrames, NEW s \in WState, s.line = <<>>, ~ s.found,
           NEW t \in Seq(Kinds \ {"lf"})
    PROVE  Watch(s, Mark(f, t)) = [s EXCEPT !.line = Mark(f, Cut(t))]
<1> DEFINE T == Kinds \ {"lf"}
           Q == {r \in Seq(T) : Watch(s, Mark(f, r)) = [s EXCEPT !.line = Mark(f, Cut(r))]}
<1>0. T \subseteq Kinds /\ Seq(T) \subseteq Seq(Kinds)
  BY SeqMonotonic
<1>1. <<>> \in Q
  <2>1. Mark(f, <<>>) = <<>> /\ <<>> \in Seq(T)
    BY EmptySeq DEF Mark
  <2>2. Cut(<<>>) = <<>>
    BY LimitsAssumption, EmptySeq DEF Cut
  <2>3. [s EXCEPT !.line = <<>>] = s
    BY DEF WState
  <2>4. QED
    BY <2>1, <2>2, <2>3, WatchEmpty
<1>2. ASSUME NEW r \in Seq(T), NEW e \in T, r \in Q PROVE Append(r, e) \in Q
  <2>1. Append(r, e) \in Seq(T) /\ r \in Seq(Kinds) /\ e \in Kinds /\ e # "lf"
    BY <1>0, AppendProperties
  <2>2. Mark(f, Append(r, e)) = Append(Mark(f, r), <<f, e>>)
    BY <2>1, MarkAppend
  <2>3. PICK x : x = [s EXCEPT !.line = Mark(f, Cut(r))]
    OBVIOUS
  <2>4. Watch(s, Mark(f, Append(r, e))) = Observe1(x, <<f, e>>)
    <3>1. Mark(f, r) \in Seq(Byte) /\ <<f, e>> \in Byte
      BY <2>1, MarkType DEF Byte
    <3>2. PICK b \in Byte, m \in Seq(Byte) : b = <<f, e>> /\ m = Mark(f, r)
      BY <3>1
    <3>3. Watch(s, Append(m, b)) = Observe1(Watch(s, m), b)
      BY WatchAppend
    <3>4. Watch(s, m) = x
      BY <1>2, <2>3, <3>2
    <3>5. QED
      BY <2>2, <3>2, <3>3, <3>4
  <2>5. ~ x.found /\ x.line = Mark(f, Cut(r)) /\ ~ Is(<<f, e>>, "lf")
    BY <2>1, <2>3 DEF WState, Is
  <2>6. Len(x.line) = Len(Cut(r))
    BY <2>1, <2>5, CutIs, MarkType
  <2>7. CASE Len(r) < MaxLine
    <3>1. Cut(Append(r, e)) = Append(r, e) /\ Cut(r) = r
      BY <2>1, <2>7, CutAppend
    <3>2. Observe1(x, <<f, e>>) = [x EXCEPT !.line = Append(@, <<f, e>>)]
      BY <2>5, <2>6, <2>7, <3>1 DEF Observe1
    <3>3. [x EXCEPT !.line = Append(@, <<f, e>>)] = [s EXCEPT !.line = Append(Mark(f, r), <<f, e>>)]
      BY <2>3, <3>1 DEF WState
    <3>4. QED
      BY <2>1, <2>2, <2>4, <3>1, <3>2, <3>3
  <2>8. CASE ~ (Len(r) < MaxLine)
    <3>1. Cut(Append(r, e)) = Cut(r) /\ Len(Cut(r)) = MaxLine
      BY <2>1, <2>8, CutAppend
    <3>2. ~ (Len(x.line) < MaxLine)
      BY <2>6, <3>1, LimitsAssumption
    <3>3. Observe1(x, <<f, e>>) = x
      BY <2>5, <3>2 DEF Observe1
    <3>4. QED
      BY <2>1, <2>3, <2>4, <3>1, <3>3
  <2>9. QED
    BY <2>7, <2>8
<1>3. Seq(T) \subseteq Q
  <2> HIDE DEF Q, T
  <2>1. QED
    BY <1>1, <1>2, SeqInductionSet
<1>4. QED
  BY <1>3
-----------------------------------------------------------------------------
(* What the terminator makes of a frame *)

PlainText == Seq(Kinds \ {"cr", "lf"})

\* A line without its line feed.
Body(w) == IF Eol = <<"lf">> THEN w ELSE Append(w, "cr")

LEMMA BodyIs ==
    ASSUME NEW w \in PlainText
    PROVE  /\ Body(w) \in Seq(Kinds \ {"lf"}) /\ Body(w) \in Seq(Kinds)
           /\ w \in Seq(Kinds)
           /\ w \o Eol = Append(Body(w), "lf")
<1>1. w \in Seq(Kinds) /\ w \in Seq(Kinds \ {"lf"})
  <2>1. Kinds \ {"cr", "lf"} \subseteq Kinds /\ Kinds \ {"cr", "lf"} \subseteq Kinds \ {"lf"}
    OBVIOUS
  <2>2. QED
    BY <2>1, SeqMonotonic DEF PlainText
<1>2. "cr" \in Kinds \ {"lf"} /\ "cr" \in Kinds /\ "lf" \in Kinds
  BY DEF Kinds
<1>3. Append(w, "cr") \in Seq(Kinds \ {"lf"}) /\ Append(w, "cr") \in Seq(Kinds)
  BY <1>1, <1>2, AppendProperties
<1>4. CASE Eol = <<"lf">>
  <2>1. w \o <<"lf">> = Append(w, "lf")
    BY <1>1, <1>2, AppendIsConcat
  <2>2. QED
    BY <1>1, <1>4, <2>1 DEF Body
<1>5. CASE Eol # <<"lf">>
  <2>1. Eol = <<"cr", "lf">>
    BY <1>5 DEF Eol
  <2>2. Append(<<"cr">>, "lf") = <<"cr", "lf">> /\ <<"cr">> \in Seq(Kinds)
    BY <1>2, PairIs
  <2>3. w \o Append(<<"cr">>, "lf") = Append(w \o <<"cr">>, "lf")
    BY <1>1, <1>2, <2>2
  <2>4. w \o <<"cr">> = Append(w, "cr")
    BY <1>1, <1>2, AppendIsConcat
  <2>5. QED
    BY <1>1, <1>3, <1>5, <2>1, <2>2, <2>3, <2>4 DEF Body
<1>6. QED
  BY <1>4, <1>5

LEMMA LastMark ==
    ASSUME NEW f \in 1 .. NumFrames, NEW c \in Seq(Kinds), Len(c) > 0
    PROVE  /\ Mark(f, c) # <<>>
           /\ Is(Mark(f, c)[Len(Mark(f, c))], "cr") <=> c[Len(c)] = "cr"
<1>1. PICK n \in Nat, m \in {Mark(f, c)} : m = Mark(f, c) /\ n = Len(c)
  BY LenProperties
<1>2. m \in Seq(Byte) /\ Len(m) = n /\ m[n] = <<f, c[n]>> /\ n > 0
  BY <1>1, MarkType
<1>3. m # <<>>
  BY <1>2, EmptySeq
<1>4. Is(m[n], "cr") <=> c[n] = "cr"
  BY <1>2 DEF Is
<1>5. QED
  BY <1>1, <1>2, <1>3, <1>4

LEMMA FrontOfAppend ==
    ASSUME NEW T, NEW s \in Seq(T), NEW e \in T
    PROVE  /\ SubSeq(Append(s, e), 1, Len(s)) = s
           /\ Append(s, e) # <<>> /\ Len(Append(s, e)) - 1 = Len(s)
           /\ Append(s, e)[Len(Append(s, e))] = e
<1>1. PICK n \in Nat, u \in {Append(s, e)} : n = Len(s) /\ u = Append(s, e)
  BY LenProperties
<1>2. /\ u \in Seq(T) /\ Len(u) = n + 1 /\ u[n + 1] = e
      /\ \A i \in 1 .. n : u[i] = s[i]
  BY <1>1, AppendProperties
<1>3. PICK v : v = SubSeq(u, 1, n)
  OBVIOUS
<1>4. v \in Seq(T) /\ Len(v) = n /\ \A i \in 1 .. n : v[i] = u[i]
  <2>1. \A i \in 1 .. n : u[i] \in T
    BY <1>2, ElementOfSeq
  <2>2. /\ SubSeq(u, 1, n) \in Seq(T)
        /\ Len(SubSeq(u, 1, n)) = IF 1 <= n THEN n - 1 + 1 ELSE 0
        /\ \A i \in 1 .. n - 1 + 1 : SubSeq(u, 1, n)[i] = u[1 + i - 1]
    BY <2>1, SubSeqProperties
  <2>3. QED
    BY <1>3, <2>2
<1>5. v = s
  BY <1>1, <1>2, <1>4, SeqEqual
<1>6. u # <<>>
  BY <1>2, EmptySeq
<1>7. QED
  BY <1>1, <1>2, <1>3, <1>5, <1>6

\* A line that does not end with a carriage return is what it is.
LEMMA StrippedPlain ==
    ASSUME NEW f \in 1 .. NumFrames, NEW w \in PlainText
    PROVE  Stripped(Mark(f, Cut(w))) = Mark(f, Cut(w))
<1>1. w \in Seq(Kinds)
  BY BodyIs
<1>2. PICK n \in Nat, c \in Seq(Kinds) : c = Cut(w) /\ n = Len(c)
  BY <1>1, CutIs
<1>3. CASE n = 0
  <2>1. Mark(f, c) = <<>>
    <3>1. Mark(f, c) \in Seq(Byte) /\ Len(Mark(f, c)) = 0
      BY <1>2, <1>3, MarkType
    <3>2. QED
      BY <3>1, EmptySeq
  <2>2. QED
    BY <1>2, <2>1 DEF Stripped
<1>4. CASE n > 0
  <2>1. c[n] = w[n] /\ n <= Len(w) /\ Len(w) \in Nat
    BY <1>1, <1>2, <1>4, CutIs, LenProperties
  <2>2. w[n] \in Kinds \ {"cr", "lf"}
    <3>1. n \in 1 .. Len(w)
      BY <1>4, <2>1
    <3>2. QED
      BY <3>1, ElementOfSeq DEF PlainText
  <2>3. ~ Is(Mark(f, c)[Len(Mark(f, c))], "cr")
    BY <1>2, <1>4, <2>1, <2>2, LastMark
  <2>4. QED
    BY <1>2, <2>3 DEF Stripped
<1>5. QED
  BY <1>3, <1>4

\* The line end is not part of the line, whether or not the line was cut.
LEMMA StrippedBody ==
    ASSUME NEW f \in 1 .. NumFrames, NEW w \in PlainText
    PROVE  Stripped(Mark(f, Cut(Body(w)))) = Mark(f, Cut(w))
<1>1. w \in Seq(Kinds) /\ "cr" \in Kinds
  BY BodyIs DEF Kinds
<1>2. CASE Eol = <<"lf">>
  BY <1>2, StrippedPlain DEF Body
<1>3. CASE Eol # <<"lf">> /\ Len(w) < MaxLine
  <2>1. Cut(Body(w)) = Append(w, "cr") /\ Cut(w) = w
    BY <1>1, <1>3, CutAppend DEF Body
  <2>2. PICK m \in Seq(Byte), b \in Byte : m = Mark(f, w) /\ b = <<f, "cr">>
    BY <1>1, MarkType DEF Byte
  <2>3. Mark(f, Append(w, "cr")) = Append(m, b)
    BY <1>1, <2>2, MarkAppend
  <2>4. /\ SubSeq(Append(m, b), 1, Len(m)) = m
        /\ Append(m, b) # <<>> /\ Len(Append(m, b)) - 1 = Len(m)
        /\ Append(m, b)[Len(Append(m, b))] = b
    BY FrontOfAppend
  <2>5. Is(b, "cr")
    BY <2>2 DEF Is
  <2>6. Stripped(Append(m, b)) = m
    BY <2>4, <2>5 DEF Stripped
  <2>7. QED
    BY <2>1, <2>2, <2>3, <2>6
<1>4. CASE Eol # <<"lf">> /\ ~ (Len(w) < MaxLine)
  <2>1. Cut(Body(w)) = Cut(w)
    BY <1>1, <1>4, CutAppend DEF Body
  <2>2. QED
    BY <2>1, StrippedPlain
<1>5. QED
  BY <1>2, <1>3, <1>4

\* What a line does, from its first byte to its line feed; until the line feed
\* nothing is found.
LEMMA LineEffect ==
    ASSUME FramesFit, NEW f \in 1 .. NumFrames, NEW s \in WState, s.line = <<>>, ~ s.found,
           NEW w \in PlainText
    PROVE  /\ Watch(s, Mark(f, w \o Eol)) = OnWords(s, f, Cut(w))
           /\ ~ Watch(s, Mark(f, Body(w))).found
<1>1. /\ Body(w) \in Seq(Kinds \ {"lf"}) /\ Body(w) \in Seq(Kinds) /\ w \in Seq(Kinds)
      /\ w \o Eol = Append(Body(w), "lf") /\ "lf" \in Kinds
  BY BodyIs DEF Kinds
<1>2. PICK x : x = [s EXCEPT !.line = Mark(f, Cut(Body(w)))]
  OBVIOUS
<1>3. Watch(s, Mark(f, Body(w))) = x
  BY <1>1, <1>2, LineTaken
<1>4. ~ x.found /\ x.line = Mark(f, Cut(Body(w))) /\ x.armed = s.armed /\ x.terminal = s.terminal
  BY <1>2 DEF WState
<1>5. Mark(f, w \o Eol) = Append(Mark(f, Body(w)), <<f, "lf">>)
  BY <1>1, MarkAppend
<1>6. Watch(s, Mark(f, w \o Eol)) = Observe1(x, <<f, "lf">>)
  <2>1. Mark(f, Body(w)) \in Seq(Byte) /\ <<f, "lf">> \in Byte
    BY <1>1, MarkType DEF Byte
  <2>2. PICK b \in Byte, m \in Seq(Byte) : b = <<f, "lf">> /\ m = Mark(f, Body(w))
    BY <2>1
  <2>3. Watch(s, Append(m, b)) = Observe1(Watch(s, m), b)
    BY WatchAppend
  <2>4. QED
    BY <1>3, <1>5, <2>2, <2>3
<1>7. Observe1(x, <<f, "lf">>) = OnLine(x)
  BY <1>4 DEF Observe1, Is
<1>8. Stripped(x.line) = Mark(f, Cut(w)) /\ Cut(w) \in Seq(Kinds)
  BY <1>1, <1>4, StrippedBody, CutIs
<1>9. OnLine(x) = OnWords(x, f, Cut(w))
  BY <1>8, SpelledLine
<1>10. OnWords(x, f, Cut(w)) = OnWords(s, f, Cut(w))
  BY <1>4 DEF OnWords, BlankLine, OnEvent, OnData, Keep
<1>11. QED
  BY <1>3, <1>4, <1>6, <1>7, <1>9, <1>10

\* What one of the lines a frame can have does.
Effect(s, f, w) ==
    IF w = EventLine THEN OnEvent(s, f)
    ELSE IF w = DataLine \/ (w = LongLine /\ MaxLine >= 4) THEN OnData(s, f)
    ELSE Keep(s)

LEMMA WordsDiffer ==
    /\ EventLine # <<>> /\ DataLine # <<>> /\ LongLine # <<>>
    /\ DataLine # EventLine /\ LongLine # EventLine /\ LongLine # DataLine
    /\ \A x : /\ <<x>> # <<>> /\ <<x>> # EventLine /\ <<x>> # DataLine /\ <<x>> # LongLine
    /\ Len(EventLine) = 2 /\ Len(DataLine) = 2 /\ Len(LongLine) = 4 /\ \A x : Len(<<x>>) = 1
    /\ EventLine[1] = "e1" /\ DataLine[1] = "d1" /\ LongLine[1] = "d1"
    /\ DataLine[2] = "d2" /\ LongLine[2] = "d"
<1>1. Len(EventLine) = 2 /\ Len(DataLine) = 2 /\ Len(LongLine) = 4 /\ \A x : Len(<<x>>) = 1
  BY DEF EventLine, DataLine, LongLine
<1>2. /\ EventLine[1] = "e1" /\ DataLine[1] = "d1" /\ LongLine[1] = "d1"
      /\ DataLine[2] = "d2" /\ LongLine[2] = "d"
  BY DEF EventLine, DataLine, LongLine
<1>3. Len(<<>>) = 0
  OBVIOUS
<1>4. DataLine # EventLine /\ LongLine # EventLine /\ LongLine # DataLine
  <2>1. "d1" # "e1" /\ "d" # "d2"
    OBVIOUS
  <2>2. QED
    BY <1>2, <2>1, Zenon
<1>5. EventLine # <<>> /\ DataLine # <<>> /\ LongLine # <<>>
  <2>1. /\ Len(EventLine) # Len(<<>>) /\ Len(DataLine) # Len(<<>>) /\ Len(LongLine) # Len(<<>>)
    BY <1>1, <1>3
  <2>2. QED
    BY <2>1, Zenon
<1>6. ASSUME NEW x PROVE <<x>> # <<>> /\ <<x>> # EventLine /\ <<x>> # DataLine /\ <<x>> # LongLine
  <2>1. PICK y : y = <<x>>
    OBVIOUS
  <2>2. Len(y) = 1
    BY <2>1
  <2>3. y # <<>> /\ y # EventLine /\ y # DataLine /\ y # LongLine
    <3>1. /\ Len(y) # Len(<<>>) /\ Len(y) # Len(EventLine)
          /\ Len(y) # Len(DataLine) /\ Len(y) # Len(LongLine)
      BY <1>1, <1>3, <2>2
    <3>2. QED
      BY <3>1, Zenon
  <2>4. QED
    BY <2>1, <2>3
<1>7. QED
  BY <1>1, <1>2, <1>4, <1>5, <1>6

LEMMA CutWord ==
    ASSUME NEW s, NEW f, NEW w \in Words0
    PROVE  OnWords(s, f, Cut(w)) = Effect(s, f, w)
<1>0. MaxLine \in Nat /\ MaxLine >= 2
  BY LimitsAssumption
<1>1. w \in Seq(Kinds)
  BY WordType
<1>2. CASE Len(w) <= MaxLine
  <2>1. Cut(w) = w
    BY <1>2 DEF Cut
  <2>2. w # <<>> /\ (w = LongLine => MaxLine >= 4)
    <3>1. Len(w) > 0 /\ Len(<<>>) = 0
      BY WordsPlain
    <3>2. Len(w) # Len(<<>>)
      BY <3>1
    <3>3. w # <<>>
      BY <3>2, Zenon
    <3>4. w = LongLine => Len(w) = 4
      BY WordsDiffer
    <3>5. w = LongLine => MaxLine >= 4
      BY <1>0, <1>2, <3>4
    <3>6. QED
      BY <3>3, <3>5
  <2>3. w \in {DataLine, LongLine} <=> (w = DataLine \/ (w = LongLine /\ MaxLine >= 4))
    BY <2>2
  <2>4. QED
    BY <2>1, <2>2, <2>3 DEF OnWords, Effect
<1>3. CASE ~ (Len(w) <= MaxLine)
  <2>1. w = LongLine /\ ~ (MaxLine >= 4)
    <3>1. \/ w = EventLine \/ w = DataLine \/ w = LongLine
          \/ w = <<"m">> \/ w = <<"n">> \/ w = <<"c">>
      BY DEF Words0
    <3>2. Len(w) > 2 /\ Len(w) \in Nat
      BY <1>0, <1>1, <1>3, LenProperties
    <3>3. w = LongLine
      <4>1. w = EventLine \/ w = DataLine => Len(w) = 2
        BY WordsDiffer
      <4>2. w = <<"m">> \/ w = <<"n">> \/ w = <<"c">> => Len(w) = 1
        BY Zenon, WordsDiffer
      <4>3. PICK n \in Nat : n = Len(w)
        BY <3>2
      <4>4. n # 2 /\ n # 1
        BY <3>2, <4>3
      <4>5. QED
        BY <3>1, <4>1, <4>2, <4>3, <4>4, Zenon
    <3>4. QED
      BY <1>0, <1>3, <3>3, WordsDiffer
  <2>2. PICK c : c = Cut(w)
    OBVIOUS
  <2>3. /\ Len(c) = MaxLine /\ \A k \in 1 .. MaxLine : c[k] = LongLine[k]
    <3>1. Len(w) >= MaxLine
      BY <1>0, <1>1, <1>3, LenProperties
    <3>2. QED
      BY <1>1, <2>1, <2>2, <3>1, CutIs
  <2>4. c[1] = "d1" /\ c[2] = "d" /\ Len(c) # 4 /\ Len(c) # 0
    <3>1. 1 \in 1 .. MaxLine /\ 2 \in 1 .. MaxLine
      BY <1>0
    <3>2. QED
      BY <1>0, <2>1, <2>3, <3>1, WordsDiffer
  <2>5. c # <<>> /\ c # EventLine /\ c # DataLine /\ c # LongLine
    <3>1. "d1" # "e1" /\ "d" # "d2" /\ Len(<<>>) = 0
      OBVIOUS
    <3>2. QED
      BY <2>4, <3>1, WordsDiffer, Zenon
  <2>6. OnWords(s, f, c) = Keep(s)
    BY <2>5 DEF OnWords
  <2>7. Effect(s, f, w) = Keep(s)
    BY <2>1, WordsDiffer DEF Effect
  <2>8. QED
    BY <2>2, <2>6, <2>7
<1>4. QED
  BY <1>2, <1>3

\* Between lines.
Rests(s) == s \in WState /\ s.line = <<>> /\ ~ s.found

LEMMA EffectRests ==
    ASSUME FramesFit, NEW f \in 1 .. NumFrames, NEW s, Rests(s), NEW w \in Words0
    PROVE  /\ Rests(Effect(s, f, w))
           /\ Watch(s, Mark(f, w \o Eol)) = Effect(s, f, w)
<1>1. s \in WState /\ s.line = <<>> /\ ~ s.found
  BY DEF Rests
<1>2. Rests(Effect(s, f, w))
  BY <1>1, EffectType DEF Effect, Rests
<1>3. w \in PlainText
  BY WordsPlain DEF PlainText
<1>4. QED
  BY <1>1, <1>2, <1>3, LineEffect, CutWord

LEMMA WatchLines ==
    ASSUME NEW f \in 1 .. NumFrames, NEW t \in Seq(Kinds), NEW u \in Seq(Kinds), NEW s
    PROVE  Watch(s, Mark(f, t \o u)) = Watch(Watch(s, Mark(f, t)), Mark(f, u))
<1>1. PICK a \in Seq(Byte), b \in Seq(Byte) : a = Mark(f, t) /\ b = Mark(f, u)
  BY MarkType
<1>2. Watch(s, a \o b) = Watch(Watch(s, a), b)
  BY WatchConcat
<1>3. QED
  BY <1>1, <1>2, MarkConcat

\* A text of whole lines leaves the terminator between lines.
Leads(f, t, s, u) == t \in Seq(Kinds) /\ Rests(u) /\ Watch(s, Mark(f, t)) = u

LEMMA OneLeads ==
    ASSUME FramesFit, NEW f \in 1 .. NumFrames, NEW s, Rests(s), NEW l \in Words0
    PROVE  Leads(f, l \o Eol, s, Effect(s, f, l))
<1>1. l \o Eol \in Seq(Kinds)
  BY WordType, EolIs, ConcatProperties
<1>2. QED
  BY <1>1, EffectRests DEF Leads

LEMMA MoreLeads ==
    ASSUME FramesFit, NEW f \in 1 .. NumFrames, NEW s, NEW t, NEW u, Leads(f, t, s, u),
           NEW l \in Words0
    PROVE  Leads(f, t \o (l \o Eol), s, Effect(u, f, l))
<1>1. t \in Seq(Kinds) /\ Rests(u) /\ Watch(s, Mark(f, t)) = u
  BY DEF Leads
<1>2. Leads(f, l \o Eol, u, Effect(u, f, l))
  BY <1>1, OneLeads
<1>3. l \o Eol \in Seq(Kinds) /\ Rests(Effect(u, f, l))
      /\ Watch(u, Mark(f, l \o Eol)) = Effect(u, f, l)
  BY <1>2 DEF Leads
<1>4. t \o (l \o Eol) \in Seq(Kinds)
  BY <1>1, <1>3, ConcatProperties
<1>5. Watch(s, Mark(f, t \o (l \o Eol))) = Effect(u, f, l)
  BY <1>1, <1>3, WatchLines
<1>6. QED
  BY <1>3, <1>4, <1>5 DEF Leads
-----------------------------------------------------------------------------
(* The verdict on a frame *)

\* What Init says of frames beside their type.
FramesSane ==
    \A f \in DOMAIN frames :
        /\ frames[f].layout = "comment" => ~ frames[f].last
        /\ ~ frames[f].typed => frames[f].last /\ frames[f].layout \in {"event data", "data event"}

\* UsageRecorded, of one frame.
Usage(f) ==
    /\ frames[f].layout \notin {"split", "event split"}
    /\ frames[f].typed \/ frames[f].layout = "event data"
    /\ \E l \in ToSet(LinesOf(frames[f].layout)) : l[1] = "d1" /\ Len(l) <= MaxLine

Verdict(f, u) ==
    /\ u.armed <=> Recognizable(f)
    /\ u.armed => u.terminal.frame = f /\ (u.terminal.usage <=> Usage(f))

LEMMA SetOfOne == ASSUME NEW a PROVE ToSet(<<a>>) = {a}
BY DEF ToSet

LEMMA SetOfTwo == ASSUME NEW a, NEW b PROVE ToSet(<<a, b>>) = {a, b}
<1>1. DOMAIN <<a, b>> = {1, 2} /\ <<a, b>>[1] = a /\ <<a, b>>[2] = b
  OBVIOUS
<1>2. PICK s : s = <<a, b>>
  OBVIOUS
<1>3. {s[i] : i \in {1, 2}} = {s[1], s[2]}
  OBVIOUS
<1>4. QED
  BY <1>1, <1>2, <1>3 DEF ToSet

LEMMA SetOfThree == ASSUME NEW a, NEW b, NEW c PROVE ToSet(<<a, b, c>>) = {a, b, c}
<1>1. DOMAIN <<a, b, c>> = {1, 2, 3}
  OBVIOUS
<1>2. PICK s : s = <<a, b, c>>
  OBVIOUS
<1>3. {s[i] : i \in {1, 2, 3}} = {s[1], s[2], s[3]}
  OBVIOUS
<1>4. s[1] = a /\ s[2] = b /\ s[3] = c
  BY <1>2
<1>5. QED
  BY <1>1, <1>2, <1>3, <1>4 DEF ToSet

\* The first words of the lines, and whether they fit.
LEMMA WordFirst ==
    /\ ~ (EventLine[1] = "d1") /\ DataLine[1] = "d1" /\ LongLine[1] = "d1"
    /\ \A x : x # "d1" => ~ (<<x>>[1] = "d1")
    /\ Len(DataLine) <= MaxLine /\ (Len(LongLine) <= MaxLine <=> MaxLine >= 4)
<1>1. \A x : <<x>>[1] = x
  OBVIOUS
<1>2. "e1" # "d1"
  OBVIOUS
<1>3. QED
  BY <1>1, <1>2, WordsDiffer, LimitsAssumption

HasEventLine(f) == EventLine \in ToSet(LinesOf(frames[f].layout))

HasDataLine(f) == \E l \in ToSet(LinesOf(frames[f].layout)) : l[1] = "d1" /\ Len(l) <= MaxLine

LEMMA LineFacts ==
    ASSUME NEW f
    PROVE  /\ frames[f].layout = "data" =>
                 /\ LinesOf(frames[f].layout) = <<DataLine>>
                 /\ ~ HasEventLine(f) /\ HasDataLine(f)
           /\ frames[f].layout = "event data" =>
                 /\ LinesOf(frames[f].layout) = <<EventLine, DataLine>>
                 /\ HasEventLine(f) /\ HasDataLine(f)
           /\ frames[f].layout = "data event" =>
                 /\ LinesOf(frames[f].layout) = <<DataLine, EventLine>>
                 /\ HasEventLine(f) /\ HasDataLine(f)
           /\ frames[f].layout = "split" =>
                 /\ LinesOf(frames[f].layout) = <<<<"m">>, <<"n">>>>
                 /\ ~ HasEventLine(f)
           /\ frames[f].layout = "event split" =>
                 /\ LinesOf(frames[f].layout) = <<EventLine, <<"m">>, <<"n">>>>
                 /\ HasEventLine(f)
           /\ frames[f].layout = "long" =>
                 /\ LinesOf(frames[f].layout) = <<LongLine>>
                 /\ ~ HasEventLine(f) /\ (HasDataLine(f) <=> MaxLine >= 4)
           /\ frames[f].layout = "event long" =>
                 /\ LinesOf(frames[f].layout) = <<EventLine, LongLine>>
                 /\ HasEventLine(f) /\ (HasDataLine(f) <=> MaxLine >= 4)
           /\ frames[f].layout = "long event" =>
                 /\ LinesOf(frames[f].layout) = <<LongLine, EventLine>>
                 /\ HasEventLine(f) /\ (HasDataLine(f) <=> MaxLine >= 4)
           /\ frames[f].layout = "comment" =>
                 /\ LinesOf(frames[f].layout) = <<<<"c">>>>
                 /\ ~ HasEventLine(f)
<1>1. CASE frames[f].layout = "data"
  <2>1. LinesOf(frames[f].layout) = <<DataLine>>
    BY <1>1 DEF LinesOf
  <2>2. ToSet(LinesOf(frames[f].layout)) = {DataLine}
    BY <2>1, SetOfOne
  <2>3. ~ HasEventLine(f) /\ HasDataLine(f)
    BY <2>2, WordsDiffer, WordFirst DEF HasEventLine, HasDataLine
  <2>4. QED
    BY <1>1, <2>1, <2>3
<1>2. CASE frames[f].layout = "event data"
  <2>1. LinesOf(frames[f].layout) = <<EventLine, DataLine>>
    BY <1>2 DEF LinesOf
  <2>2. ToSet(LinesOf(frames[f].layout)) = {EventLine, DataLine}
    BY <2>1, SetOfTwo
  <2>3. HasEventLine(f) /\ HasDataLine(f)
    BY <2>2, WordsDiffer, WordFirst DEF HasEventLine, HasDataLine
  <2>4. QED
    BY <1>2, <2>1, <2>3
<1>3. CASE frames[f].layout = "data event"
  <2>1. LinesOf(frames[f].layout) = <<DataLine, EventLine>>
    BY <1>3 DEF LinesOf
  <2>2. ToSet(LinesOf(frames[f].layout)) = {DataLine, EventLine}
    BY <2>1, SetOfTwo
  <2>3. HasEventLine(f) /\ HasDataLine(f)
    BY <2>2, WordsDiffer, WordFirst DEF HasEventLine, HasDataLine
  <2>4. QED
    BY <1>3, <2>1, <2>3
<1>4. CASE frames[f].layout = "split"
  <2>1. LinesOf(frames[f].layout) = <<<<"m">>, <<"n">>>>
    BY <1>4 DEF LinesOf
  <2>2. ToSet(LinesOf(frames[f].layout)) = {<<"m">>, <<"n">>}
    BY <2>1, SetOfTwo
  <2>3. ~ HasEventLine(f)
    BY <2>2, WordsDiffer DEF HasEventLine
  <2>4. QED
    BY <1>4, <2>1, <2>3
<1>5. CASE frames[f].layout = "event split"
  <2>1. LinesOf(frames[f].layout) = <<EventLine, <<"m">>, <<"n">>>>
    BY <1>5 DEF LinesOf
  <2>2. ToSet(LinesOf(frames[f].layout)) = {EventLine, <<"m">>, <<"n">>}
    BY <2>1, SetOfThree
  <2>3. HasEventLine(f)
    BY <2>2 DEF HasEventLine
  <2>4. QED
    BY <1>5, <2>1, <2>3
<1>6. CASE frames[f].layout = "long"
  <2>1. LinesOf(frames[f].layout) = <<LongLine>>
    BY <1>6 DEF LinesOf
  <2>2. ToSet(LinesOf(frames[f].layout)) = {LongLine}
    BY <2>1, SetOfOne
  <2>3. ~ HasEventLine(f) /\ (HasDataLine(f) <=> MaxLine >= 4)
    BY <2>2, WordsDiffer, WordFirst DEF HasEventLine, HasDataLine
  <2>4. QED
    BY <1>6, <2>1, <2>3
<1>7. CASE frames[f].layout = "event long"
  <2>1. LinesOf(frames[f].layout) = <<EventLine, LongLine>>
    BY <1>7 DEF LinesOf
  <2>2. ToSet(LinesOf(frames[f].layout)) = {EventLine, LongLine}
    BY <2>1, SetOfTwo
  <2>3. HasEventLine(f) /\ (HasDataLine(f) <=> MaxLine >= 4)
    BY <2>2, WordsDiffer, WordFirst DEF HasEventLine, HasDataLine
  <2>4. QED
    BY <1>7, <2>1, <2>3
<1>8. CASE frames[f].layout = "long event"
  <2>1. LinesOf(frames[f].layout) = <<LongLine, EventLine>>
    BY <1>8 DEF LinesOf
  <2>2. ToSet(LinesOf(frames[f].layout)) = {LongLine, EventLine}
    BY <2>1, SetOfTwo
  <2>3. HasEventLine(f) /\ (HasDataLine(f) <=> MaxLine >= 4)
    BY <2>2, WordsDiffer, WordFirst DEF HasEventLine, HasDataLine
  <2>4. QED
    BY <1>8, <2>1, <2>3
<1>9. CASE frames[f].layout = "comment"
  <2>1. LinesOf(frames[f].layout) = <<<<"c">>>>
    BY <1>9 DEF LinesOf
  <2>2. ToSet(LinesOf(frames[f].layout)) = {<<"c">>}
    BY <2>1, SetOfOne
  <2>3. ~ HasEventLine(f)
    BY <2>2, WordsDiffer DEF HasEventLine
  <2>4. QED
    BY <1>9, <2>1, <2>3
<1>10. QED
  BY <1>1, <1>2, <1>3, <1>4, <1>5, <1>6, <1>7, <1>8, <1>9
-----------------------------------------------------------------------------
LEMMA Effects ==
    ASSUME NEW s, NEW f
    PROVE  /\ Effect(s, f, EventLine) = OnEvent(s, f)
           /\ Effect(s, f, DataLine) = OnData(s, f)
           /\ MaxLine >= 4 => Effect(s, f, LongLine) = OnData(s, f)
           /\ ~ (MaxLine >= 4) => Effect(s, f, LongLine) = Keep(s)
           /\ \A x : Effect(s, f, <<x>>) = Keep(s)
<1>1. Effect(s, f, EventLine) = OnEvent(s, f)
  BY DEF Effect
<1>2. Effect(s, f, DataLine) = OnData(s, f)
  BY WordsDiffer DEF Effect
<1>3. MaxLine >= 4 => Effect(s, f, LongLine) = OnData(s, f)
  BY WordsDiffer DEF Effect
<1>4. ~ (MaxLine >= 4) => Effect(s, f, LongLine) = Keep(s)
  BY WordsDiffer DEF Effect
<1>5. ASSUME NEW x PROVE Effect(s, f, <<x>>) = Keep(s)
  <2>1. PICK y : y = <<x>>
    OBVIOUS
  <2>2. y # EventLine /\ y # DataLine /\ y # LongLine
    BY <2>1, WordsDiffer, Zenon
  <2>3. QED
    BY <2>1, <2>2 DEF Effect
<1>6. QED
  BY <1>1, <1>2, <1>3, <1>4, <1>5

\* What a line tells of the terminal event.
LEMMA ToldLast ==
    ASSUME NEW s, NEW f, frames[f].last
    PROVE  /\ OnEvent(s, f).armed = TRUE
           /\ s.terminal = NoTerminal => OnEvent(s, f).terminal = FromEvent(f, FALSE)
           /\ s.terminal # NoTerminal => OnEvent(s, f).terminal = s.terminal
BY DEF OnEvent, Unreturned

LEMMA ToldGoesOn ==
    ASSUME NEW s, NEW f, ~ frames[f].last
    PROVE  OnEvent(s, f).armed = FALSE /\ OnEvent(s, f).terminal = NoTerminal
BY DEF OnEvent, Unreturned

LEMMA ToldData ==
    ASSUME NEW s, NEW f, NamesTerminal(f) \/ s.armed
    PROVE  OnData(s, f).armed = TRUE /\ OnData(s, f).terminal = FromEvent(f, TRUE)
BY DEF OnData, Unreturned

LEMMA ToldNothing ==
    ASSUME NEW s, NEW f, ~ NamesTerminal(f), ~ s.armed
    PROVE  OnData(s, f).armed = FALSE /\ OnData(s, f).terminal = s.terminal
BY DEF OnData, Unreturned

LEMMA ToldKeep ==
    ASSUME NEW s
    PROVE  Keep(s).armed = s.armed /\ Keep(s).terminal = s.terminal
BY DEF Keep, Unreturned

\* A frame that is not the last tells nothing.
LEMMA Quiet ==
    ASSUME NEW s, NEW f, ~ frames[f].last, s.armed = FALSE, NEW w
    PROVE  Effect(s, f, w).armed = FALSE
<1>1. ~ NamesTerminal(f)
  BY DEF NamesTerminal
<1>2. OnEvent(s, f).armed = FALSE /\ OnData(s, f).armed = FALSE /\ Keep(s).armed = FALSE
  BY <1>1, ToldGoesOn, ToldNothing, ToldKeep
<1>3. QED
  BY <1>2 DEF Effect

LEMMA VerdictWhole ==
    ASSUME NEW f \in 1 .. NumFrames, NEW u, Recognizable(f), Usage(f),
           u.armed = TRUE, u.terminal = FromEvent(f, TRUE)
    PROVE  Verdict(f, u)
<1>1. u.terminal.frame = f /\ u.terminal.usage = TRUE
  BY DEF FromEvent
<1>2. QED
  BY <1>1 DEF Verdict

LEMMA VerdictPart ==
    ASSUME NEW f \in 1 .. NumFrames, NEW u, Recognizable(f), ~ Usage(f),
           u.armed = TRUE, u.terminal = FromEvent(f, FALSE)
    PROVE  Verdict(f, u)
<1>1. u.terminal.frame = f /\ u.terminal.usage = FALSE
  BY DEF FromEvent
<1>2. QED
  BY <1>1 DEF Verdict

LEMMA VerdictNone ==
    ASSUME NEW f \in 1 .. NumFrames, NEW u, ~ Recognizable(f), u.armed = FALSE
    PROVE  Verdict(f, u)
BY DEF Verdict

LEMMA NeutralTold ==
    /\ Rests(Neutral) /\ ~ Neutral.armed /\ Neutral.terminal = NoTerminal
    /\ Neutral.armed \in BOOLEAN
BY NeutralType DEF Neutral, Unreturned, Rests

LEMMA FromEventIs ==
    ASSUME NEW f \in 1 .. NumFrames, NEW w \in BOOLEAN
    PROVE  FromEvent(f, w) # NoTerminal /\ FromEvent(f, w).frame = f /\ FromEvent(f, w).usage = w
<1>1. f # 0
  BY LimitsAssumption
<1>2. FromEvent(f, w).frame = f /\ FromEvent(f, w).usage = w /\ NoTerminal.frame = 0
  BY DEF FromEvent, NoTerminal
<1>3. QED
  BY <1>1, <1>2

\* Whether a frame is recognized, layout by layout.
LEMMA RecognizedBy ==
    ASSUME NEW f, NEW lay, lay = frames[f].layout
    PROVE  /\ HasEventLine(f) => (Recognizable(f) <=> frames[f].last)
           /\ ~ HasEventLine(f) /\ lay = "data" =>
                 (Recognizable(f) <=> frames[f].last /\ frames[f].typed)
           /\ ~ HasEventLine(f) /\ lay = "long" =>
                 (Recognizable(f) <=> frames[f].last /\ frames[f].typed /\ MaxLine >= 4)
           /\ ~ HasEventLine(f) /\ lay \notin {"data", "long"} => ~ Recognizable(f)
<1>1. HasEventLine(f) => (Recognizable(f) <=> frames[f].last)
  BY DEF Recognizable, HasEventLine
<1>2. ~ HasEventLine(f) /\ lay \notin {"data", "long"} => ~ Recognizable(f)
  BY DEF Recognizable, HasEventLine
<1>3. lay = "data" => Len(LinesOf(lay)[1]) <= MaxLine
  <2>1. lay = "data" => LinesOf(lay)[1] = DataLine
    BY DEF LinesOf
  <2>2. QED
    BY <2>1, WordFirst
<1>4. lay = "long" => (Len(LinesOf(lay)[1]) <= MaxLine <=> MaxLine >= 4)
  <2>1. lay = "long" => LinesOf(lay)[1] = LongLine
    BY DEF LinesOf
  <2>2. QED
    BY <2>1, WordFirst
<1>5. QED
  BY <1>1, <1>2, <1>3, <1>4 DEF Recognizable, HasEventLine

LEMMA UsageBy ==
    ASSUME NEW f
    PROVE  Usage(f) <=> /\ frames[f].layout \notin {"split", "event split"}
                        /\ frames[f].typed \/ frames[f].layout = "event data"
                        /\ HasDataLine(f)
BY DEF Usage, HasDataLine

\* The lines of a frame leave the terminator with the verdict on it.
Judged(f) ==
    \E t, u : /\ TextWith(frames[f].layout, Eol) = t \o Eol
              /\ Leads(f, t, Neutral, u) /\ Verdict(f, u)

LEMMA JudgeOne ==
    ASSUME FramesFit, NEW f \in 1 .. NumFrames, NEW l \in Words0,
           LinesOf(frames[f].layout) = <<l>>, Verdict(f, Effect(Neutral, f, l))
    PROVE  Judged(f)
<1>1. TextWith(frames[f].layout, Eol) = (l \o Eol) \o Eol
  BY OneLine, WordType, EolIs
<1>2. Leads(f, l \o Eol, Neutral, Effect(Neutral, f, l))
  BY NeutralTold, OneLeads
<1>3. QED
  BY <1>1, <1>2 DEF Judged

LEMMA JudgeTwo ==
    ASSUME FramesFit, NEW f \in 1 .. NumFrames, NEW l \in Words0, NEW m \in Words0,
           LinesOf(frames[f].layout) = <<l, m>>,
           Verdict(f, Effect(Effect(Neutral, f, l), f, m))
    PROVE  Judged(f)
<1>1. TextWith(frames[f].layout, Eol) = ((l \o Eol) \o (m \o Eol)) \o Eol
  BY TwoLines, WordType, EolIs, ZenonT(60)
<1>2. Leads(f, l \o Eol, Neutral, Effect(Neutral, f, l))
  BY NeutralTold, OneLeads
<1>3. Leads(f, (l \o Eol) \o (m \o Eol), Neutral, Effect(Effect(Neutral, f, l), f, m))
  BY <1>2, MoreLeads
<1>4. QED
  BY <1>1, <1>3 DEF Judged

LEMMA JudgeThree ==
    ASSUME FramesFit, NEW f \in 1 .. NumFrames, NEW l \in Words0, NEW m \in Words0,
           NEW n \in Words0, HasLines(frames[f].layout, l, m, n),
           Verdict(f, Effect(Effect(Effect(Neutral, f, l), f, m), f, n))
    PROVE  Judged(f)
<1>1. TextWith(frames[f].layout, Eol) = ThreeLineText(l, m, n, Eol)
  <2>1. l \in Seq(Kinds) /\ m \in Seq(Kinds) /\ n \in Seq(Kinds) /\ Eol \in Seq(Kinds)
    BY WordType, EolIs
  <2>2. QED
    BY <2>1, ThreeLines
<1>2. Leads(f, l \o Eol, Neutral, Effect(Neutral, f, l))
  BY NeutralTold, OneLeads
<1>3. Leads(f, (l \o Eol) \o (m \o Eol), Neutral, Effect(Effect(Neutral, f, l), f, m))
  BY <1>2, MoreLeads
<1>4. Leads(f, ((l \o Eol) \o (m \o Eol)) \o (n \o Eol), Neutral,
            Effect(Effect(Effect(Neutral, f, l), f, m), f, n))
  BY <1>3, MoreLeads
<1>5. QED
  BY <1>1, <1>4 DEF Judged, ThreeLineText

LEMMA FrameJudged ==
    ASSUME FramesFit, FramesSane, NEW f \in 1 .. NumFrames
    PROVE  Judged(f)
<1>1. PICK lay : lay = frames[f].layout
  OBVIOUS
<1>2. /\ lay \in Layouts
      /\ lay = "comment" => ~ frames[f].last
      /\ ~ frames[f].typed => lay \in {"event data", "data event"}
  BY <1>1 DEF FramesFit, FramesSane, Frame
<1>3. /\ EventLine \in Words0 /\ DataLine \in Words0 /\ LongLine \in Words0
      /\ <<"m">> \in Words0 /\ <<"n">> \in Words0 /\ <<"c">> \in Words0
  BY DEF Words0
<1>4. Neutral.armed = FALSE /\ Neutral.terminal = NoTerminal
  BY NeutralTold
<1>5. FromEvent(f, TRUE) # NoTerminal /\ FromEvent(f, FALSE) # NoTerminal
  BY FromEventIs
<1>6. CASE ~ frames[f].last
  <2>1. ~ Recognizable(f)
    BY <1>6 DEF Recognizable
  <2>2. \A s, w : s.armed = FALSE => Effect(s, f, w).armed = FALSE
    BY <1>6, Quiet
  <2>3. ASSUME NEW l \in Words0, LinesOf(frames[f].layout) = <<l>> PROVE Judged(f)
    <3>1. Verdict(f, Effect(Neutral, f, l))
      BY <1>4, <2>1, <2>2, VerdictNone
    <3>2. QED
      BY <2>3, <3>1, JudgeOne
  <2>4. ASSUME NEW l \in Words0, NEW m \in Words0, LinesOf(frames[f].layout) = <<l, m>>
        PROVE  Judged(f)
    <3>1. Effect(Neutral, f, l).armed = FALSE
      BY <1>4, <2>2
    <3>2. Verdict(f, Effect(Effect(Neutral, f, l), f, m))
      BY <2>1, <2>2, <3>1, VerdictNone
    <3>3. QED
      BY <2>4, <3>2, JudgeTwo
  <2>5. ASSUME NEW l \in Words0, NEW m \in Words0, NEW n \in Words0,
               LinesOf(frames[f].layout) = <<l, m, n>>
        PROVE  Judged(f)
    <3>1. Effect(Neutral, f, l).armed = FALSE
      BY <1>4, <2>2
    <3>2. Effect(Effect(Neutral, f, l), f, m).armed = FALSE
      BY <2>2, <3>1
    <3>3. Verdict(f, Effect(Effect(Effect(Neutral, f, l), f, m), f, n))
      BY <2>1, <2>2, <3>2, VerdictNone
    <3>4. HasLines(frames[f].layout, l, m, n)
      BY <2>5 DEF HasLines
    <3>5. QED
      BY <3>3, <3>4, JudgeThree
  <2>6. QED
    BY <1>1, <1>2, <2>3, <2>4, <2>5, LayoutLines
<1>7. CASE frames[f].last
  <2>1. ASSUME frames[f].typed PROVE NamesTerminal(f)
    BY <1>7, <2>1 DEF NamesTerminal
  <2>2. ASSUME ~ frames[f].typed PROVE ~ NamesTerminal(f)
    BY <2>2 DEF NamesTerminal
  <2>3. \A s : OnEvent(s, f).armed = TRUE
    BY <1>7, ToldLast
  <2>4. OnEvent(Neutral, f).terminal = FromEvent(f, FALSE)
    BY <1>4, <1>7, ToldLast
  <2>5. CASE lay = "data"
    <3>1. LinesOf(lay) = <<DataLine>> /\ ~ HasEventLine(f) /\ HasDataLine(f) /\ frames[f].typed
      BY <1>1, <1>2, <2>5, LineFacts
    <3>2. Recognizable(f) /\ Usage(f)
      BY <1>1, <1>7, <2>5, <3>1, RecognizedBy, UsageBy
    <3>3. Verdict(f, OnData(Neutral, f))
      BY <2>1, <3>1, <3>2, ToldData, VerdictWhole
    <3>4. QED
      BY <1>1, <1>3, <3>1, <3>3, Effects, JudgeOne
  <2>6. CASE lay = "event data"
    <3>1. LinesOf(lay) = <<EventLine, DataLine>> /\ HasEventLine(f) /\ HasDataLine(f)
      BY <1>1, <2>6, LineFacts
    <3>2. Recognizable(f) /\ Usage(f)
      BY <1>1, <1>7, <2>6, <3>1, RecognizedBy, UsageBy
    <3>3. Verdict(f, OnData(OnEvent(Neutral, f), f))
      BY <2>3, <3>2, ToldData, VerdictWhole
    <3>4. QED
      BY <1>1, <1>3, <3>1, <3>3, Effects, JudgeTwo
  <2>7. CASE lay = "data event" /\ frames[f].typed
    <3>1. LinesOf(lay) = <<DataLine, EventLine>> /\ HasEventLine(f) /\ HasDataLine(f)
      BY <1>1, <2>7, LineFacts
    <3>2. Recognizable(f) /\ Usage(f)
      BY <1>1, <1>7, <2>7, <3>1, RecognizedBy, UsageBy
    <3>3. OnData(Neutral, f).terminal = FromEvent(f, TRUE)
      BY <2>1, <2>7, ToldData
    <3>4. OnEvent(OnData(Neutral, f), f).terminal = FromEvent(f, TRUE)
      BY <1>5, <1>7, <3>3, ToldLast
    <3>5. Verdict(f, OnEvent(OnData(Neutral, f), f))
      BY <2>3, <3>2, <3>4, VerdictWhole
    <3>6. QED
      BY <1>1, <1>3, <3>1, <3>5, Effects, JudgeTwo
  <2>8. CASE lay = "data event" /\ ~ frames[f].typed
    <3>1. LinesOf(lay) = <<DataLine, EventLine>> /\ HasEventLine(f)
      BY <1>1, <2>8, LineFacts
    <3>2. Recognizable(f) /\ ~ Usage(f)
      BY <1>1, <1>7, <2>8, <3>1, RecognizedBy, UsageBy
    <3>3. OnData(Neutral, f).terminal = NoTerminal
      BY <1>4, <2>2, <2>8, ToldNothing
    <3>4. OnEvent(OnData(Neutral, f), f).terminal = FromEvent(f, FALSE)
      BY <1>7, <3>3, ToldLast
    <3>5. Verdict(f, OnEvent(OnData(Neutral, f), f))
      BY <2>3, <3>2, <3>4, VerdictPart
    <3>6. QED
      BY <1>1, <1>3, <3>1, <3>5, Effects, JudgeTwo
  <2>9. CASE lay = "split"
    <3>1. LinesOf(lay) = <<<<"m">>, <<"n">>>> /\ ~ HasEventLine(f)
      BY <1>1, <2>9, LineFacts
    <3>2. ~ Recognizable(f)
      BY <1>1, <2>9, <3>1, RecognizedBy
    <3>3. Keep(Keep(Neutral)).armed = FALSE
      BY <1>4, ToldKeep
    <3>4. Verdict(f, Effect(Effect(Neutral, f, <<"m">>), f, <<"n">>))
      <4>1. Effect(Neutral, f, <<"m">>) = Keep(Neutral)
        BY Effects
      <4>2. Effect(Keep(Neutral), f, <<"n">>) = Keep(Keep(Neutral))
        BY Effects
      <4>3. Verdict(f, Keep(Keep(Neutral)))
        BY <3>2, <3>3, VerdictNone
      <4>4. QED
        BY <4>1, <4>2, <4>3
    <3>5. QED
      BY <1>1, <1>3, <3>1, <3>4, JudgeTwo
  <2>10. CASE lay = "event split"
    <3>1. LinesOf(lay) = <<EventLine, <<"m">>, <<"n">>>> /\ HasEventLine(f)
      BY <1>1, <2>10, LineFacts
    <3>2. Recognizable(f) /\ ~ Usage(f)
      BY <1>1, <1>7, <2>10, <3>1, RecognizedBy, UsageBy
    <3>3. /\ Keep(Keep(OnEvent(Neutral, f))).armed = TRUE
          /\ Keep(Keep(OnEvent(Neutral, f))).terminal = FromEvent(f, FALSE)
      BY <2>3, <2>4, ToldKeep
    <3>4. Effect(Effect(Effect(Neutral, f, EventLine), f, <<"m">>), f, <<"n">>)
            = Keep(Keep(OnEvent(Neutral, f)))
      <4>1. PICK s : s = OnEvent(Neutral, f)
        OBVIOUS
      <4>2. Effect(Neutral, f, EventLine) = s
        BY <4>1, Effects
      <4>3. Effect(s, f, <<"m">>) = Keep(s)
        BY Effects
      <4>4. Effect(Keep(s), f, <<"n">>) = Keep(Keep(s))
        BY Effects
      <4>5. QED
        BY <4>1, <4>2, <4>3, <4>4
    <3>5. Verdict(f, Effect(Effect(Effect(Neutral, f, EventLine), f, <<"m">>), f, <<"n">>))
      BY <3>2, <3>3, <3>4, VerdictPart
    <3>6. HasLines(frames[f].layout, EventLine, <<"m">>, <<"n">>)
      BY <1>1, <3>1 DEF HasLines
    <3>7. QED
      BY <1>3, <3>5, <3>6, JudgeThree
  <2>11. CASE lay = "long"
    <3>1. /\ LinesOf(lay) = <<LongLine>> /\ ~ HasEventLine(f) /\ frames[f].typed
          /\ HasDataLine(f) <=> MaxLine >= 4
      BY <1>1, <1>2, <2>11, LineFacts
    <3>2. CASE MaxLine >= 4
      <4>1. Recognizable(f) /\ Usage(f)
        BY <1>1, <1>7, <2>11, <3>1, <3>2, RecognizedBy, UsageBy
      <4>2. Verdict(f, OnData(Neutral, f))
        BY <2>1, <3>1, <4>1, ToldData, VerdictWhole
      <4>3. QED
        BY <1>1, <1>3, <3>1, <3>2, <4>2, Effects, JudgeOne
    <3>3. CASE ~ (MaxLine >= 4)
      <4>1. ~ Recognizable(f)
        BY <1>1, <2>11, <3>1, <3>3, RecognizedBy
      <4>2. Verdict(f, Keep(Neutral))
        BY <1>4, <4>1, ToldKeep, VerdictNone
      <4>3. QED
        BY <1>1, <1>3, <3>1, <3>3, <4>2, Effects, JudgeOne
    <3>4. QED
      BY <3>2, <3>3
  <2>12. CASE lay = "event long"
    <3>1. /\ LinesOf(lay) = <<EventLine, LongLine>> /\ HasEventLine(f) /\ frames[f].typed
          /\ HasDataLine(f) <=> MaxLine >= 4
      BY <1>1, <1>2, <2>12, LineFacts
    <3>2. Recognizable(f) /\ (Usage(f) <=> MaxLine >= 4)
      BY <1>1, <1>7, <2>12, <3>1, RecognizedBy, UsageBy
    <3>3. CASE MaxLine >= 4
      <4>1. Verdict(f, OnData(OnEvent(Neutral, f), f))
        BY <2>3, <3>2, <3>3, ToldData, VerdictWhole
      <4>2. QED
        BY <1>1, <1>3, <3>1, <3>3, <4>1, Effects, JudgeTwo
    <3>4. CASE ~ (MaxLine >= 4)
      <4>1. Verdict(f, Keep(OnEvent(Neutral, f)))
        BY <2>3, <2>4, <3>2, <3>4, ToldKeep, VerdictPart
      <4>2. QED
        BY <1>1, <1>3, <3>1, <3>4, <4>1, Effects, JudgeTwo
    <3>5. QED
      BY <3>3, <3>4
  <2>13. CASE lay = "long event"
    <3>1. /\ LinesOf(lay) = <<LongLine, EventLine>> /\ HasEventLine(f) /\ frames[f].typed
          /\ HasDataLine(f) <=> MaxLine >= 4
      BY <1>1, <1>2, <2>13, LineFacts
    <3>2. Recognizable(f) /\ (Usage(f) <=> MaxLine >= 4)
      BY <1>1, <1>7, <2>13, <3>1, RecognizedBy, UsageBy
    <3>3. CASE MaxLine >= 4
      <4>1. OnData(Neutral, f).terminal = FromEvent(f, TRUE)
        BY <2>1, <3>1, ToldData
      <4>2. OnEvent(OnData(Neutral, f), f).terminal = FromEvent(f, TRUE)
        BY <1>5, <1>7, <4>1, ToldLast
      <4>3. Verdict(f, OnEvent(OnData(Neutral, f), f))
        BY <2>3, <3>2, <3>3, <4>2, VerdictWhole
      <4>4. QED
        BY <1>1, <1>3, <3>1, <3>3, <4>3, Effects, JudgeTwo
    <3>4. CASE ~ (MaxLine >= 4)
      <4>1. Keep(Neutral).terminal = NoTerminal
        BY <1>4, ToldKeep
      <4>2. OnEvent(Keep(Neutral), f).terminal = FromEvent(f, FALSE)
        BY <1>7, <4>1, ToldLast
      <4>3. Verdict(f, OnEvent(Keep(Neutral), f))
        BY <2>3, <3>2, <3>4, <4>2, VerdictPart
      <4>4. QED
        BY <1>1, <1>3, <3>1, <3>4, <4>3, Effects, JudgeTwo
    <3>5. QED
      BY <3>3, <3>4
  <2>14. lay # "comment"
    BY <1>2, <1>7
  <2>15. QED
    BY <1>2, <2>5, <2>6, <2>7, <2>8, <2>9, <2>10, <2>11, <2>12, <2>13, <2>14 DEF Layouts
<1>8. QED
  BY <1>6, <1>7
-----------------------------------------------------------------------------
(* What the terminator makes of the bytes *)

LEMMA SubSeqIs ==
    ASSUME NEW T, NEW s \in Seq(T), NEW i \in Nat, NEW j \in Nat, i <= j, j <= Len(s)
    PROVE  /\ SubSeq(s, i + 1, j) \in Seq(T) /\ Len(SubSeq(s, i + 1, j)) = j - i
           /\ \A k \in 1 .. j - i : SubSeq(s, i + 1, j)[k] = s[i + k]
<1>1. Len(s) \in Nat
  BY LenProperties
<1>2. \A k \in i + 1 .. j : s[k] \in T
  BY <1>1, ElementOfSeq
<1>3. PICK a : a = i + 1
  OBVIOUS
<1>4. a \in Int /\ j \in Int /\ \A k \in a .. j : s[k] \in T
  BY <1>2, <1>3
<1>5. /\ SubSeq(s, a, j) \in Seq(T)
      /\ Len(SubSeq(s, a, j)) = IF a <= j THEN j - a + 1 ELSE 0
      /\ \A k \in 1 .. j - a + 1 : SubSeq(s, a, j)[k] = s[a + k - 1]
  BY <1>4, SubSeqProperties
<1>6. PICK u : u = SubSeq(s, a, j)
  OBVIOUS
<1>7. /\ u \in Seq(T) /\ Len(u) = (IF a <= j THEN j - a + 1 ELSE 0)
      /\ \A k \in 1 .. j - a + 1 : u[k] = s[a + k - 1]
  BY <1>5, <1>6
<1>8. Len(u) = j - i
  BY <1>3, <1>4, <1>7
<1>9. ASSUME NEW k \in 1 .. j - i PROVE u[k] = s[i + k]
  <2>1. k \in 1 .. j - a + 1 /\ a + k - 1 = i + k
    BY <1>3, <1>4
  <2>2. u[k] = s[a + k - 1]
    BY <1>7, <2>1
  <2>3. QED
    BY <2>1, <2>2
<1>10. QED
  BY <1>3, <1>6, <1>7, <1>8, <1>9

\* A part of a sequence may be cut anywhere.
LEMMA SubSeqSplit ==
    ASSUME NEW T, NEW s \in Seq(T), NEW i \in Nat, NEW j \in Nat, NEW k \in Nat,
           i <= j, j <= k, k <= Len(s)
    PROVE  SubSeq(s, i + 1, k) = SubSeq(s, i + 1, j) \o SubSeq(s, j + 1, k)
<1>0. Len(s) \in Nat
  BY LenProperties
<1>1. PICK a, b, c : a = SubSeq(s, i + 1, j) /\ b = SubSeq(s, j + 1, k) /\ c = SubSeq(s, i + 1, k)
  OBVIOUS
<1>2. /\ a \in Seq(T) /\ Len(a) = j - i
      /\ \A h \in 1 .. j - i : a[h] = s[i + h]
  <2>1. j <= Len(s)
    BY <1>0
  <2>2. QED
    BY <1>1, <2>1, SubSeqIs
<1>3. /\ b \in Seq(T) /\ Len(b) = k - j
      /\ \A h \in 1 .. k - j : b[h] = s[j + h]
  BY <1>1, SubSeqIs
<1>4. /\ c \in Seq(T) /\ Len(c) = k - i
      /\ \A h \in 1 .. k - i : c[h] = s[i + h]
  <2>1. i <= k
    BY <1>0
  <2>2. QED
    BY <1>1, <2>1, SubSeqIs
<1>5. PICK d : d = a \o b
  OBVIOUS
<1>6. /\ d \in Seq(T) /\ Len(d) = (j - i) + (k - j)
      /\ \A h \in 1 .. j - i : d[h] = a[h]
      /\ \A h \in 1 .. k - j : d[(j - i) + h] = b[h]
  <2>1. /\ d \in Seq(T) /\ Len(d) = Len(a) + Len(b)
        /\ \A h \in 1 .. Len(a) : d[h] = a[h]
        /\ \A h \in 1 .. Len(b) : d[Len(a) + h] = b[h]
    <3>1. a \in Seq(T) /\ b \in Seq(T)
      BY <1>2, <1>3
    <3>2. QED
      BY <1>5, <3>1, ConcatParts
  <2>2. Len(a) = j - i /\ Len(b) = k - j
    BY <1>2, <1>3
  <2>3. QED
    BY <2>1, <2>2
<1>7. ASSUME NEW h \in 1 .. k - i PROVE d[h] = c[h]
  <2>1. CASE h <= j - i
    <3>1. h \in 1 .. j - i
      BY <2>1
    <3>2. QED
      BY <1>2, <1>4, <1>6, <3>1
  <2>2. CASE ~ (h <= j - i)
    <3>1. PICK g \in 1 .. k - j : h = (j - i) + g
      <4>1. h - (j - i) \in 1 .. k - j /\ h = (j - i) + (h - (j - i))
        BY <2>2
      <4>2. QED
        BY <4>1
    <3>2. i + h = j + g
      BY <3>1
    <3>3. d[h] = b[g] /\ b[g] = s[j + g]
      BY <1>3, <1>6, <3>1
    <3>4. c[h] = s[i + h]
      BY <1>4
    <3>5. QED
      BY <3>2, <3>3, <3>4
  <2>3. QED
    BY <2>1, <2>2
<1>8. Len(d) = Len(c) /\ Len(c) \in Nat
  BY <1>4, <1>6
<1>9. \A h \in 1 .. Len(d) : d[h] = c[h]
  BY <1>4, <1>7, <1>8
<1>10. d = c
  BY <1>4, <1>6, <1>8, <1>9, SeqEqual
<1>11. QED
  BY <1>1, <1>5, <1>10

\* Once something is found it stays found.
LEMMA FoundStays ==
    ASSUME NEW T, NEW c \in Seq(T), NEW d \in Seq(T), NEW s, ~ Watch(s, c \o d).found
    PROVE  ~ Watch(s, c).found
<1>1. SUFFICES ASSUME Watch(s, c).found PROVE FALSE
  OBVIOUS
<1>2. Watch(s, c \o d) = Watch(Watch(s, c), d)
  BY WatchConcat
<1>3. Watch(Watch(s, c), d) = Watch(s, c)
  <2>1. PICK x : x = Watch(s, c)
    OBVIOUS
  <2>2. x.found
    BY <1>1, <2>1
  <2>3. Watch(x, d) = x
    BY <2>2, WatchFound
  <2>4. QED
    BY <2>1, <2>3
<1>4. QED
  BY <1>1, <1>2, <1>3

LEMMA BlankLineIs ==
    ASSUME NEW u \in WState
    PROVE  /\ u.armed => BlankLine(u).found = TRUE /\ BlankLine(u).terminal = u.terminal
           /\ ~ u.armed => BlankLine(u) = Neutral
<1>1. u.armed \in BOOLEAN
  BY DEF WState
<1>2. CASE u.armed
  <2>1. u.armed = TRUE
    BY <1>1, <1>2
  <2>2. BlankLine(u).found = TRUE /\ BlankLine(u).terminal = u.terminal
    BY <2>1 DEF BlankLine, Unreturned
  <2>3. QED
    BY <1>2, <2>2
<1>3. CASE ~ u.armed
  <2>1. u.armed = FALSE
    BY <1>1, <1>3
  <2>2. BlankLine(u) = Neutral
    <3>1. BlankLine(u) = [Neutral EXCEPT !.found = FALSE]
      BY <2>1 DEF BlankLine, Neutral
    <3>2. Neutral = [line |-> <<>>, armed |-> FALSE, terminal |-> NoTerminal, found |-> FALSE]
      BY DEF Neutral, Unreturned
    <3>3. QED
      BY <3>1, <3>2
  <2>3. QED
    BY <1>3, <2>2
<1>4. QED
  BY <1>2, <1>3

\* What a frame adds up to: its verdict at its last byte, nothing before.
Recognized(f, w) == w.found /\ w.terminal.frame = f /\ (w.terminal.usage <=> Usage(f))

LEMMA FrameWatched ==
    ASSUME FramesFit, FramesSane, NEW f \in 1 .. NumFrames
    PROVE  /\ Recognizable(f) => Recognized(f, Watch(Neutral, BytesOf(f)))
           /\ ~ Recognizable(f) => Watch(Neutral, BytesOf(f)) = Neutral
           /\ \E front \in Seq(Byte), b \in Byte :
                 BytesOf(f) = Append(front, b) /\ ~ Watch(Neutral, front).found
<1>1. PICK t, u : /\ TextWith(frames[f].layout, Eol) = t \o Eol
                  /\ Leads(f, t, Neutral, u) /\ Verdict(f, u)
  BY FrameJudged DEF Judged
<1>2. BytesOf(f) = Mark(f, t \o Eol)
  BY <1>1, FrameIs
<1>3. t \in Seq(Kinds) /\ Rests(u) /\ Watch(Neutral, Mark(f, t)) = u
  BY <1>1 DEF Leads
<1>4. u \in WState /\ u.line = <<>> /\ ~ u.found
  BY <1>3 DEF Rests
<1>5. <<>> \in PlainText
  BY EmptySeq DEF PlainText
<1>6. PICK c \in Seq(Kinds) : /\ c = Body(<<>>) /\ <<>> \o Eol = Append(c, "lf")
  BY <1>5, BodyIs
<1>7. Eol \in Seq(Kinds) /\ <<>> \o Eol = Eol
  BY EolIs, ConcatEmptySeq
<1>8. Watch(u, Mark(f, Eol)) = BlankLine(u) /\ ~ Watch(u, Mark(f, c)).found
  <2>1. /\ Watch(u, Mark(f, <<>> \o Eol)) = OnWords(u, f, Cut(<<>>))
        /\ ~ Watch(u, Mark(f, Body(<<>>))).found
    BY <1>4, <1>5, LineEffect
  <2>2. Cut(<<>>) = <<>>
    BY LimitsAssumption, EmptySeq DEF Cut
  <2>3. OnWords(u, f, <<>>) = BlankLine(u)
    BY DEF OnWords
  <2>4. QED
    BY <1>6, <1>7, <2>1, <2>2, <2>3
<1>9. Watch(Neutral, BytesOf(f)) = BlankLine(u)
  <2>1. Watch(Neutral, Mark(f, t \o Eol)) = Watch(Watch(Neutral, Mark(f, t)), Mark(f, Eol))
    BY <1>3, <1>7, WatchLines
  <2>2. QED
    BY <1>2, <1>3, <1>8, <2>1
<1>10. Recognizable(f) => Recognized(f, Watch(Neutral, BytesOf(f)))
  <2>1. SUFFICES ASSUME Recognizable(f) PROVE Recognized(f, BlankLine(u))
    BY <1>9
  <2>2. u.armed /\ u.terminal.frame = f /\ (u.terminal.usage <=> Usage(f))
    BY <1>1, <2>1 DEF Verdict
  <2>3. BlankLine(u).found /\ BlankLine(u).terminal = u.terminal
    BY <1>4, <2>2, BlankLineIs
  <2>4. QED
    BY <2>2, <2>3 DEF Recognized
<1>11. ~ Recognizable(f) => Watch(Neutral, BytesOf(f)) = Neutral
  <2>1. ~ Recognizable(f) => ~ u.armed
    BY <1>1 DEF Verdict
  <2>2. QED
    BY <1>4, <1>9, <2>1, BlankLineIs
<1>12. \E front \in Seq(Byte), b \in Byte :
          BytesOf(f) = Append(front, b) /\ ~ Watch(Neutral, front).found
  <2>1. t \o c \in Seq(Kinds) /\ "lf" \in Kinds
    BY <1>3, ConcatProperties DEF Kinds
  <2>2. t \o Eol = Append(t \o c, "lf")
    <3>1. t \o Append(c, "lf") = Append(t \o c, "lf")
      BY <1>3, <2>1
    <3>2. QED
      BY <1>6, <1>7, <3>1
  <2>3. Mark(f, Append(t \o c, "lf")) = Append(Mark(f, t \o c), <<f, "lf">>)
    BY <2>1, MarkAppend
  <2>4. Mark(f, t \o c) \in Seq(Byte) /\ <<f, "lf">> \in Byte
    BY <2>1, MarkType DEF Byte
  <2>5. ~ Watch(Neutral, Mark(f, t \o c)).found
    <3>1. Watch(Neutral, Mark(f, t \o c)) = Watch(Watch(Neutral, Mark(f, t)), Mark(f, c))
      BY <1>3, WatchLines
    <3>2. QED
      BY <1>3, <1>8, <3>1
  <2>6. QED
    BY <1>2, <2>2, <2>3, <2>4, <2>5
<1>13. QED
  BY <1>10, <1>11, <1>12

\* Before its last byte nothing is found.
LEMMA NotYetFound ==
    ASSUME FramesFit, FramesSane, NEW f \in 1 .. NumFrames,
           NEW k \in Nat, k < Len(BytesOf(f))
    PROVE  /\ SubSeq(BytesOf(f), 1, k) \in Seq(Byte)
           /\ ~ Watch(Neutral, SubSeq(BytesOf(f), 1, k)).found
<1>1. PICK front \in Seq(Byte), b \in Byte :
          BytesOf(f) = Append(front, b) /\ ~ Watch(Neutral, front).found
  BY FrameWatched
<1>2. PICK n \in Nat, s \in Seq(Byte) : n = Len(front) /\ s = BytesOf(f)
  BY BytesOfType, LenProperties
<1>3. Len(s) = n + 1 /\ SubSeq(s, 1, n) = front
  BY <1>1, <1>2, AppendProperties, FrontOfAppend
<1>4. SubSeq(s, 0 + 1, n) = SubSeq(s, 0 + 1, k) \o SubSeq(s, k + 1, n)
  <2>1. 0 <= k /\ k <= n /\ n <= Len(s)
    BY <1>2, <1>3
  <2>2. QED
    BY <2>1, SubSeqSplit
<1>5. SubSeq(s, 0 + 1, k) \in Seq(Byte) /\ SubSeq(s, k + 1, n) \in Seq(Byte)
  <2>1. 0 <= k /\ k <= Len(s) /\ k <= n /\ n <= Len(s)
    BY <1>2, <1>3
  <2>2. QED
    BY <2>1, SubSeqIs
<1>6. PICK c \in Seq(Byte), d \in Seq(Byte) : c = SubSeq(s, 1, k) /\ d = SubSeq(s, k + 1, n)
  <2>1. 0 + 1 = 1
    OBVIOUS
  <2>2. SubSeq(s, 1, k) \in Seq(Byte) /\ SubSeq(s, k + 1, n) \in Seq(Byte)
    BY <1>5, <2>1, Zenon
  <2>3. QED
    BY <2>2, Zenon
<1>7. front = c \o d
  <2>1. 0 + 1 = 1
    OBVIOUS
  <2>2. SubSeq(s, 1, n) = SubSeq(s, 1, k) \o SubSeq(s, k + 1, n)
    BY <1>4, <2>1, Zenon
  <2>3. QED
    BY <1>3, <1>6, <2>2, Zenon
<1>8. ~ Watch(Neutral, c).found
  BY <1>1, <1>7, FoundStays
<1>9. QED
  BY <1>2, <1>6, <1>8
-----------------------------------------------------------------------------
(* The bytes sent, and what is behind the complete frames *)

Sofar(s) == SubSeq(Bytes, 1, s)
Tailing(n, s) == SubSeq(Bytes, Until(n) + 1, s)

LEMMA ZeroOne == 0 + 1 = 1
OBVIOUS

LEMMA SofarSplit ==
    ASSUME FramesFit, NEW i \in Nat, NEW s \in Nat, i <= s, s <= Len(Bytes)
    PROVE  /\ Sofar(s) \in Seq(Byte) /\ Len(Sofar(s)) = s
           /\ Sofar(i) \in Seq(Byte) /\ SubSeq(Bytes, i + 1, s) \in Seq(Byte)
           /\ Sofar(s) = Sofar(i) \o SubSeq(Bytes, i + 1, s)
<1>1. Bytes \in Seq(Byte) /\ Len(Bytes) \in Nat
  BY BytesType
<1>2. PICK b \in Seq(Byte) : b = Bytes
  BY <1>1
<1>3. i <= Len(b) /\ s <= Len(b) /\ 0 <= i /\ 0 <= s /\ i <= s
  BY <1>1, <1>2
<1>4. SubSeq(b, 0 + 1, s) = SubSeq(b, 0 + 1, i) \o SubSeq(b, i + 1, s)
  BY <1>3, SubSeqSplit
<1>5. /\ SubSeq(b, 0 + 1, s) \in Seq(Byte) /\ Len(SubSeq(b, 0 + 1, s)) = s - 0
      /\ SubSeq(b, 0 + 1, i) \in Seq(Byte) /\ SubSeq(b, i + 1, s) \in Seq(Byte)
  BY <1>3, SubSeqIs
<1>6. s - 0 = s
  OBVIOUS
<1>7. QED
  BY <1>2, <1>4, <1>5, <1>6, ZeroOne, Zenon DEF Sofar

\* The first frames are at the front.
LEMMA SofarUpto ==
    ASSUME FramesFit, NEW n \in 0 .. NumFrames
    PROVE  /\ Until(n) \in Nat /\ Until(n) <= Len(Bytes) /\ Sofar(Until(n)) = Upto(n)
           /\ Upto(n) \in Seq(Byte)
<1>0. NumFrames \in Nat /\ NumFrames \in n .. NumFrames
  BY LimitsAssumption
<1>1. PICK r \in Seq(Byte) : Upto(NumFrames) = Upto(n) \o r
  BY <1>0, UptoPrefix
<1>2. PICK a \in Seq(Byte), b \in {Bytes}, k \in Nat : a = Upto(n) /\ b = Bytes /\ k = Until(n)
  BY UptoStep
<1>3. b = a \o r /\ Len(a) = k
  BY <1>1, <1>2, UptoIs
<1>4. b \in Seq(Byte) /\ Len(b) = k + Len(r) /\ Len(r) \in Nat /\ \A i \in 1 .. k : b[i] = a[i]
  BY <1>3, ConcatParts
<1>5. k <= Len(b) /\ 0 <= k
  BY <1>4
<1>6. PICK u : u = SubSeq(b, 1, k)
  OBVIOUS
<1>7. /\ u \in Seq(Byte) /\ Len(u) = k
      /\ \A i \in 1 .. k : u[i] = b[i]
  <2>1. /\ SubSeq(b, 0 + 1, k) \in Seq(Byte) /\ Len(SubSeq(b, 0 + 1, k)) = k - 0
        /\ \A i \in 1 .. k - 0 : SubSeq(b, 0 + 1, k)[i] = b[0 + i]
    BY <1>4, <1>5, SubSeqIs
  <2>2. SubSeq(b, 0 + 1, k) = u
    BY <1>6, ZeroOne, Zenon
  <2>3. k - 0 = k /\ \A i \in 1 .. k : 0 + i = i
    OBVIOUS
  <2>4. /\ u \in Seq(Byte) /\ Len(u) = k - 0
        /\ \A i \in 1 .. k - 0 : u[i] = b[0 + i]
    BY <2>1, <2>2, Zenon
  <2>5. QED
    BY <2>3, <2>4
<1>8. \A i \in 1 .. Len(u) : u[i] = a[i]
  BY <1>4, <1>7
<1>9. u = a
  BY <1>3, <1>7, <1>8, SeqEqual
<1>10. QED
  BY <1>2, <1>5, <1>6, <1>9 DEF Sofar

\* Behind n frames is the beginning of the next one.
LEMMA TailingIs ==
    ASSUME FramesFit, NEW n \in 0 .. NumFrames - 1, NEW s \in Nat,
           Until(n) <= s, s <= Until(n + 1)
    PROVE  /\ Tailing(n, s) = SubSeq(BytesOf(n + 1), 1, s - Until(n))
           /\ s - Until(n) \in Nat /\ s - Until(n) <= Len(BytesOf(n + 1))
           /\ s <= Len(Bytes)
<1>0. NumFrames \in Nat /\ n \in 0 .. NumFrames /\ n + 1 \in 1 .. NumFrames
  BY LimitsAssumption
<1>1. PICK b \in Seq(Byte), f \in Seq(Byte), k \in Nat :
          b = Bytes /\ f = BytesOf(n + 1) /\ k = Until(n)
  BY <1>0, BytesType, BytesOfType, UptoStep
<1>2. /\ Until(n + 1) = k + Len(f) /\ Until(n + 1) <= Len(b)
      /\ \A i \in 1 .. Len(f) : b[k + i] = f[i]
  BY <1>1, BytesAt
<1>3. Len(b) \in Nat /\ Len(f) \in Nat
  BY LenProperties
<1>4. PICK d \in Nat : d = s - k
  BY <1>1
<1>5. k <= s /\ s <= Len(b) /\ d <= Len(f) /\ 0 <= d
  BY <1>1, <1>2, <1>3, <1>4
<1>6. PICK u, v : u = SubSeq(b, k + 1, s) /\ v = SubSeq(f, 1, d)
  OBVIOUS
<1>7. u \in Seq(Byte) /\ Len(u) = d /\ \A i \in 1 .. d : u[i] = b[k + i]
  <2>1. /\ SubSeq(b, k + 1, s) \in Seq(Byte) /\ Len(SubSeq(b, k + 1, s)) = s - k
        /\ \A i \in 1 .. s - k : SubSeq(b, k + 1, s)[i] = b[k + i]
    BY <1>5, SubSeqIs
  <2>2. QED
    BY <1>4, <1>6, <2>1
<1>8. v \in Seq(Byte) /\ Len(v) = d /\ \A i \in 1 .. d : v[i] = f[i]
  <2>1. /\ SubSeq(f, 0 + 1, d) \in Seq(Byte) /\ Len(SubSeq(f, 0 + 1, d)) = d - 0
        /\ \A i \in 1 .. d - 0 : SubSeq(f, 0 + 1, d)[i] = f[0 + i]
    BY <1>5, SubSeqIs
  <2>2. SubSeq(f, 0 + 1, d) = v
    BY <1>6, ZeroOne, Zenon
  <2>3. d - 0 = d /\ \A i \in 1 .. d : 0 + i = i
    OBVIOUS
  <2>4. /\ v \in Seq(Byte) /\ Len(v) = d - 0
        /\ \A i \in 1 .. d - 0 : v[i] = f[0 + i]
    BY <2>1, <2>2, Zenon
  <2>5. QED
    BY <2>3, <2>4
<1>9. \A i \in 1 .. d : b[k + i] = f[i]
  <2>1. PICK m \in Nat : m = Len(f)
    BY <1>3
  <2>2. d <= m /\ \A i \in 1 .. m : b[k + i] = f[i]
    BY <1>2, <1>5, <2>1
  <2>3. QED
    BY <2>2
<1>10. \A i \in 1 .. Len(u) : u[i] = v[i]
  BY <1>7, <1>8, <1>9
<1>11. u = v
  BY <1>7, <1>8, <1>10, SeqEqual
<1>12. QED
  BY <1>1, <1>4, <1>5, <1>6, <1>11 DEF Tailing

\* The first of the frames up to n that is recognized.
FirstKnown(f, n) ==
    f \in 1 .. n /\ Recognizable(f) /\ \A g \in 1 .. f - 1 : ~ Recognizable(g)

NoneKnown(n) == \A g \in 1 .. n : ~ Recognizable(g)

LEMMA KnownStep ==
    ASSUME NEW n \in Nat
    PROVE  /\ NoneKnown(0)
           /\ NoneKnown(n) /\ ~ Recognizable(n + 1) => NoneKnown(n + 1)
           /\ NoneKnown(n) /\ Recognizable(n + 1) => FirstKnown(n + 1, n + 1)
           /\ \A f : FirstKnown(f, n) => FirstKnown(f, n + 1)
<1>1. NoneKnown(0)
  BY DEF NoneKnown
<1>2. NoneKnown(n) /\ ~ Recognizable(n + 1) => NoneKnown(n + 1)
  <2>1. \A g \in 1 .. n + 1 : g \in 1 .. n \/ g = n + 1
    OBVIOUS
  <2>2. QED
    BY <2>1 DEF NoneKnown
<1>3. NoneKnown(n) /\ Recognizable(n + 1) => FirstKnown(n + 1, n + 1)
  <2>1. n + 1 - 1 = n /\ n + 1 \in 1 .. n + 1
    OBVIOUS
  <2>2. QED
    BY <2>1 DEF NoneKnown, FirstKnown
<1>4. \A f : FirstKnown(f, n) => FirstKnown(f, n + 1)
  BY DEF FirstKnown
<1>5. QED
  BY <1>1, <1>2, <1>3, <1>4

\* After n frames the terminator has found the first that it can tell, or is
\* as at the start.
Found(n, w) == \E f : FirstKnown(f, n) /\ Recognized(f, w)

LEMMA UptoWatched ==
    ASSUME FramesFit, FramesSane, NEW n \in 0 .. NumFrames
    PROVE  \/ NoneKnown(n) /\ Watch(Neutral, Upto(n)) = Neutral
           \/ Found(n, Watch(Neutral, Upto(n)))
<1>0. NumFrames \in Nat
  BY LimitsAssumption
<1> DEFINE S == {m \in Nat : m \in 0 .. NumFrames =>
                    \/ NoneKnown(m) /\ Watch(Neutral, Upto(m)) = Neutral
                    \/ Found(m, Watch(Neutral, Upto(m)))}
<1>1. 0 \in S
  BY UptoStep, WatchEmpty, KnownStep
<1>2. ASSUME NEW m \in Nat, m \in S PROVE m + 1 \in S
  <2>1. SUFFICES ASSUME m + 1 \in 0 .. NumFrames
                 PROVE  \/ NoneKnown(m + 1) /\ Watch(Neutral, Upto(m + 1)) = Neutral
                        \/ Found(m + 1, Watch(Neutral, Upto(m + 1)))
    OBVIOUS
  <2>2. m \in 0 .. NumFrames /\ m \in 0 .. NumFrames - 1 /\ m + 1 \in 1 .. NumFrames
    BY <1>0, <2>1
  <2>3. PICK a \in Seq(Byte), b \in Seq(Byte) : a = Upto(m) /\ b = BytesOf(m + 1)
    BY <2>2, UptoStep, BytesOfType
  <2>4. Upto(m + 1) = a \o b
    BY <2>2, <2>3, UptoStep
  <2>5. Watch(Neutral, a \o b) = Watch(Watch(Neutral, a), b)
    BY WatchConcat
  <2>6. CASE NoneKnown(m) /\ Watch(Neutral, a) = Neutral
    <3>1. Watch(Neutral, Upto(m + 1)) = Watch(Neutral, b)
      BY <2>4, <2>5, <2>6
    <3>2. CASE Recognizable(m + 1)
      <4>1. Recognized(m + 1, Watch(Neutral, b))
        BY <2>2, <2>3, <3>2, FrameWatched
      <4>2. FirstKnown(m + 1, m + 1)
        BY <2>6, <3>2, KnownStep
      <4>3. QED
        BY <3>1, <4>1, <4>2 DEF Found
    <3>3. CASE ~ Recognizable(m + 1)
      <4>1. Watch(Neutral, b) = Neutral
        BY <2>2, <2>3, <3>3, FrameWatched
      <4>2. NoneKnown(m + 1)
        BY <2>6, <3>3, KnownStep
      <4>3. QED
        BY <3>1, <4>1, <4>2
    <3>4. QED
      BY <3>2, <3>3
  <2>7. CASE Found(m, Watch(Neutral, a))
    <3>1. PICK f : FirstKnown(f, m) /\ Recognized(f, Watch(Neutral, a))
      BY <2>7 DEF Found
    <3>2. PICK x : x = Watch(Neutral, a)
      OBVIOUS
    <3>3. x.found
      BY <3>1, <3>2 DEF Recognized
    <3>4. Watch(x, b) = x
      BY <3>3, WatchFound
    <3>5. Recognized(f, Watch(Neutral, Upto(m + 1)))
      BY <2>4, <2>5, <3>1, <3>2, <3>4
    <3>6. FirstKnown(f, m + 1)
      BY <3>1, KnownStep
    <3>7. QED
      BY <3>5, <3>6 DEF Found
  <2>8. QED
    BY <1>2, <2>2, <2>3, <2>6, <2>7
<1>3. Nat \subseteq S
  <2> HIDE DEF S
  <2>1. QED
    BY <1>1, <1>2, NatInductionSet
<1>4. n \in S
  <2> HIDE DEF S
  <2>1. QED
    BY <1>0, <1>3
<1>5. QED
  BY <1>4

\* At any position the terminator has found the first frame it can tell among
\* those that are complete, and nothing when there is none.
LEMMA WatchedAt ==
    ASSUME FramesFit, FramesSane, NEW s \in Nat, s <= Len(Bytes), NEW n, At(n, s)
    PROVE  \/ NoneKnown(n) /\ ~ Watch(Neutral, Sofar(s)).found
           \/ Found(n, Watch(Neutral, Sofar(s)))
<1>0. NumFrames \in Nat /\ n \in 0 .. NumFrames /\ Until(n) <= s
  BY LimitsAssumption DEF At
<1>1. Until(n) \in Nat /\ Sofar(Until(n)) = Upto(n)
  BY <1>0, SofarUpto
<1>2. Sofar(s) = Upto(n) \o Tailing(n, s) /\ Upto(n) \in Seq(Byte) /\ Tailing(n, s) \in Seq(Byte)
  BY <1>0, <1>1, SofarSplit DEF Tailing
<1>3. PICK a \in Seq(Byte), b \in Seq(Byte) : a = Upto(n) /\ b = Tailing(n, s)
  BY <1>2
<1>4. Watch(Neutral, a \o b) = Watch(Watch(Neutral, a), b)
  BY WatchConcat
<1>5. CASE NoneKnown(n) /\ Watch(Neutral, a) = Neutral
  <2>1. Watch(Neutral, Sofar(s)) = Watch(Neutral, b)
    BY <1>2, <1>3, <1>4, <1>5
  <2>2. ~ Watch(Neutral, b).found
    <3>1. CASE n < NumFrames
      <4>1. n \in 0 .. NumFrames - 1 /\ n + 1 \in 1 .. NumFrames /\ s < Until(n + 1)
        BY <1>0, <3>1 DEF At
      <4>2. Until(n + 1) = Until(n) + Len(BytesOf(n + 1)) /\ Len(BytesOf(n + 1)) \in Nat
        BY <4>1, UptoStep, BytesOfType
      <4>3. PICK k \in Nat : k = s - Until(n)
        BY <1>0, <1>1
      <4>4. k < Len(BytesOf(n + 1)) /\ s <= Until(n + 1)
        BY <1>1, <4>1, <4>2, <4>3
      <4>5. b = SubSeq(BytesOf(n + 1), 1, k)
        BY <1>0, <1>3, <4>1, <4>3, <4>4, TailingIs
      <4>6. QED
        BY <4>1, <4>4, <4>5, NotYetFound
    <3>2. CASE n = NumFrames
      <4>1. s = Until(n)
        BY <1>0, <1>1, <3>2, BytesType
      <4>2. b = <<>>
        <5>1. Len(Sofar(s)) = s /\ Len(a) = s
          BY <1>1, <1>3, <4>1, SofarSplit, UptoIs
        <5>2. Len(a \o b) = Len(a) + Len(b) /\ Len(b) \in Nat
          BY ConcatParts
        <5>3. Len(b) = 0
          BY <1>2, <1>3, <5>1, <5>2
        <5>4. QED
          BY <5>3, EmptySeq
      <4>3. QED
        BY <4>2, WatchEmpty, NeutralType
    <3>3. QED
      BY <1>0, <3>1, <3>2
  <2>3. QED
    BY <1>5, <2>1, <2>2
<1>6. CASE Found(n, Watch(Neutral, a))
  <2>1. PICK x : x = Watch(Neutral, a)
    OBVIOUS
  <2>2. x.found
    BY <1>6, <2>1 DEF Found, Recognized
  <2>3. Watch(x, b) = x
    BY <2>2, WatchFound
  <2>4. Watch(Neutral, Sofar(s)) = x
    BY <1>2, <1>3, <1>4, <2>1, <2>3
  <2>5. QED
    BY <1>6, <2>1, <2>4
<1>7. QED
  BY <1>0, <1>3, <1>5, <1>6, UptoWatched
-----------------------------------------------------------------------------
(* The terminator's state has its type *)

LEMMA OnLineType ==
    ASSUME FramesFit, NEW s \in WState
    PROVE  OnLine(s) \in WState
<1>1. PICK l \in Seq(Byte) : l = Stripped(s.line)
  <2>1. s.line \in Seq(Byte) /\ Len(s.line) \in Nat
    BY LenProperties DEF WState, Lines
  <2>2. s.line # <<>> => SubSeq(s.line, 1, Len(s.line) - 1) \in Seq(Byte)
    <3>1. SUFFICES ASSUME s.line # <<>> PROVE SubSeq(s.line, 1, Len(s.line) - 1) \in Seq(Byte)
      OBVIOUS
    <3>2. PICK l \in Seq(Byte), k \in Nat : l = s.line /\ k = Len(s.line) - 1 /\ k <= Len(l)
      <4>1. Len(s.line) > 0
        BY <2>1, <3>1, EmptySeq
      <4>2. Len(s.line) - 1 \in Nat /\ Len(s.line) - 1 <= Len(s.line)
        BY <2>1, <4>1
      <4>3. QED
        BY <2>1, <4>2
    <3>3. SubSeq(l, 0 + 1, k) \in Seq(Byte)
      <4>1. 0 <= k
        OBVIOUS
      <4>2. QED
        BY <3>2, <4>1, SubSeqIs
    <3>4. QED
      BY <3>2, <3>3, ZeroOne, Zenon
  <2>3. Stripped(s.line) \in Seq(Byte)
    BY <2>1, <2>2 DEF Stripped
  <2>4. QED
    BY <2>3
<1>2. CASE l = <<>>
  <2>1. BlankLine(s) \in WState
    <3>1. CASE s.armed
      <4>1. s.armed = TRUE /\ s.terminal \in Record
        BY <3>1 DEF WState
      <4>2. BlankLine(s) = [Unreturned(<<>>, FALSE, s.terminal) EXCEPT !.found = TRUE]
        BY <4>1 DEF BlankLine
      <4>3. Unreturned(<<>>, FALSE, s.terminal) \in WState
        BY <4>1, UnreturnedType
      <4>4. QED
        BY <4>2, <4>3 DEF WState
    <3>2. CASE ~ s.armed
      BY <3>2, BlankLineIs, NeutralType
    <3>3. QED
      BY <3>1, <3>2
  <2>2. OnLine(s) = BlankLine(s)
    BY <1>1, <1>2 DEF OnLine, BlankLine
  <2>3. QED
    BY <2>1, <2>2
<1>3. CASE l # <<>>
  <2>1. PICK f \in 1 .. NumFrames : f = l[1][1]
    <3>1. Len(l) \in Nat /\ Len(l) # 0
      BY <1>3, EmptySeq, LenProperties
    <3>2. 1 \in 1 .. Len(l)
      BY <3>1
    <3>3. l[1] \in Byte
      BY <3>2, ElementOfSeq
    <3>4. QED
      BY <3>3 DEF Byte
  <2>2. OnLine(s) \in {OnEvent(s, f), OnData(s, f), Keep(s)}
    BY <1>1, <1>3, <2>1 DEF OnLine, Keep
  <2>3. QED
    BY <2>2, EffectType
<1>4. QED
  BY <1>2, <1>3

LEMMA Observe1Type ==
    ASSUME FramesFit, NEW s \in WState, NEW b \in Byte
    PROVE  Observe1(s, b) \in WState
<1>1. CASE s.found
  BY <1>1 DEF Observe1
<1>2. CASE ~ s.found /\ Is(b, "lf")
  BY <1>2, OnLineType DEF Observe1
<1>3. CASE ~ s.found /\ ~ Is(b, "lf") /\ Len(s.line) < MaxLine
  <2>1. PICK l \in Lines : l = s.line
    BY DEF WState
  <2>2. l \in Seq(Byte) /\ Len(l) < MaxLine /\ \A k \in 1 .. Len(l) : l[k][2] # "lf"
    BY <1>3, <2>1 DEF Lines
  <2>3. PICK n \in Nat : n = Len(l)
    BY <2>2, LenProperties
  <2>4. PICK u : u = Append(l, b)
    OBVIOUS
  <2>5. /\ u \in Seq(Byte) /\ Len(u) = n + 1 /\ u[n + 1] = b
        /\ \A k \in 1 .. n : u[k] = l[k]
    BY <2>2, <2>3, <2>4, AppendProperties
  <2>6. Len(u) <= MaxLine
    BY <2>2, <2>3, <2>5, LimitsAssumption
  <2>7. \A k \in 1 .. Len(u) : u[k][2] # "lf"
    <3>1. \A k \in 1 .. n + 1 : k \in 1 .. n \/ k = n + 1
      OBVIOUS
    <3>2. b[2] # "lf"
      BY <1>3 DEF Is
    <3>3. QED
      BY <2>2, <2>3, <2>5, <3>1, <3>2
  <2>8. u \in Lines
    BY <2>5, <2>6, <2>7 DEF Lines
  <2>9. Observe1(s, b) = [s EXCEPT !.line = u]
    BY <1>3, <2>1, <2>4 DEF Observe1
  <2>10. QED
    BY <2>8, <2>9 DEF WState
<1>4. CASE ~ s.found /\ ~ Is(b, "lf") /\ ~ (Len(s.line) < MaxLine)
  BY <1>4 DEF Observe1
<1>5. QED
  BY <1>1, <1>2, <1>3, <1>4

LEMMA WatchType ==
    ASSUME FramesFit, NEW s \in WState, NEW c \in Seq(Byte)
    PROVE  Watch(s, c) \in WState
<1> DEFINE Q == {r \in Seq(Byte) : Watch(s, r) \in WState}
<1>1. <<>> \in Q
  BY WatchEmpty, EmptySeq
<1>2. ASSUME NEW r \in Seq(Byte), NEW e \in Byte, r \in Q PROVE Append(r, e) \in Q
  <2>1. Append(r, e) \in Seq(Byte)
    BY AppendProperties
  <2>2. Watch(s, Append(r, e)) = Observe1(Watch(s, r), e)
    BY WatchAppend
  <2>3. QED
    BY <1>2, <2>1, <2>2, Observe1Type
<1>3. Seq(Byte) \subseteq Q
  <2> HIDE DEF Q
  <2>1. QED
    BY <1>1, <1>2, SeqInductionSet
<1>4. QED
  BY <1>3
-----------------------------------------------------------------------------
(* Where the decoder sees the end of a frame *)

EndsHere(buf, k) == k \in 1 .. Len(buf) - 1 /\ Is(buf[k], "lf") /\ Is(buf[k + 1], "lf")
EndsWide(buf, k) ==
    /\ k \in 1 .. Len(buf) - 3
    /\ Is(buf[k], "cr") /\ Is(buf[k + 1], "lf") /\ Is(buf[k + 2], "cr") /\ Is(buf[k + 3], "lf")

LEMMA BoundaryIs ==
    ASSUME NEW buf
    PROVE  /\ \A c \in Boundaries(buf) :
                 \/ \E k : c = <<k, 2>> /\ EndsHere(buf, k)
                 \/ \E k : c = <<k, 4>> /\ EndsWide(buf, k)
           /\ \A k : EndsHere(buf, k) => <<k, 2>> \in Boundaries(buf)
           /\ \A k : EndsWide(buf, k) => <<k, 4>> \in Boundaries(buf)
BY DEF Boundaries, EndsHere, EndsWide

\* The line ends of a text of whole lines and the blank one behind it.
LineEnds(x, t, n, e) ==
    /\ x \in Seq(Kinds) /\ Len(x) = n + e /\ n > 0
    /\ \A i \in 1 .. n : x[i] = t[i]
    /\ \A i \in 1 .. n - 1 : x[i] = "lf" => x[i + 1] \notin {"cr", "lf"}
    /\ Eol = <<"lf">> =>
          /\ e = 1 /\ x[n] = "lf" /\ x[n + 1] = "lf"
          /\ \A i \in 1 .. n + 1 : x[i] # "cr"
    /\ Eol # <<"lf">> =>
          /\ e = 2 /\ n > 1 /\ x[n - 1] = "cr" /\ x[n] = "lf"
          /\ x[n + 1] = "cr" /\ x[n + 2] = "lf"

LEMMA LineEndsAt ==
    ASSUME NEW t, Running(t, Eol), NEW n \in Nat, n = Len(t), NEW e \in Nat, e = Len(Eol),
           NEW x, x = t \o Eol
    PROVE  LineEnds(x, t, n, e)
<1>1. t \in Seq(Kinds) /\ Eol \in Seq(Kinds) /\ n > 0
  BY EolIs DEF Running
<1>3. /\ x \in Seq(Kinds) /\ Len(x) = n + e
      /\ \A i \in 1 .. n : x[i] = t[i]
      /\ \A i \in 1 .. e : x[n + i] = Eol[i]
  BY <1>1, ConcatParts
<1>4. \A i \in 1 .. n - 1 : x[i] = "lf" => x[i + 1] \notin {"cr", "lf"}
  <2>1. TAKE i \in 1 .. n - 1
  <2>2. i \in 1 .. n /\ i + 1 \in 1 .. n
    OBVIOUS
  <2>3. t[i] = "lf" => t[i + 1] \notin {"cr", "lf"}
    BY DEF Running
  <2>4. QED
    BY <1>3, <2>2, <2>3
<1>5. n \in 1 .. n /\ t[n] = "lf" /\ x[n] = "lf"
  <2>1. n \in 1 .. n
    BY <1>1
  <2>2. QED
    BY <1>3, <2>1 DEF Running
<1>6. ASSUME Eol = <<"lf">>
      PROVE  /\ e = 1 /\ x[n + 1] = "lf"
             /\ \A i \in 1 .. n + 1 : x[i] # "cr"
  <2>1. e = 1 /\ Eol[1] = "lf"
    BY <1>6
  <2>2. x[n + 1] = "lf"
    BY <1>3, <2>1
  <2>3. \A i \in 1 .. n : t[i] # "cr"
    BY <1>6 DEF Running
  <2>4. \A i \in 1 .. n + 1 : i \in 1 .. n \/ i = n + 1
    OBVIOUS
  <2>5. QED
    BY <1>3, <2>1, <2>2, <2>3, <2>4
<1>7. ASSUME Eol # <<"lf">>
      PROVE  /\ e = 2 /\ n > 1 /\ x[n - 1] = "cr"
             /\ x[n + 1] = "cr" /\ x[n + 2] = "lf"
  <2>1. Eol = <<"cr", "lf">>
    BY <1>7 DEF Eol
  <2>2. e = 2 /\ Eol[1] = "cr" /\ Eol[2] = "lf"
    BY <2>1
  <2>3. n > 1 /\ t[n - 1] = "cr"
    BY <1>5, <1>7 DEF Running
  <2>4. n - 1 \in 1 .. n
    BY <2>3
  <2>5. 1 \in 1 .. e /\ 2 \in 1 .. e
    BY <2>2
  <2>6. QED
    BY <1>3, <2>2, <2>3, <2>4, <2>5
<1>8. QED
  BY <1>1, <1>3, <1>4, <1>5, <1>6, <1>7 DEF LineEnds

\* A buffer that begins as the bytes of a frame do.
Begins(buf, b) == \A i \in 1 .. Len(buf) : i <= Len(b) => buf[i] = b[i]

\* No blank line ends before the frame does, and the first that can end with it
\* is the frame's own.
BoundariesFit(buf, b, n, e) ==
    /\ Len(b) = n + e /\ e \in {1, 2} /\ n + 1 - e \in Nat /\ n + 1 - e > 0
    /\ \A c \in Boundaries(buf) :
          /\ c[1] >= n + 1 - e /\ c[1] \in Nat /\ c[2] \in Nat
          /\ c[1] + c[2] > n + e
          /\ c[1] + c[2] <= Len(buf) + 1
          /\ c[1] = n + 1 - e => c = <<n + 1 - e, 2 * e>>
    /\ Len(buf) >= n + e => <<n + 1 - e, 2 * e>> \in Boundaries(buf)

LEMMA BoundaryNotBefore ==
    ASSUME NEW f \in 1 .. NumFrames, NEW t, Running(t, Eol), NEW n \in Nat, n = Len(t),
           NEW e \in Nat, e = Len(Eol),
           NEW b, b = Mark(f, t \o Eol), NEW buf \in Seq(Byte), Begins(buf, b)
    PROVE  BoundariesFit(buf, b, n, e)
<1>1. PICK x : x = t \o Eol
  OBVIOUS
<1>2. /\ x \in Seq(Kinds) /\ Len(x) = n + e /\ n > 0
      /\ \A i \in 1 .. n : x[i] = t[i]
      /\ \A i \in 1 .. n - 1 : x[i] = "lf" => x[i + 1] \notin {"cr", "lf"}
      /\ Eol = <<"lf">> =>
            /\ e = 1 /\ x[n] = "lf" /\ x[n + 1] = "lf"
            /\ \A i \in 1 .. n + 1 : x[i] # "cr"
      /\ Eol # <<"lf">> =>
            /\ e = 2 /\ n > 1 /\ x[n - 1] = "cr" /\ x[n] = "lf"
            /\ x[n + 1] = "cr" /\ x[n + 2] = "lf"
  <2>1. LineEnds(x, t, n, e)
    BY <1>1, LineEndsAt
  <2>2. QED
    BY <2>1 DEF LineEnds
<1>3. Len(b) = n + e /\ \A i \in 1 .. n + e : b[i] = <<f, x[i]>>
  BY <1>1, <1>2, MarkType, ZenonT(60)
<1>4. PICK m \in Nat : m = Len(buf)
  BY LenProperties
<1>5. \A i \in 1 .. n + e : \A w : i <= m => (Is(buf[i], w) <=> x[i] = w)
  <2>1. TAKE i \in 1 .. n + e
  <2>5. TAKE w
  <2>2. HAVE i <= m
  <2>3. buf[i] = b[i]
    BY <1>3, <1>4, <2>2 DEF Begins
  <2>4. QED
    BY <1>3, <2>3 DEF Is
<1>6. /\ e \in {1, 2} /\ n + 1 - e \in Nat /\ n + 1 - e > 0
      /\ e = 1 \/ (e = 2 /\ n > 1)
  <2>1. e = 1 \/ (e = 2 /\ n > 1)
    BY <1>2, Zenon
  <2>2. n > 0
    BY <1>2
  <2>3. CASE e = 1
    BY <2>2, <2>3
  <2>4. CASE e = 2 /\ n > 1
    BY <2>2, <2>4
  <2>5. QED
    BY <2>1, <2>3, <2>4
<1>7. ASSUME NEW k, EndsHere(buf, k)
      PROVE  k \in 1 .. m - 1 /\ k >= n /\ (e = 2 => k > n)
  <2>1. k \in 1 .. m - 1 /\ Is(buf[k], "lf") /\ Is(buf[k + 1], "lf")
    BY <1>4, <1>7 DEF EndsHere
  <2>2. ASSUME k \in 1 .. n - 1 PROVE FALSE
    <3>1. k \in 1 .. n + e /\ k + 1 \in 1 .. n + e /\ k <= m /\ k + 1 <= m
      BY <2>1, <2>2
    <3>2. x[k] = "lf" /\ x[k + 1] = "lf"
      BY <1>5, <2>1, <3>1
    <3>3. QED
      BY <1>2, <2>2, <3>2
  <2>3. ASSUME e = 2, k = n PROVE FALSE
    <3>1. n + 1 \in 1 .. n + e /\ n + 1 <= m
      BY <2>1, <2>3
    <3>2. x[n + 1] = "lf"
      BY <1>5, <2>1, <2>3, <3>1
    <3>3. x[n + 1] = "cr"
      BY <1>2, <2>3
    <3>4. QED
      BY <3>2, <3>3
  <2>4. QED
    BY <2>1, <2>2, <2>3
<1>8. ASSUME NEW k, EndsWide(buf, k)
      PROVE  k \in 1 .. m - 3 /\ k >= n - 1 /\ (e = 1 => k > n + 1)
  <2>1. k \in 1 .. m - 3 /\ Is(buf[k], "cr") /\ Is(buf[k + 1], "lf") /\ Is(buf[k + 2], "cr")
    BY <1>4, <1>8 DEF EndsWide
  <2>2. ASSUME e = 1, k <= n + 1 PROVE FALSE
    <3>1. k \in 1 .. n + e /\ k \in 1 .. n + 1 /\ k <= m
      BY <2>1, <2>2
    <3>2. x[k] = "cr"
      BY <1>5, <2>1, <3>1
    <3>3. QED
      BY <1>2, <2>2, <3>1, <3>2
  <2>3. ASSUME k < n - 1 PROVE FALSE
    <3>1. PICK j : j = k + 1
      OBVIOUS
    <3>2. j \in 1 .. n + e /\ j + 1 \in 1 .. n + e /\ j <= m /\ j + 1 <= m /\ j \in 1 .. n - 1
          /\ j + 1 = k + 2
      BY <2>1, <2>3, <3>1
    <3>3. x[j] = "lf" /\ x[j + 1] = "cr"
      BY <1>5, <2>1, <3>1, <3>2
    <3>4. QED
      BY <1>2, <3>2, <3>3
  <2>4. QED
    BY <1>2, <2>1, <2>2, <2>3
<1>9. ASSUME NEW c \in Boundaries(buf)
      PROVE  /\ c[1] >= n + 1 - e /\ c[1] \in Nat /\ c[2] \in Nat
             /\ c[1] + c[2] > n + e
             /\ c[1] + c[2] <= m + 1
             /\ c[1] = n + 1 - e => c = <<n + 1 - e, 2 * e>>
  <2>1. CASE \E k : c = <<k, 2>> /\ EndsHere(buf, k)
    <3>1. PICK k : c = <<k, 2>> /\ EndsHere(buf, k)
      BY <2>1
    <3>2. c[1] = k /\ c[2] = 2
      BY <3>1
    <3>3. k \in 1 .. m - 1 /\ k >= n /\ (e = 2 => k > n)
      BY <1>7, <3>1
    <3>4. CASE e = 1
      <4>1. n + 1 - e = n /\ 2 * e = 2 /\ n + e = n + 1
        BY <3>4
      <4>2. QED
        BY <3>1, <3>2, <3>3, <4>1
    <3>5. CASE e = 2
      <4>1. n + 1 - e = n - 1 /\ n + e = n + 2 /\ k > n
        BY <3>3, <3>5
      <4>2. c[1] # n + 1 - e
        BY <3>2, <3>3, <4>1
      <4>3. QED
        BY <3>2, <3>3, <4>1, <4>2
    <3>6. QED
      BY <1>6, <3>4, <3>5
  <2>2. CASE \E k : c = <<k, 4>> /\ EndsWide(buf, k)
    <3>1. PICK k : c = <<k, 4>> /\ EndsWide(buf, k)
      BY <2>2
    <3>2. c[1] = k /\ c[2] = 4
      BY <3>1
    <3>3. k \in 1 .. m - 3 /\ k >= n - 1 /\ (e = 1 => k > n + 1)
      BY <1>8, <3>1
    <3>4. CASE e = 1
      <4>1. n + 1 - e = n /\ n + e = n + 1 /\ k > n + 1
        BY <3>3, <3>4
      <4>2. c[1] # n + 1 - e
        BY <3>2, <3>3, <4>1
      <4>3. QED
        BY <3>2, <3>3, <4>1, <4>2
    <3>5. CASE e = 2
      <4>1. n + 1 - e = n - 1 /\ 2 * e = 4 /\ n + e = n + 2
        BY <3>5
      <4>2. QED
        BY <3>1, <3>2, <3>3, <4>1
    <3>6. QED
      BY <1>6, <3>4, <3>5
  <2>3. QED
    BY <2>1, <2>2, BoundaryIs
<1>10. ASSUME m >= n + e PROVE <<n + 1 - e, 2 * e>> \in Boundaries(buf)
  <2>1. CASE Eol = <<"lf">>
    <3>1. e = 1 /\ x[n] = "lf" /\ x[n + 1] = "lf" /\ n > 0
      BY <1>2, <2>1
    <3>2. n \in 1 .. n + e /\ n + 1 \in 1 .. n + e /\ n <= m /\ n + 1 <= m
      BY <1>10, <3>1
    <3>3. Is(buf[n], "lf") /\ Is(buf[n + 1], "lf")
      BY <1>5, <3>1, <3>2
    <3>4. n \in 1 .. m - 1
      BY <3>1, <3>2
    <3>5. EndsHere(buf, n)
      BY <1>4, <3>3, <3>4 DEF EndsHere
    <3>6. <<n, 2>> \in Boundaries(buf)
      BY <3>5, BoundaryIs
    <3>7. n + 1 - e = n /\ 2 * e = 2
      BY <3>1
    <3>8. QED
      BY <3>6, <3>7
  <2>2. CASE Eol # <<"lf">>
    <3>1. /\ e = 2 /\ n > 1 /\ x[n - 1] = "cr" /\ x[n] = "lf"
          /\ x[n + 1] = "cr" /\ x[n + 2] = "lf"
      BY <1>2, <2>2
    <3>2. PICK k \in Nat : k = n - 1 /\ k > 0
      BY <3>1
    <3>3. k + 1 = n /\ k + 2 = n + 1 /\ k + 3 = n + 2 /\ n + e = k + 3
      BY <3>1, <3>2
    <3>4. k + 3 <= m
      BY <1>10, <3>3
    <3>5. /\ k \in 1 .. n + e /\ k + 1 \in 1 .. n + e /\ k + 2 \in 1 .. n + e
          /\ k + 3 \in 1 .. n + e /\ k <= m /\ k + 1 <= m /\ k + 2 <= m /\ k \in 1 .. m - 3
      BY <3>2, <3>3, <3>4
    <3>6. x[k] = "cr" /\ x[k + 1] = "lf" /\ x[k + 2] = "cr" /\ x[k + 3] = "lf"
      BY <3>1, <3>2, <3>3
    <3>7. Is(buf[k], "cr") /\ Is(buf[k + 1], "lf") /\ Is(buf[k + 2], "cr") /\ Is(buf[k + 3], "lf")
      BY <1>5, <3>4, <3>5, <3>6
    <3>8. EndsWide(buf, k)
      BY <1>4, <3>5, <3>7 DEF EndsWide
    <3>9. <<k, 4>> \in Boundaries(buf)
      BY <3>8, BoundaryIs
    <3>10. n + 1 - e = k /\ 2 * e = 4
      BY <3>1, <3>2
    <3>11. QED
      BY <3>9, <3>10
  <2>3. QED
    BY <2>1, <2>2
<1>11. QED
  BY <1>3, <1>4, <1>6, <1>9, <1>10 DEF BoundariesFit
-----------------------------------------------------------------------------
(* What the decoder reads of a frame *)

LEMMA AmongSome ==
    ASSUME NEW T, NEW s \in Seq(T), NEW S, NEW j \in 1 .. Len(s), s[j] \in S
    PROVE  Among(s, S) # <<>>
<1> DEFINE Q == {r \in Seq(T) : (\E k \in 1 .. Len(r) : r[k] \in S) => Len(Among(r, S)) > 0}
<1>1. <<>> \in Q
  BY EmptySeq
<1>2. ASSUME NEW r \in Seq(T), NEW e \in T, r \in Q PROVE Append(r, e) \in Q
  <2>1. PICK n \in Nat, u \in {Append(r, e)} : n = Len(r) /\ u = Append(r, e)
    BY LenProperties
  <2>2. u \in Seq(T) /\ Len(u) = n + 1 /\ u[n + 1] = e /\ \A k \in 1 .. n : u[k] = r[k]
    BY <2>1, AppendProperties
  <2>3. PICK a \in Seq(T) : a = Among(r, S)
    BY AmongType
  <2>4. Len(a) \in Nat /\ Len(Append(a, e)) = Len(a) + 1
    BY AppendProperties, LenProperties
  <2>5. CASE e \in S
    <3>1. Among(u, S) = Append(a, e)
      BY <2>1, <2>3, <2>5, AmongAppend
    <3>2. Len(Among(u, S)) > 0
      BY <2>4, <3>1
    <3>3. QED
      BY <2>1, <2>2, <3>2
  <2>6. CASE e \notin S
    <3>1. Among(u, S) = a
      BY <2>1, <2>3, <2>6, AmongAppend
    <3>2. SUFFICES ASSUME NEW k \in 1 .. Len(u), u[k] \in S PROVE Len(a) > 0
      BY <2>1, <2>2, <3>1
    <3>3. k \in 1 .. n
      BY <2>2, <2>6, <3>2
    <3>4. r[k] \in S
      BY <2>2, <3>2, <3>3
    <3>5. QED
      BY <1>2, <2>1, <2>3, <3>3, <3>4
  <2>7. QED
    BY <2>5, <2>6
<1>3. Seq(T) \subseteq Q
  <2> HIDE DEF Q
  <2>1. QED
    BY <1>1, <1>2, SeqInductionSet
<1>4. Len(Among(s, S)) > 0
  BY <1>3
<1>5. QED
  BY <1>4, EmptySeq

\* The bytes of one frame give its event if they have a part of its data.
LEMMA ParsedOf ==
    ASSUME NEW f \in 1 .. NumFrames, NEW buf \in Seq({f} \X Kinds)
    PROVE  /\ (\E k \in 1 .. Len(buf) : buf[k][2] \in DataKinds) =>
                 DataOf(buf) # <<>> /\ Parsed(buf) = <<f>>
           /\ ~ (\E k \in 1 .. Len(buf) : buf[k][2] \in DataKinds) =>
                 DataOf(buf) = <<>> /\ Parsed(buf) = <<>>
<1> DEFINE S == (1 .. NumFrames) \X {"d1", "d", "d2", "m", "n"}
<1>1. DataOf(buf) = Among(buf, S)
  BY DEF DataOf
<1>2. \A k \in 1 .. Len(buf) : buf[k] \in S <=> buf[k][2] \in DataKinds
  <2>1. TAKE k \in 1 .. Len(buf)
  <2>2. buf[k] \in {f} \X Kinds
    BY ElementOfSeq
  <2>3. PICK w \in Kinds : buf[k] = <<f, w>>
    BY <2>2
  <2>4. buf[k][2] = w
    BY <2>3
  <2>5. <<f, w>> \in S <=> w \in DataKinds
    BY DEF DataKinds
  <2>6. QED
    BY <2>3, <2>4, <2>5
<1>3. PICK d : d = DataOf(buf)
  OBVIOUS
<1>4. d \in Seq({f} \X Kinds)
  BY <1>1, <1>3, AmongType
<1>5. ASSUME \E k \in 1 .. Len(buf) : buf[k][2] \in DataKinds
      PROVE  d # <<>> /\ Parsed(buf) = <<f>>
  <2>1. PICK k \in 1 .. Len(buf) : buf[k] \in S
    BY <1>2, <1>5
  <2>2. d # <<>>
    <3> HIDE DEF S
    <3>1. QED
      BY <1>1, <1>3, <2>1, AmongSome
  <2>3. d[1][1] = f
    <3>1. Len(d) \in Nat /\ Len(d) # 0
      BY <1>4, <2>2, EmptySeq, LenProperties
    <3>2. 1 \in 1 .. Len(d)
      BY <3>1
    <3>3. d[1] \in {f} \X Kinds
      BY <1>4, <3>2, ElementOfSeq
    <3>4. QED
      BY <3>3
  <2>4. QED
    BY <1>3, <2>2, <2>3 DEF Parsed
<1>6. ASSUME ~ (\E k \in 1 .. Len(buf) : buf[k][2] \in DataKinds)
      PROVE  d = <<>> /\ Parsed(buf) = <<>>
  <2>1. \A k \in DOMAIN buf : buf[k] \notin S
    <3>1. DOMAIN buf = 1 .. Len(buf)
      BY LenProperties
    <3>2. QED
      BY <1>2, <1>6, <3>1
  <2>2. d = <<>>
    <3> HIDE DEF S
    <3>1. QED
      BY <1>1, <1>3, <2>1, AmongNone
  <2>3. QED
    BY <1>3, <2>2 DEF Parsed
<1>7. QED
  BY <1>3, <1>5, <1>6

\* Reading the first bytes of a frame.
LEMMA HeadOf ==
    ASSUME NEW f \in 1 .. NumFrames, NEW x \in Seq(Kinds), NEW buf \in Seq(Byte),
           NEW h \in Nat, h <= Len(buf), h <= Len(x),
           \A i \in 1 .. h : buf[i] = <<f, x[i]>>
    PROVE  /\ SubSeq(buf, 1, h) \in Seq({f} \X Kinds) /\ Len(SubSeq(buf, 1, h)) = h
           /\ \A i \in 1 .. h : SubSeq(buf, 1, h)[i][2] = x[i]
<1>1. PICK u : u = SubSeq(buf, 1, h)
  OBVIOUS
<1>2. /\ u \in Seq(Byte) /\ Len(u) = h
      /\ \A i \in 1 .. h : u[i] = buf[i]
  <2>1. /\ SubSeq(buf, 0 + 1, h) \in Seq(Byte) /\ Len(SubSeq(buf, 0 + 1, h)) = h - 0
        /\ \A i \in 1 .. h - 0 : SubSeq(buf, 0 + 1, h)[i] = buf[0 + i]
    <3>1. 0 <= h
      OBVIOUS
    <3>2. QED
      BY <3>1, SubSeqIs
  <2>2. SubSeq(buf, 0 + 1, h) = u
    BY <1>1, ZeroOne, Zenon
  <2>3. h - 0 = h /\ \A i \in 1 .. h : 0 + i = i
    OBVIOUS
  <2>4. /\ u \in Seq(Byte) /\ Len(u) = h - 0
        /\ \A i \in 1 .. h - 0 : u[i] = buf[0 + i]
    BY <2>1, <2>2, Zenon
  <2>5. QED
    BY <2>3, <2>4
<1>3. Len(x) \in Nat
  BY LenProperties
<1>4. \A i \in 1 .. h : u[i] = <<f, x[i]>> /\ x[i] \in Kinds
  <2>1. TAKE i \in 1 .. h
  <2>2. i \in 1 .. Len(x)
    BY <1>3
  <2>3. x[i] \in Kinds
    BY <2>2, ElementOfSeq
  <2>4. QED
    BY <1>2, <2>3
<1>5. ASSUME NEW i \in 1 .. h PROVE u[i] \in {f} \X Kinds /\ u[i][2] = x[i]
  <2>1. PICK w \in Kinds : w = x[i] /\ u[i] = <<f, w>>
    BY <1>4
  <2>2. QED
    BY <2>1
<1>6. u \in Seq({f} \X Kinds)
  <2> DEFINE S == {f} \X Kinds
  <2>1. \A i \in 1 .. h : u[i] \in S
    BY <1>5
  <2> HIDE DEF S
  <2>2. u = [i \in 1 .. h |-> u[i]]
    BY <1>2
  <2>3. u \in Seq(S)
    BY <2>1, <2>2
  <2>4. QED
    BY <2>3 DEF S
<1>7. QED
  BY <1>1, <1>2, <1>5, <1>6

EventOf(f) == IF HasEvent(f) THEN <<f>> ELSE <<>>

\* As long as the frame lasts the decoder sees no end of it.
LEMMA NoBoundaryYet ==
    ASSUME FramesFit, NEW f \in 1 .. NumFrames, NEW buf \in Seq(Byte),
           Begins(buf, BytesOf(f)), Len(buf) < Len(BytesOf(f))
    PROVE  Boundaries(buf) = {}
<1>1. PICK t : Running(t, Eol) /\ BytesOf(f) = Mark(f, t \o Eol)
  BY FrameRuns
<1>2. PICK n \in Nat, e \in Nat : n = Len(t) /\ e = Len(Eol)
  BY <1>1, EolIs, LenProperties DEF Running
<1>3. PICK b : b = Mark(f, t \o Eol) /\ b = BytesOf(f)
  BY <1>1
<1>4. /\ Len(b) = n + e
      /\ \A c \in Boundaries(buf) :
            /\ c[1] \in Nat /\ c[2] \in Nat
            /\ c[1] + c[2] > n + e /\ c[1] + c[2] <= Len(buf) + 1
  <2>1. BoundariesFit(buf, b, n, e)
    BY <1>1, <1>2, <1>3, BoundaryNotBefore
  <2>2. QED
    BY <2>1 DEF BoundariesFit
<1>5. Len(buf) \in Nat
  BY LenProperties
<1>6. ASSUME NEW c \in Boundaries(buf) PROVE FALSE
  <2>1. PICK m \in Nat : m = Len(buf) /\ m < n + e
    BY <1>3, <1>4, <1>5
  <2>2. PICK k \in Nat, l \in Nat : k = c[1] /\ l = c[2]
    BY <1>4
  <2>3. k + l > n + e /\ k + l <= m + 1
    BY <1>4, <2>1, <2>2
  <2>4. QED
    BY <2>1, <2>3
<1>7. QED
  BY <1>6
-----------------------------------------------------------------------------
(* Taking frames from the front of the buffer *)

\* Only the line end at its end is no part of the lines of a frame.
LEMMA DataBeforeEnd ==
    ASSUME NEW t, Running(t, Eol), NEW n \in Nat, n = Len(t), NEW e \in Nat, e = Len(Eol)
    PROVE  /\ n - e \in Nat
           /\ Spells(t) <=> \E k \in 1 .. n - e : t[k] \in DataKinds
<1>1. PICK x : x = t \o Eol
  OBVIOUS
<1>2. LineEnds(x, t, n, e)
  BY <1>1, LineEndsAt
<1>3. /\ n > 0 /\ \A i \in 1 .. n : x[i] = t[i]
      /\ Eol = <<"lf">> => e = 1 /\ x[n] = "lf"
      /\ Eol # <<"lf">> => e = 2 /\ n > 1 /\ x[n - 1] = "cr" /\ x[n] = "lf"
  BY <1>2 DEF LineEnds
<1>4. CASE Eol = <<"lf">>
  <2>1. e = 1 /\ n \in 1 .. n /\ t[n] = "lf"
    BY <1>3, <1>4
  <2>2. t[n] \notin DataKinds
    BY <2>1 DEF DataKinds
  <2>3. \A k \in 1 .. n : k = n \/ k \in 1 .. n - e
    BY <2>1
  <2>4. n - e \in Nat /\ \A k \in 1 .. n - e : k \in 1 .. n
    BY <1>3, <2>1
  <2>5. QED
    BY <2>2, <2>3, <2>4 DEF Spells
<1>5. CASE Eol # <<"lf">>
  <2>1. e = 2 /\ n \in 1 .. n /\ n - 1 \in 1 .. n /\ t[n] = "lf" /\ t[n - 1] = "cr"
    <3>1. e = 2 /\ n > 1 /\ x[n - 1] = "cr" /\ x[n] = "lf"
      BY <1>3, <1>5, Zenon
    <3>2. n \in 1 .. n /\ n - 1 \in 1 .. n
      BY <3>1
    <3>3. x[n] = t[n] /\ x[n - 1] = t[n - 1]
      BY <1>3, <3>2
    <3>4. QED
      BY <3>1, <3>2, <3>3
  <2>2. t[n] \notin DataKinds /\ t[n - 1] \notin DataKinds
    BY <2>1 DEF DataKinds
  <2>3. \A k \in 1 .. n : k = n \/ k = n - 1 \/ k \in 1 .. n - e
    BY <2>1
  <2>4. n - e \in Nat /\ \A k \in 1 .. n - e : k \in 1 .. n
    BY <1>3, <1>5, <2>1
  <2>5. QED
    BY <2>2, <2>3, <2>4 DEF Spells
<1>6. QED
  BY <1>4, <1>5

LEMMA FirstIs ==
    ASSUME NEW buf, NEW z \in Boundaries(buf), z[1] \in Nat,
           \A c \in Boundaries(buf) : c[1] \in Nat /\ c[1] >= z[1] /\ (c[1] = z[1] => c = z)
    PROVE  FirstBoundary(buf) = z
<1>1. \A c \in Boundaries(buf) : z[1] <= c[1]
  OBVIOUS
<1>2. PICK b : b = FirstBoundary(buf)
  OBVIOUS
<1>3. b \in Boundaries(buf) /\ \A c \in Boundaries(buf) : b[1] <= c[1]
  BY <1>1, <1>2 DEF FirstBoundary
<1>4. b[1] <= z[1] /\ b[1] >= z[1] /\ b[1] \in Nat
  BY <1>3
<1>5. b[1] = z[1]
  BY <1>4
<1>6. QED
  BY <1>2, <1>3, <1>5

\* A frame that is there is taken, with its event.
LEMMA FrameTaken ==
    ASSUME FramesFit, NEW f \in 1 .. NumFrames, NEW buf \in Seq(Byte),
           Begins(buf, BytesOf(f)), Len(BytesOf(f)) <= Len(buf), NEW out
    PROVE  /\ Boundaries(buf) # {}
           /\ Taken([left |-> buf, out |-> out])
                 = [left |-> SubSeq(buf, Len(BytesOf(f)) + 1, Len(buf)),
                    out  |-> out \o EventOf(f)]
<1>1. PICK t : Running(t, Eol) /\ BytesOf(f) = Mark(f, t \o Eol) /\ (Spells(t) <=> HasEvent(f))
  BY FrameRuns
<1>2. PICK n \in Nat, e \in Nat : n = Len(t) /\ e = Len(Eol)
  BY <1>1, EolIs, LenProperties DEF Running
<1>3. PICK b : b = Mark(f, t \o Eol) /\ b = BytesOf(f)
  BY <1>1
<1>4. BoundariesFit(buf, b, n, e)
  BY <1>1, <1>2, <1>3, BoundaryNotBefore
<1>5. PICK z : z = <<n + 1 - e, 2 * e>>
  OBVIOUS
<1>6. /\ Len(b) = n + e /\ n + 1 - e \in Nat /\ z[1] = n + 1 - e /\ z[2] = 2 * e
      /\ z \in Boundaries(buf)
      /\ \A c \in Boundaries(buf) : c[1] \in Nat /\ c[1] >= z[1] /\ (c[1] = z[1] => c = z)
  <2>1. z[1] = n + 1 - e /\ z[2] = 2 * e
    BY <1>5
  <2>2. Len(b) = n + e /\ n + 1 - e \in Nat
    BY <1>4 DEF BoundariesFit
  <2>3. Len(buf) >= n + e
    BY <1>3, <2>2, LenProperties
  <2>4. z \in Boundaries(buf)
    BY <1>4, <1>5, <2>3 DEF BoundariesFit
  <2>5. \A c \in Boundaries(buf) : c[1] \in Nat /\ c[1] >= z[1] /\ (c[1] = z[1] => c = z)
    BY <1>4, <1>5, <2>1 DEF BoundariesFit
  <2>6. QED
    BY <2>1, <2>2, <2>4, <2>5
<1>7. FirstBoundary(buf) = z
  BY <1>6, FirstIs
<1>8. n - e \in Nat /\ (Spells(t) <=> \E k \in 1 .. n - e : t[k] \in DataKinds)
  BY <1>1, <1>2, DataBeforeEnd
<1>9. PICK h \in Nat : h = n - e
  BY <1>8
<1>10. z[1] - 1 = h /\ z[1] + z[2] = Len(b) + 1
  BY <1>6, <1>9
<1>11. t \in Seq(Kinds) /\ h <= Len(buf) /\ h <= Len(t)
  <2>1. PICK m \in Nat : m = Len(buf)
    BY LenProperties
  <2>2. n + e <= m
    BY <1>3, <1>6, <2>1
  <2>3. h <= m
    BY <1>9, <2>2
  <2>4. QED
    BY <1>1, <1>2, <1>9, <2>1, <2>3 DEF Running
<1>12. \A i \in 1 .. h : buf[i] = <<f, t[i]>>
  <2>1. PICK x : x = t \o Eol
    OBVIOUS
  <2>2. LineEnds(x, t, n, e)
    BY <1>1, <1>2, <2>1, LineEndsAt
  <2>3. x \in Seq(Kinds) /\ Len(x) = n + e /\ \A i \in 1 .. n : x[i] = t[i]
    BY <2>2 DEF LineEnds
  <2>4. \A i \in 1 .. n + e : b[i] = <<f, x[i]>>
    BY <1>3, <2>1, <2>3, MarkType
  <2>5. TAKE i \in 1 .. h
  <2>6. i \in 1 .. n + e /\ i \in 1 .. n /\ i <= Len(b)
    BY <1>6, <1>9
  <2>7. i \in 1 .. Len(buf)
    BY <1>11, LenProperties
  <2>8. buf[i] = b[i]
    BY <1>3, <2>6, <2>7 DEF Begins
  <2>9. QED
    BY <2>3, <2>4, <2>6, <2>8
<1>13. Parsed(SubSeq(buf, 1, h)) = EventOf(f)
  <2>1. PICK u : u = SubSeq(buf, 1, h)
    OBVIOUS
  <2>2. /\ u \in Seq({f} \X Kinds) /\ Len(u) = h
        /\ \A i \in 1 .. h : u[i][2] = t[i]
    BY <1>11, <1>12, <2>1, HeadOf
  <2>3. Spells(t) <=> \E k \in 1 .. Len(u) : u[k][2] \in DataKinds
    BY <1>8, <1>9, <2>2
  <2>4. CASE HasEvent(f)
    <3>1. \E k \in 1 .. Len(u) : u[k][2] \in DataKinds
      BY <1>1, <2>3, <2>4
    <3>2. Parsed(u) = <<f>>
      BY <2>2, <3>1, ParsedOf
    <3>3. QED
      BY <2>1, <2>4, <3>2 DEF EventOf
  <2>5. CASE ~ HasEvent(f)
    <3>1. ~ \E k \in 1 .. Len(u) : u[k][2] \in DataKinds
      BY <1>1, <2>3, <2>5
    <3>2. Parsed(u) = <<>>
      BY <2>2, <3>1, ParsedOf
    <3>3. QED
      BY <2>1, <2>5, <3>2 DEF EventOf
  <2>6. QED
    BY <2>4, <2>5
<1>14. Boundaries(buf) # {}
  BY <1>6
<1>15. Taken([left |-> buf, out |-> out])
          = [left |-> SubSeq(buf, z[1] + z[2], Len(buf)),
             out  |-> out \o Parsed(SubSeq(buf, 1, z[1] - 1))]
  BY <1>7, <1>14 DEF Taken
<1>16. QED
  BY <1>3, <1>10, <1>13, <1>14, <1>15

\* A part of a part.
LEMMA SubSub ==
    ASSUME NEW T, NEW s \in Seq(T), NEW i \in Nat, NEW d \in Nat, NEW k \in Nat,
           i + d <= k, k <= Len(s), NEW u, u = SubSeq(s, i + 1, k)
    PROVE  SubSeq(u, d + 1, Len(u)) = SubSeq(s, (i + d) + 1, k)
<1>1. Len(s) \in Nat /\ i <= k
  BY LenProperties
<1>2. u \in Seq(T) /\ Len(u) = k - i /\ \A h \in 1 .. k - i : u[h] = s[i + h]
  BY <1>1, SubSeqIs
<1>3. PICK l \in Nat : l = k - i /\ l = Len(u)
  BY <1>1, <1>2
<1>4. PICK v : v = SubSeq(u, d + 1, l)
  OBVIOUS
<1>5. v \in Seq(T) /\ Len(v) = l - d /\ \A h \in 1 .. l - d : v[h] = u[d + h]
  <2>1. d <= l /\ l <= Len(u) /\ u \in Seq(T)
    BY <1>2, <1>3
  <2>2. /\ SubSeq(u, d + 1, l) \in Seq(T) /\ Len(SubSeq(u, d + 1, l)) = l - d
        /\ \A h \in 1 .. l - d : SubSeq(u, d + 1, l)[h] = u[d + h]
    BY <2>1, SubSeqIs, ZenonT(60)
  <2>3. QED
    BY <1>4, <2>2
<1>14. PICK j \in Nat : j = i + d
  OBVIOUS
<1>15. PICK w : w = SubSeq(s, j + 1, k)
  OBVIOUS
<1>6. j = i + d /\ w = SubSeq(s, j + 1, k)
  BY <1>14, <1>15
<1>7. w \in Seq(T) /\ Len(w) = k - j /\ \A h \in 1 .. k - j : w[h] = s[j + h]
  <2>1. j <= k /\ k <= Len(s) /\ s \in Seq(T)
    BY <1>6
  <2>2. /\ SubSeq(s, j + 1, k) \in Seq(T) /\ Len(SubSeq(s, j + 1, k)) = k - j
        /\ \A h \in 1 .. k - j : SubSeq(s, j + 1, k)[h] = s[j + h]
    BY <2>1, SubSeqIs, ZenonT(60)
  <2>3. QED
    BY <1>6, <2>2
<1>8. k - j = l - d /\ k - j \in Nat
  BY <1>3, <1>6
<1>9. ASSUME NEW h \in 1 .. Len(v) PROVE v[h] = w[h]
  <2>1. h \in 1 .. l - d /\ h \in 1 .. k - j /\ d + h \in 1 .. k - i /\ i + (d + h) = j + h
    BY <1>3, <1>5, <1>6, <1>8
  <2>2. v[h] = u[d + h]
    BY <1>5, <2>1
  <2>3. u[d + h] = s[i + (d + h)]
    BY <1>2, <2>1
  <2>4. w[h] = s[j + h]
    BY <1>7, <2>1
  <2>5. QED
    BY <2>1, <2>2, <2>3, <2>4
<1>10. Len(v) = Len(w)
  BY <1>5, <1>7, <1>8
<1>11. v = w
  BY <1>5, <1>7, <1>9, <1>10, SeqEqual
<1>12. QED
  BY <1>3, <1>4, <1>6, <1>11
-----------------------------------------------------------------------------
(* Taking the frames that are behind n others *)

LEMMA TailingType ==
    ASSUME FramesFit, NEW n \in 0 .. NumFrames, NEW s \in Nat, Until(n) <= s, s <= Len(Bytes)
    PROVE  /\ Tailing(n, s) \in Seq(Byte) /\ Until(n) \in Nat
           /\ Len(Tailing(n, s)) = s - Until(n) /\ s - Until(n) \in Nat
           /\ \A i \in 1 .. s - Until(n) : Tailing(n, s)[i] = Bytes[Until(n) + i]
<1>1. PICK b \in Seq(Byte), k \in Nat : b = Bytes /\ k = Until(n)
  BY BytesType, UptoStep
<1>2. k <= s /\ s <= Len(b)
  BY <1>1
<1>3. /\ SubSeq(b, k + 1, s) \in Seq(Byte) /\ Len(SubSeq(b, k + 1, s)) = s - k
      /\ \A i \in 1 .. s - k : SubSeq(b, k + 1, s)[i] = b[k + i]
  BY <1>2, SubSeqIs
<1>4. s - k \in Nat
  BY <1>2
<1>5. Tailing(n, s) = SubSeq(b, k + 1, s)
  BY <1>1 DEF Tailing
<1>6. QED
  BY <1>1, <1>3, <1>4, <1>5

LEMMA TailingBegins ==
    ASSUME FramesFit, NEW n \in 0 .. NumFrames - 1, NEW s \in Nat,
           Until(n) <= s, s <= Len(Bytes)
    PROVE  Begins(Tailing(n, s), BytesOf(n + 1))
<1>0. n \in 0 .. NumFrames /\ n + 1 \in 1 .. NumFrames
  BY LimitsAssumption
<1>1. PICK u \in Seq(Byte), k \in Nat, d \in Nat :
          /\ u = Tailing(n, s) /\ k = Until(n) /\ d = s - k /\ Len(u) = d
          /\ \A i \in 1 .. d : u[i] = Bytes[k + i]
  BY <1>0, TailingType
<1>2. PICK f \in Seq(Byte), m \in Nat : f = BytesOf(n + 1) /\ m = Len(f)
  BY <1>0, BytesOfType
<1>3. \A i \in 1 .. m : Bytes[k + i] = f[i]
  BY <1>1, <1>2, BytesAt
<1>4. \A i \in 1 .. Len(u) : i <= Len(f) => u[i] = f[i]
  <2>1. SUFFICES ASSUME NEW i \in 1 .. d, i <= m PROVE u[i] = f[i]
    BY <1>1, <1>2, Zenon
  <2>2. i \in 1 .. m
    BY <2>1
  <2>3. u[i] = Bytes[k + i]
    BY <1>1
  <2>4. Bytes[k + i] = f[i]
    BY <1>3, <2>2
  <2>5. QED
    BY <2>3, <2>4
<1>5. QED
  BY <1>1, <1>2, <1>4 DEF Begins

LEMMA TailingLeft ==
    ASSUME FramesFit, NEW n \in 0 .. NumFrames - 1, NEW s \in Nat,
           Until(n + 1) <= s, s <= Len(Bytes)
    PROVE  /\ Until(n) <= s /\ Len(BytesOf(n + 1)) <= Len(Tailing(n, s))
           /\ SubSeq(Tailing(n, s), Len(BytesOf(n + 1)) + 1, Len(Tailing(n, s)))
                 = Tailing(n + 1, s)
<1>0. n \in 0 .. NumFrames /\ n + 1 \in 1 .. NumFrames /\ n + 1 \in 0 .. NumFrames
  BY LimitsAssumption
<1>1. PICK k \in Nat, d \in Nat : k = Until(n) /\ d = Len(BytesOf(n + 1))
  BY <1>0, UptoStep, BytesOfType
<1>2. Until(n + 1) = k + d
  BY <1>1, UptoStep
<1>3. k + d <= s /\ k <= s
  BY <1>1, <1>2
<1>4. PICK b \in Seq(Byte) : b = Bytes
  BY BytesType
<1>5. PICK u : u = Tailing(n, s)
  OBVIOUS
<1>6. u = SubSeq(b, k + 1, s)
  BY <1>1, <1>4, <1>5 DEF Tailing
<1>7. s <= Len(b)
  BY <1>4
<1>8. SubSeq(u, d + 1, Len(u)) = SubSeq(b, (k + d) + 1, s)
  BY <1>3, <1>6, <1>7, SubSub
<1>9. SubSeq(b, (k + d) + 1, s) = Tailing(n + 1, s)
  BY <1>2, <1>4 DEF Tailing
<1>10. Len(u) = s - k
  BY <1>0, <1>1, <1>3, <1>5, TailingType
<1>11. d <= Len(u)
  BY <1>3, <1>10
<1>12. QED
  BY <1>1, <1>3, <1>5, <1>8, <1>9, <1>11

Has(left, out) == [left |-> left, out |-> out]

\* The next frame is taken with its event,
LEMMA TakenAt ==
    ASSUME FramesFit, NEW n \in 0 .. NumFrames - 1, NEW s \in Nat,
           Until(n + 1) <= s, s <= Len(Bytes), NEW out
    PROVE  Taken(Has(Tailing(n, s), out)) = Has(Tailing(n + 1, s), out \o EventOf(n + 1))
<1>0. n \in 0 .. NumFrames /\ n + 1 \in 1 .. NumFrames
  BY LimitsAssumption
<1>1. /\ Until(n) <= s /\ Len(BytesOf(n + 1)) <= Len(Tailing(n, s))
      /\ SubSeq(Tailing(n, s), Len(BytesOf(n + 1)) + 1, Len(Tailing(n, s))) = Tailing(n + 1, s)
  BY TailingLeft
<1>2. PICK u \in Seq(Byte), f \in 1 .. NumFrames : u = Tailing(n, s) /\ f = n + 1
  BY <1>0, <1>1, TailingType
<1>3. Begins(u, BytesOf(f)) /\ Len(BytesOf(f)) <= Len(u)
  BY <1>1, <1>2, TailingBegins
<1>4. Taken([left |-> u, out |-> out])
         = [left |-> SubSeq(u, Len(BytesOf(f)) + 1, Len(u)), out |-> out \o EventOf(f)]
  BY <1>3, FrameTaken
<1>5. QED
  BY <1>1, <1>2, <1>4 DEF Has

\* and when it is not complete there is nothing to take.
LEMMA StayAt ==
    ASSUME FramesFit, NEW n, NEW s \in Nat, s <= Len(Bytes), At(n, s)
    PROVE  Boundaries(Tailing(n, s)) = {}
<1>0. NumFrames \in Nat /\ n \in 0 .. NumFrames /\ Until(n) <= s
  BY LimitsAssumption DEF At
<1>1. PICK u \in Seq(Byte), k \in Nat, d \in Nat :
          u = Tailing(n, s) /\ k = Until(n) /\ d = s - k /\ Len(u) = d
  BY <1>0, TailingType
<1>2. CASE n < NumFrames
  <2>1. n \in 0 .. NumFrames - 1 /\ n + 1 \in 1 .. NumFrames /\ s < Until(n + 1)
    BY <1>0, <1>2 DEF At
  <2>2. PICK m \in Nat : m = Len(BytesOf(n + 1))
    BY <2>1, BytesOfType
  <2>3. Until(n + 1) = k + m
    BY <1>1, <2>1, <2>2, UptoStep
  <2>4. d < m
    BY <1>1, <2>1, <2>3
  <2>5. PICK f \in 1 .. NumFrames : f = n + 1
    BY <2>1
  <2>6. Begins(u, BytesOf(f)) /\ Len(u) < Len(BytesOf(f))
    BY <1>0, <1>1, <2>1, <2>2, <2>4, <2>5, TailingBegins
  <2>7. Boundaries(u) = {}
    BY <2>6, NoBoundaryYet
  <2>8. QED
    BY <1>1, <2>7
<1>3. CASE n = NumFrames
  <2>1. s = k /\ d = 0
    BY <1>0, <1>1, <1>3, BytesType
  <2>2. 1 .. Len(u) - 1 = {} /\ 1 .. Len(u) - 3 = {}
    BY <1>1, <2>1
  <2>3. \A c : c \notin Boundaries(u)
    BY <2>2, BoundaryIs DEF EndsHere, EndsWide
  <2>4. QED
    BY <1>1, <2>3
<1>4. QED
  BY <1>0, <1>2, <1>3
-----------------------------------------------------------------------------
(* The events of the first frames *)

LEMMA EventsStep ==
    ASSUME FramesFit
    PROVE  /\ EventsOf(0) = <<>>
           /\ \A n \in 0 .. NumFrames : EventsOf(n) \in Seq(1 .. NumFrames)
           /\ \A n \in 0 .. NumFrames - 1 : EventsOf(n + 1) = EventsOf(n) \o EventOf(n + 1)
<1> DEFINE up(n) == [f \in 1 .. n |-> f]
           S == {f \in DOMAIN frames : HasEvent(f)}
<1>0. NumFrames \in Nat /\ DOMAIN frames = 1 .. NumFrames
  BY LimitsAssumption DEF FramesFit
<1>1. up(0) = <<>>
  OBVIOUS
<1>2. EventsOf(0) = <<>>
  <2>1. Among(up(0), S) = <<>>
    BY <1>1, AmongEmpty
  <2>2. QED
    BY <2>1 DEF EventsOf
<1>3. ASSUME NEW n \in 0 .. NumFrames PROVE up(n) \in Seq(1 .. NumFrames) /\ Len(up(n)) = n
  <2>1. n \in Nat /\ \A f \in 1 .. n : f \in 1 .. NumFrames
    BY <1>0
  <2>2. QED
    BY <2>1
<1>4. ASSUME NEW n \in 0 .. NumFrames PROVE EventsOf(n) \in Seq(1 .. NumFrames)
  <2>1. PICK u \in Seq(1 .. NumFrames) : u = up(n)
    BY <1>3
  <2>2. Among(u, S) \in Seq(1 .. NumFrames)
    BY AmongType
  <2>3. QED
    BY <2>1, <2>2 DEF EventsOf
<1>5. ASSUME NEW n \in 0 .. NumFrames - 1 PROVE EventsOf(n + 1) = EventsOf(n) \o EventOf(n + 1)
  <2>0. n \in 0 .. NumFrames /\ n + 1 \in 1 .. NumFrames /\ n + 1 \in 0 .. NumFrames
    BY <1>0
  <2>1. PICK u \in Seq(1 .. NumFrames), f \in 1 .. NumFrames :
            u = up(n) /\ f = n + 1 /\ Len(u) = n
    BY <1>3, <2>0
  <2>2. up(n + 1) = Append(u, f)
    <3>1. PICK v \in Seq(1 .. NumFrames) : v = up(n + 1) /\ Len(v) = n + 1
      BY <1>3, <2>0
    <3>2. PICK w : w = Append(u, f)
      OBVIOUS
    <3>3. /\ w \in Seq(1 .. NumFrames) /\ Len(w) = n + 1 /\ w[n + 1] = f
          /\ \A i \in 1 .. n : w[i] = u[i]
      BY <2>1, <3>2, AppendProperties
    <3>4. \A i \in 1 .. Len(v) : v[i] = w[i]
      <4>1. \A i \in 1 .. n + 1 : i \in 1 .. n \/ i = n + 1
        OBVIOUS
      <4>2. \A i \in 1 .. n : u[i] = i
        BY <2>1
      <4>3. \A i \in 1 .. n + 1 : v[i] = i
        BY <3>1
      <4>4. QED
        BY <2>1, <3>1, <3>3, <4>1, <4>2, <4>3
    <3>5. v = w
      BY <3>1, <3>3, <3>4, SeqEqual
    <3>6. QED
      BY <3>1, <3>2, <3>5
  <2>3. PICK a \in Seq(1 .. NumFrames) : a = Among(u, S) /\ a = EventsOf(n)
    <3>1. Among(u, S) = EventsOf(n)
      BY <2>1 DEF EventsOf
    <3>2. QED
      BY <1>4, <2>0, <3>1
  <2>4. EventsOf(n + 1) = Among(Append(u, f), S)
    BY <2>2 DEF EventsOf
  <2>5. CASE HasEvent(f)
    <3>1. f \in S
      BY <1>0, <2>5
    <3>2. Among(Append(u, f), S) = Append(a, f)
      <4> HIDE DEF S
      <4>1. QED
        BY <2>3, <3>1, AmongAppend
    <3>3. EventOf(f) = <<f>>
      BY <2>5 DEF EventOf
    <3>4. Append(a, f) = a \o <<f>>
      OBVIOUS
    <3>5. QED
      BY <2>1, <2>3, <2>4, <3>2, <3>3, <3>4
  <2>6. CASE ~ HasEvent(f)
    <3>1. f \notin S
      BY <2>6
    <3>2. Among(Append(u, f), S) = a
      <4> HIDE DEF S
      <4>1. QED
        BY <2>3, <3>1, AmongAppend, ZenonT(60)
    <3>3. EventOf(f) = <<>>
      BY <2>6 DEF EventOf
    <3>4. a \o <<>> = a
      OBVIOUS
    <3>5. QED
      BY <2>1, <2>3, <2>4, <3>2, <3>3, <3>4
  <2>7. QED
    BY <2>5, <2>6
<1>6. QED
  BY <1>2, <1>4, <1>5
-----------------------------------------------------------------------------
(* The decoder takes every frame that is complete *)

\* g is the run of the decoder that takes n frames at most.
Takes(g, buf, n) ==
    g = [k \in 0 .. n |-> IF k = 0 THEN [left |-> buf, out |-> <<>>] ELSE Taken(g[k - 1])]

TakesHere(g, buf, k) == g[k] = IF k = 0 THEN [left |-> buf, out |-> <<>>] ELSE Taken(g[k - 1])

LEMMA TakesAt ==
    ASSUME NEW g, NEW buf, NEW n, Takes(g, buf, n), NEW k \in 0 .. n
    PROVE  TakesHere(g, buf, k)
BY DEF Takes, TakesHere

LEMMA TakesExist ==
    ASSUME NEW buf, NEW m \in Nat
    PROVE  \E g : Takes(g, buf, m)
<1> DEFINE S == {n \in Nat : \E g : Takes(g, buf, n)}
<1>1. 0 \in S
  <2>1. Takes([k \in 0 .. 0 |-> [left |-> buf, out |-> <<>>]], buf, 0)
    BY DEF Takes
  <2>2. QED
    BY <2>1
<1>2. ASSUME NEW n \in Nat, n \in S PROVE n + 1 \in S
  <2>1. PICK f : Takes(f, buf, n)
    BY <1>2
  <2> DEFINE g == [k \in 0 .. n + 1 |-> IF k <= n THEN f[k] ELSE Taken(f[k - 1])]
  <2>2. ASSUME NEW k \in 0 .. n + 1
        PROVE  g[k] = IF k = 0 THEN [left |-> buf, out |-> <<>>] ELSE Taken(g[k - 1])
    <3>1. CASE k <= n
      <4>1. f[k] = IF k = 0 THEN [left |-> buf, out |-> <<>>] ELSE Taken(f[k - 1])
        <5>1. k \in 0 .. n
          BY <3>1
        <5>2. QED
          BY <2>1, <5>1, TakesAt DEF TakesHere
      <4>2. k # 0 => g[k - 1] = f[k - 1]
        BY <3>1
      <4>3. QED
        BY <3>1, <4>1, <4>2
    <3>2. CASE k = n + 1
      <4>1. k # 0 /\ g[k - 1] = f[k - 1] /\ g[k] = Taken(f[k - 1])
        BY <3>2
      <4>2. QED
        BY <4>1
    <3>3. QED
      BY <3>1, <3>2
  <2>3. Takes(g, buf, n + 1)
    <3> DEFINE h == [k \in 0 .. n + 1 |->
                        IF k = 0 THEN [left |-> buf, out |-> <<>>] ELSE Taken(g[k - 1])]
    <3>1. \A k \in 0 .. n + 1 : g[k] = h[k]
      BY <2>2
    <3>2. g = h
      BY <3>1
    <3>3. QED
      BY <3>2 DEF Takes
  <2>4. QED
    BY <2>3
<1>3. Nat \subseteq S
  <2> HIDE DEF S
  <2>1. QED
    BY <1>1, <1>2, NatInductionSet
<1>4. QED
  BY <1>3

LEMMA PushChoice ==
    ASSUME NEW buf, Len(buf) \in Nat
    PROVE  \E g : Takes(g, buf, Len(buf)) /\ Push(buf) = g[Len(buf)]
<1> DEFINE g == CHOOSE h : Takes(h, buf, Len(buf))
<1>1. Takes(g, buf, Len(buf))
  BY TakesExist
<1>2. Push(buf) = g[Len(buf)]
  BY DEF Push, Takes
<1>3. QED
  BY <1>1, <1>2

\* Every frame has bytes.
LEMMA UntilGrows ==
    ASSUME FramesFit, NEW c \in 0 .. NumFrames, NEW m \in c .. NumFrames
    PROVE  Until(c) + (m - c) <= Until(m)
<1>0. NumFrames \in Nat
  BY LimitsAssumption
<1> DEFINE S == {j \in Nat : c + j <= m => Until(c) + j <= Until(c + j)}
<1>1. 0 \in S
  <2>1. Until(c) \in Nat /\ c + 0 = c
    BY UptoStep
  <2>2. Until(c) + 0 <= Until(c + 0)
    BY <2>1
  <2>3. QED
    BY <2>2
<1>2. ASSUME NEW j \in Nat, j \in S PROVE j + 1 \in S
  <2>1. SUFFICES ASSUME c + (j + 1) <= m PROVE Until(c) + (j + 1) <= Until(c + (j + 1))
    OBVIOUS
  <2>2. PICK i \in 0 .. NumFrames - 1 : i = c + j /\ i + 1 = c + (j + 1)
    BY <1>0, <2>1
  <2>3. Until(i) < Until(i + 1) /\ Until(i) \in Nat /\ Until(i + 1) \in Nat
    <3>1. i \in 0 .. NumFrames /\ i + 1 \in 0 .. NumFrames
      BY <1>0
    <3>2. QED
      BY <3>1, UptoStep
  <2>4. Until(c) + j <= Until(i) /\ Until(c) \in Nat
    BY <1>2, <2>1, <2>2, UptoStep
  <2>5. Until(c) + (j + 1) <= Until(i + 1)
    BY <2>3, <2>4
  <2>6. QED
    BY <2>2, <2>5
<1>3. Nat \subseteq S
  <2> HIDE DEF S
  <2>1. QED
    BY <1>1, <1>2, NatInductionSet
<1>4. PICK j \in Nat : j = m - c /\ c + j = m
  BY <1>0
<1>5. j \in S
  <2> HIDE DEF S
  <2>1. QED
    BY <1>3
<1>6. QED
  BY <1>4, <1>5

\* From c frames on the decoder is at frame i.
Reached(x, c, i, s) ==
    \E out \in Seq(1 .. NumFrames) :
        x = Has(Tailing(i, s), out) /\ EventsOf(c) \o out = EventsOf(i)

LEMMA ReachedNext ==
    ASSUME FramesFit, NEW c \in 0 .. NumFrames, NEW m \in c .. NumFrames,
           NEW s \in Nat, s <= Len(Bytes), At(m, s),
           NEW i \in c .. m, NEW x, Reached(x, c, i, s)
    PROVE  /\ i = m => Reached(Taken(x), c, m, s)
           /\ i < m => Reached(Taken(x), c, i + 1, s)
<1>0. NumFrames \in Nat
  BY LimitsAssumption
<1>1. PICK out \in Seq(1 .. NumFrames) :
          x = Has(Tailing(i, s), out) /\ EventsOf(c) \o out = EventsOf(i)
  BY DEF Reached
<1>2. ASSUME i = m PROVE Reached(Taken(x), c, m, s)
  <2>1. x.left = Tailing(m, s)
    BY <1>1, <1>2 DEF Has
  <2>2. Boundaries(x.left) = {}
    BY <2>1, StayAt
  <2>3. Taken(x) = x
    BY <2>2 DEF Taken
  <2>4. QED
    BY <1>2, <2>3
<1>3. ASSUME i < m PROVE Reached(Taken(x), c, i + 1, s)
  <2>1. i \in 0 .. NumFrames - 1 /\ i + 1 \in 0 .. NumFrames /\ i + 1 \in 1 .. NumFrames
        /\ m \in i + 1 .. NumFrames /\ m \in 0 .. NumFrames
    BY <1>0, <1>3
  <2>2. Until(i + 1) <= Until(m) /\ Until(m) <= s /\ Until(i + 1) \in Nat /\ Until(m) \in Nat
    BY <2>1, UntilMonotone, UptoStep DEF At
  <2>3. Until(i + 1) <= s
    BY <2>2
  <2>4. Taken(x) = Has(Tailing(i + 1, s), out \o EventOf(i + 1))
    BY <1>1, <2>1, <2>3, TakenAt
  <2>5. PICK e \in Seq(1 .. NumFrames) : e = EventOf(i + 1)
    <3>1. PICK f \in 1 .. NumFrames : f = i + 1
      BY <2>1
    <3>2. <<f>> \in Seq(1 .. NumFrames) /\ <<>> \in Seq(1 .. NumFrames)
      BY EmptySeq
    <3>3. EventOf(f) \in Seq(1 .. NumFrames)
      BY <3>2 DEF EventOf
    <3>4. QED
      BY <3>1, <3>3
  <2>6. PICK a \in Seq(1 .. NumFrames) : a = EventsOf(c)
    BY EventsStep
  <2>7. out \o e \in Seq(1 .. NumFrames)
    BY ConcatParts
  <2>8. a \o (out \o e) = (a \o out) \o e
    <3>1. PICK T : T = 1 .. NumFrames
      OBVIOUS
    <3>2. a \in Seq(T) /\ out \in Seq(T) /\ e \in Seq(T)
      BY <3>1
    <3>3. (a \o out) \o e = a \o (out \o e)
      BY <3>2, ConcatThree, SMTT(60)
    <3>4. QED
      BY <3>3
  <2>9. EventsOf(i + 1) = EventsOf(i) \o e
    BY <2>1, <2>5, EventsStep
  <2>10. a \o (out \o e) = EventsOf(i + 1)
    BY <1>1, <2>6, <2>8, <2>9
  <2>11. QED
    BY <2>4, <2>5, <2>6, <2>7, <2>10 DEF Reached
<1>4. QED
  BY <1>2, <1>3

\* One chunk, however many frames it completes.
LEMMA PushedAt ==
    ASSUME FramesFit, NEW c \in 0 .. NumFrames, NEW m \in c .. NumFrames,
           NEW s \in Nat, s <= Len(Bytes), At(m, s)
    PROVE  Reached(Push(Tailing(c, s)), c, m, s)
<1>0. NumFrames \in Nat /\ m \in 0 .. NumFrames
  BY LimitsAssumption
<1>1. /\ Until(c) + (m - c) <= Until(m) /\ Until(m) <= s
      /\ Until(c) \in Nat /\ Until(m) \in Nat
  BY <1>0, UntilGrows, UptoStep DEF At
<1>2. Until(c) <= s /\ m - c <= s - Until(c)
  BY <1>0, <1>1
<1>3. PICK u \in Seq(Byte), n \in Nat : u = Tailing(c, s) /\ n = Len(u) /\ n = s - Until(c)
  BY <1>2, TailingType
<1>4. PICK g : Takes(g, u, n) /\ Push(u) = g[n]
  BY <1>3, PushChoice
<1> DEFINE S == {j \in Nat : j \in 0 .. n =>
                    \E i \in c .. m : Reached(g[j], c, i, s) /\ (i = c + j \/ i = m)}
<1>5. 0 \in S
  <2>1. TakesHere(g, u, 0)
    <3>1. 0 \in 0 .. n
      OBVIOUS
    <3>2. QED
      BY <1>4, <3>1, TakesAt
  <2>2. g[0] = Has(Tailing(c, s), <<>>)
    BY <1>3, <2>1 DEF TakesHere, Has
  <2>3. PICK a \in Seq(1 .. NumFrames) : a = EventsOf(c)
    BY EventsStep
  <2>4. a \o <<>> = a /\ <<>> \in Seq(1 .. NumFrames)
    BY EmptySeq
  <2>5. Reached(g[0], c, c, s)
    BY <2>2, <2>3, <2>4 DEF Reached
  <2>6. c \in c .. m /\ c = c + 0
    BY <1>0
  <2>7. QED
    BY <2>5, <2>6
<1>6. ASSUME NEW j \in Nat, j \in S PROVE j + 1 \in S
  <2>1. SUFFICES ASSUME j + 1 \in 0 .. n
                 PROVE  \E i \in c .. m : Reached(g[j + 1], c, i, s) /\ (i = c + (j + 1) \/ i = m)
    OBVIOUS
  <2>2. j \in 0 .. n
    BY <2>1
  <2>3. PICK i \in c .. m : Reached(g[j], c, i, s) /\ (i = c + j \/ i = m)
    BY <1>6, <2>2
  <2>4. TakesHere(g, u, j + 1)
    BY <1>4, <2>1, TakesAt
  <2>5. g[j + 1] = Taken(g[j])
    <3>1. j + 1 # 0 /\ j + 1 - 1 = j
      OBVIOUS
    <3>2. QED
      BY <2>4, <3>1 DEF TakesHere
  <2>6. PICK x : x = g[j]
    OBVIOUS
  <2>7. /\ i = m => Reached(Taken(x), c, m, s)
        /\ i < m => Reached(Taken(x), c, i + 1, s)
    BY <2>3, <2>6, ReachedNext
  <2>8. CASE i = m
    <3>1. m \in c .. m
      BY <1>0
    <3>2. QED
      BY <2>5, <2>6, <2>7, <2>8, <3>1
  <2>9. CASE i < m
    <3>1. i + 1 \in c .. m /\ i + 1 = c + (j + 1)
      BY <1>0, <2>3, <2>9
    <3>2. Reached(g[j + 1], c, i + 1, s)
      BY <2>5, <2>6, <2>7, <2>9
    <3>3. QED
      BY <3>1, <3>2
  <2>10. QED
    BY <1>0, <2>8, <2>9
<1>7. Nat \subseteq S
  <2> HIDE DEF S
  <2>1. QED
    BY <1>5, <1>6, NatInductionSet
<1>8. n \in S
  <2> HIDE DEF S
  <2>1. QED
    BY <1>7
<1>9. PICK i \in c .. m : Reached(g[n], c, i, s) /\ (i = c + n \/ i = m)
  <2>1. n \in 0 .. n
    OBVIOUS
  <2>2. QED
    BY <1>8, <2>1
<1>10. i = m
  BY <1>0, <1>2, <1>3, <1>9
<1>11. QED
  BY <1>3, <1>4, <1>9, <1>10
-----------------------------------------------------------------------------
(* What is left when the bytes end, and a buffer that is too long *)

\* A chunk goes to the end.
LEMMA TailingMore ==
    ASSUME FramesFit, NEW c \in 0 .. NumFrames, NEW i \in Nat, NEW s \in Nat,
           Until(c) <= i, i <= s, s <= Len(Bytes)
    PROVE  Tailing(c, s) = Tailing(c, i) \o SubSeq(Bytes, i + 1, s)
<1>1. PICK b \in Seq(Byte), k \in Nat : b = Bytes /\ k = Until(c)
  BY BytesType, UptoStep
<1>2. k <= i /\ i <= s /\ s <= Len(b)
  BY <1>1
<1>3. SubSeq(b, k + 1, s) = SubSeq(b, k + 1, i) \o SubSeq(b, i + 1, s)
  BY <1>2, SubSeqSplit
<1>4. QED
  BY <1>1, <1>3 DEF Tailing

\* A buffer without the end of a frame is refused only if the frame is too long.
LEMMA OversizedAt ==
    ASSUME FramesFit, NEW c \in 0 .. NumFrames, NEW m \in c .. NumFrames,
           NEW s \in Nat, s <= Len(Bytes), At(m, s), Oversized(Tailing(c, s))
    PROVE  \E f \in DOMAIN frames : Len(BytesOf(f)) > MaxFrame + 1
<1>0. /\ NumFrames \in Nat /\ m \in 0 .. NumFrames /\ c \in 0 .. NumFrames
      /\ MaxFrame \in Nat /\ DOMAIN frames = 1 .. NumFrames
  BY LimitsAssumption DEF FramesFit
<1>1. /\ Until(c) <= Until(m) /\ Until(m) <= s
      /\ Until(c) \in Nat /\ Until(m) \in Nat
  BY <1>0, UntilMonotone, UptoStep DEF At
<1>2. Until(c) <= s
  BY <1>1
<1>3. PICK u \in Seq(Byte), d \in Nat : u = Tailing(c, s) /\ d = Len(u) /\ d = s - Until(c)
  BY <1>2, TailingType
<1>4. d > MaxFrame /\ Boundaries(u) = {}
  BY <1>3 DEF Oversized
<1>5. ASSUME c < m PROVE FALSE
  <2>1. c \in 0 .. NumFrames - 1 /\ c + 1 \in 0 .. NumFrames /\ m \in c + 1 .. NumFrames
        /\ c + 1 \in 1 .. NumFrames
    BY <1>0, <1>5
  <2>2. Until(c + 1) <= Until(m) /\ Until(c + 1) \in Nat
    BY <2>1, UntilMonotone, UptoStep
  <2>3. Until(c + 1) <= s
    BY <1>1, <2>2
  <2>4. Len(BytesOf(c + 1)) <= Len(u)
    BY <1>3, <2>1, <2>3, TailingLeft
  <2>5. PICK f \in 1 .. NumFrames : f = c + 1
    BY <2>1
  <2>6. Begins(u, BytesOf(f))
    BY <1>2, <1>3, <2>1, <2>5, TailingBegins
  <2>7. Boundaries(u) # {}
    BY <2>4, <2>5, <2>6, FrameTaken
  <2>8. QED
    BY <1>4, <2>7
<1>6. c = m
  BY <1>0, <1>5
<1>7. ASSUME m = NumFrames PROVE FALSE
  <2>1. s <= Until(m)
    BY <1>7, BytesType
  <2>2. d = 0
    BY <1>1, <1>3, <1>6, <2>1
  <2>3. QED
    BY <1>0, <1>4, <2>2
<1>8. m \in 0 .. NumFrames - 1 /\ m + 1 \in 1 .. NumFrames /\ m < NumFrames
  BY <1>0, <1>7
<1>9. s < Until(m + 1)
  BY <1>8 DEF At
<1>10. Until(m + 1) = Until(m) + Len(BytesOf(m + 1)) /\ Len(BytesOf(m + 1)) \in Nat
  BY <1>8, UptoStep, BytesOfType
<1>11. Len(BytesOf(m + 1)) > MaxFrame + 1
  BY <1>0, <1>1, <1>3, <1>4, <1>6, <1>9, <1>10
<1>12. QED
  BY <1>0, <1>8, <1>11

\* What is left is nothing, a line that is no data, or the event of the next
\* frame, whose end did not come.
LEMMA FlushedAt ==
    ASSUME FramesFit, NEW c, NEW s \in Nat, s <= Len(Bytes), At(c, s),
           DataOf(Tailing(c, s)) # <<>>
    PROVE  /\ c + 1 \in 0 .. NumFrames
           /\ EventsOf(c) \o Parsed(Tailing(c, s)) = EventsOf(c + 1)
<1>0. NumFrames \in Nat /\ c \in 0 .. NumFrames /\ Until(c) <= s
  BY LimitsAssumption DEF At
<1>1. PICK u \in Seq(Byte), k \in Nat, d \in Nat :
          u = Tailing(c, s) /\ k = Until(c) /\ d = s - k /\ Len(u) = d
  BY <1>0, TailingType
<1>2. ASSUME c = NumFrames PROVE FALSE
  <2>1. s = k /\ d = 0
    BY <1>0, <1>1, <1>2, BytesType
  <2>2. u = <<>>
    BY <1>1, <2>1, EmptySeq
  <2>3. DataOf(u) = <<>>
    BY <2>2, AmongEmpty DEF DataOf
  <2>4. QED
    BY <1>1, <2>3
<1>3. c \in 0 .. NumFrames - 1 /\ c + 1 \in 1 .. NumFrames /\ c < NumFrames
      /\ c + 1 \in 0 .. NumFrames
  BY <1>0, <1>2
<1>4. PICK f \in 1 .. NumFrames : f = c + 1
  BY <1>3
<1>5. PICK t : Running(t, Eol) /\ BytesOf(f) = Mark(f, t \o Eol) /\ (Spells(t) <=> HasEvent(f))
  BY FrameRuns
<1>6. PICK n \in Nat, e \in Nat : n = Len(t) /\ e = Len(Eol)
  BY <1>5, EolIs, LenProperties DEF Running
<1>7. PICK x : x = t \o Eol
  OBVIOUS
<1>8. /\ x \in Seq(Kinds) /\ Len(x) = n + e
      /\ \A i \in 1 .. n : x[i] = t[i]
      /\ \A i \in 1 .. e : x[n + i] = Eol[i]
  <2>1. t \in Seq(Kinds) /\ Eol \in Seq(Kinds)
    BY <1>5, EolIs DEF Running
  <2>2. QED
    BY <1>6, <1>7, <2>1, ConcatParts
<1>9. PICK b : b = BytesOf(f)
  OBVIOUS
<1>10. Len(b) = n + e /\ \A i \in 1 .. n + e : b[i] = <<f, x[i]>>
  BY <1>5, <1>7, <1>8, <1>9, MarkType, ZenonT(60)
<1>11. d < n + e
  <2>1. s < Until(c + 1) /\ Until(c + 1) = k + Len(b)
    BY <1>1, <1>3, <1>4, <1>9, UptoStep DEF At
  <2>2. QED
    BY <1>1, <1>10, <2>1
<1>12. \A i \in 1 .. d : u[i] = <<f, x[i]>>
  <2>1. Begins(u, b)
    BY <1>0, <1>1, <1>3, <1>4, <1>9, TailingBegins
  <2>2. TAKE i \in 1 .. d
  <2>3. i \in 1 .. n + e /\ i <= n + e
    BY <1>11
  <2>4. u[i] = b[i]
    BY <1>1, <1>10, <2>1, <2>3 DEF Begins
  <2>5. QED
    BY <1>10, <2>3, <2>4
<1>13. u \in Seq({f} \X Kinds)
  <2> DEFINE S == {f} \X Kinds
  <2>1. \A i \in 1 .. d : u[i] \in S
    <3>1. TAKE i \in 1 .. d
    <3>2. i \in 1 .. Len(x)
      BY <1>8, <1>11
    <3>3. x[i] \in Kinds
      BY <1>8, <3>2, ElementOfSeq
    <3>4. PICK w \in Kinds : w = x[i] /\ u[i] = <<f, w>>
      BY <1>12, <3>3
    <3>5. QED
      BY <3>4
  <2> HIDE DEF S
  <2>2. u = [i \in 1 .. d |-> u[i]]
    BY <1>1
  <2>3. u \in Seq(S)
    BY <2>1, <2>2
  <2>4. QED
    BY <2>3 DEF S
<1>14. PICK j \in 1 .. Len(u) : u[j][2] \in DataKinds
  <2>1. DataOf(u) # <<>>
    BY <1>1
  <2>2. QED
    BY <1>13, <2>1, ParsedOf
<1>15. x[j] \in DataKinds /\ j \in 1 .. n + e
  <2>1. j \in 1 .. d
    BY <1>1
  <2>2. u[j] = <<f, x[j]>>
    BY <1>12, <2>1
  <2>3. u[j][2] = x[j]
    BY <2>2
  <2>4. QED
    BY <1>11, <1>14, <2>1, <2>3
<1>16. j \in 1 .. n
  <2>1. \A i \in 1 .. e : Eol[i] \notin DataKinds
    BY <1>6 DEF Eol, DataKinds
  <2>2. SUFFICES ASSUME j > n PROVE FALSE
    BY <1>15
  <2>3. PICK i \in 1 .. e : j = n + i
    <3>1. j - n \in 1 .. e /\ j = n + (j - n)
      BY <1>15, <2>2
    <3>2. QED
      BY <3>1
  <2>4. x[j] = Eol[i]
    BY <1>8, <2>3
  <2>5. QED
    BY <1>15, <2>1, <2>4
<1>17. Spells(t)
  <2>1. t[j] \in DataKinds
    BY <1>8, <1>15, <1>16
  <2>2. QED
    BY <1>6, <1>16, <2>1 DEF Spells
<1>18. EventOf(f) = <<f>>
  BY <1>5, <1>17 DEF EventOf
<1>19. Parsed(u) = <<f>>
  BY <1>13, <1>14, ParsedOf
<1>20. EventsOf(c + 1) = EventsOf(c) \o EventOf(c + 1)
  BY <1>3, EventsStep
<1>21. QED
  BY <1>1, <1>3, <1>4, <1>18, <1>19, <1>20
-----------------------------------------------------------------------------
(* What the upstream sends stays what it is *)

LEMMA SteadyBytes ==
    ASSUME UNCHANGED upstream
    PROVE  /\ Bytes' = Bytes /\ \A n : Until(n)' = Until(n) /\ BytesOf(n)' = BytesOf(n)
           /\ Eol' = Eol
<1>1. frames' = frames /\ eol' = eol
  BY DEF upstream
<1>2. Eol' = Eol
  BY <1>1 DEF Eol
<1>3. \A n : BytesOf(n)' = BytesOf(n)
  BY <1>1, <1>2 DEF BytesOf
<1>4. Bytes' = Bytes
  BY <1>1, <1>3 DEF Bytes
<1>5. \A n : Until(n)' = Until(n)
  BY <1>3 DEF Until
<1>6. QED
  BY <1>2, <1>3, <1>4, <1>5

LEMMA SteadyWatch ==
    ASSUME UNCHANGED upstream, NEW s, NEW c
    PROVE  Watch(s, c)' = Watch(s, c)
<1>1. frames' = frames
  BY DEF upstream
<1>2. QED
  BY <1>1 DEF Watch, Observe1, OnLine, OnEvent, OnData, NamesTerminal

LEMMA SteadyEvents ==
    ASSUME UNCHANGED upstream
    PROVE  /\ \A n : EventsOf(n)' = EventsOf(n)
           /\ \A f : Recognizable(f)' <=> Recognizable(f)
<1>1. frames' = frames
  BY DEF upstream
<1>2. QED
  BY <1>1 DEF EventsOf, HasEvent, Recognizable
-----------------------------------------------------------------------------
(* The inductive invariant *)

Types ==
    /\ FramesFit /\ FramesSane
    /\ sent \in 0 .. Len(Bytes)
    /\ Unreturned(line, armed, terminal) \in WState
    /\ observed \in Record
    /\ lane \in {"open", "terminated", "ended", "failed"}
    /\ events \in Seq(1 .. NumFrames)
    /\ decoder \in {"reading", "ended", "invalid", "oversized", "failed"}

\* The chunks the terminator has seen leave it as the bytes in one piece would.
TerminatorFollows ==
    /\ lane = "open" => Watch(Neutral, Sofar(sent)) = Unreturned(line, armed, terminal)
    /\ lane = "terminated" => /\ Watch(Neutral, Sofar(sent)).found = TRUE
                              /\ Watch(Neutral, Sofar(sent)).terminal = observed

\* What the decoder of a stream with n complete frames has.
DecoderAt(n) ==
    /\ decoder = "reading" => buffer = Tailing(n, sent) /\ events = EventsOf(n)
    /\ decoder \in {"ended", "invalid"} =>
          \E m \in 0 .. NumFrames : (m = n \/ m = n + 1) /\ events = EventsOf(m)

DecoderFollows ==
    /\ \A n \in 0 .. NumFrames : At(n, sent) => DecoderAt(n)
    /\ decoder \in {"ended", "invalid"} => lane # "open"
    /\ decoder = "oversized" => \E f \in DOMAIN frames : Len(BytesOf(f)) > MaxFrame + 1

SseInv == Types /\ TerminatorFollows /\ DecoderFollows

LEMMA NothingSent ==
    ASSUME FramesFit
    PROVE  Sofar(0) = <<>> /\ \A n \in 0 .. NumFrames : At(n, 0) => n = 0
<1>0. NumFrames \in Nat
  BY LimitsAssumption
<1>1. Sofar(0) = <<>>
  <2>1. Len(Bytes) \in Nat
    BY BytesType
  <2>2. Sofar(0) \in Seq(Byte) /\ Len(Sofar(0)) = 0
    <3>1. 0 <= 0 /\ 0 <= Len(Bytes)
      BY <2>1
    <3>2. QED
      BY <3>1, SofarSplit
  <2>3. QED
    BY <2>2, EmptySeq
<1>2. ASSUME NEW n \in 0 .. NumFrames, At(n, 0) PROVE n = 0
  <2>1. 0 \in 0 .. NumFrames /\ n \in 0 .. NumFrames
    BY <1>0
  <2>2. Until(0) + (n - 0) <= Until(n) /\ Until(0) = 0 /\ Until(n) <= 0 /\ Until(n) \in Nat
    BY <1>2, <2>1, UntilGrows, UptoStep DEF At
  <2>3. QED
    BY <2>2
<1>3. QED
  BY <1>1, <1>2

LEMMA SseInvInit == Init => SseInv
<1> SUFFICES ASSUME Init PROVE SseInv
  OBVIOUS
<1>0. NumFrames \in Nat /\ 0 \in 0 .. NumFrames
  BY LimitsAssumption
<1>1. FramesFit
  BY DEF Init, FramesFit
<1>2. FramesSane
  BY DEF Init, FramesSane
<1>3. Len(Bytes) \in Nat
  BY <1>1, BytesType
<1>4. Unreturned(line, armed, terminal) = Neutral
  BY DEF Init, Neutral
<1>5. Types
  <2>1. sent \in 0 .. Len(Bytes)
    <3>1. sent = 0
      BY DEF Init
    <3>2. QED
      BY <1>3, <3>1
  <2>2. Unreturned(line, armed, terminal) \in WState /\ observed \in Record
    BY <1>4, NeutralType DEF Init
  <2>3. lane \in {"open", "terminated", "ended", "failed"}
        /\ decoder \in {"reading", "ended", "invalid", "oversized", "failed"}
    BY DEF Init
  <2>4. events \in Seq(1 .. NumFrames)
    BY EmptySeq DEF Init
  <2>5. QED
    BY <1>1, <1>2, <2>1, <2>2, <2>3, <2>4 DEF Types
<1>6. TerminatorFollows
  <2>1. sent = 0 /\ lane = "open"
    BY DEF Init
  <2>2. Watch(Neutral, Sofar(sent)) = Neutral
    BY <1>1, <2>1, NothingSent, WatchEmpty
  <2>3. QED
    BY <1>4, <2>1, <2>2 DEF TerminatorFollows
<1>7. DecoderFollows
  <2>1. sent = 0 /\ decoder = "reading" /\ buffer = <<>> /\ events = <<>>
    BY DEF Init
  <2>2. EventsOf(0) = <<>>
    BY <1>1, EventsStep
  <2>3. Tailing(0, 0) = <<>>
    <3>1. Until(0) = 0 /\ 0 <= Len(Bytes)
      BY <1>1, <1>3, UptoStep
    <3>2. Tailing(0, 0) \in Seq(Byte) /\ Len(Tailing(0, 0)) = 0
      BY <1>0, <1>1, <3>1, TailingType
    <3>3. QED
      BY <3>2, EmptySeq
  <2>4. DecoderAt(0)
    BY <2>1, <2>2, <2>3 DEF DecoderAt
  <2>5. \A n \in 0 .. NumFrames : At(n, sent) => DecoderAt(n)
    BY <1>1, <2>1, <2>4, NothingSent
  <2>6. QED
    BY <2>1, <2>5 DEF DecoderFollows
<1>8. QED
  BY <1>5, <1>6, <1>7 DEF SseInv

\* Frames are completed in order.
LEMMA AtGrows ==
    ASSUME FramesFit, NEW i \in Nat, NEW s \in Nat, i <= s, NEW c, At(c, i), NEW m, At(m, s)
    PROVE  c \in 0 .. NumFrames /\ m \in c .. NumFrames
<1>0. NumFrames \in Nat /\ c \in 0 .. NumFrames /\ m \in 0 .. NumFrames
      /\ Until(c) <= i /\ (m < NumFrames => s < Until(m + 1))
  BY LimitsAssumption DEF At
<1>1. ASSUME m < c PROVE FALSE
  <2>1. m + 1 \in 0 .. NumFrames /\ c \in m + 1 .. NumFrames /\ m < NumFrames
    BY <1>0, <1>1
  <2>2. Until(m + 1) <= Until(c) /\ Until(m + 1) \in Nat /\ Until(c) \in Nat
    BY <1>0, <2>1, UntilMonotone, UptoStep
  <2>3. QED
    BY <1>0, <2>1, <2>2
<1>2. QED
  BY <1>0, <1>1

\* Of one position there is one number of complete frames.
LEMMA AtUnique ==
    ASSUME FramesFit, NEW s \in Nat, NEW c, At(c, s), NEW m, At(m, s)
    PROVE  c = m
<1>0. NumFrames \in Nat /\ s <= s
  BY LimitsAssumption
<1>1. c \in 0 .. NumFrames /\ m \in c .. NumFrames
  BY <1>0, AtGrows
<1>2. m \in 0 .. NumFrames /\ c \in m .. NumFrames
  BY <1>0, AtGrows
<1>3. QED
  BY <1>0, <1>1, <1>2

\* What was sent and a chunk are what is sent then.
LEMMA WatchOn ==
    ASSUME FramesFit, NEW i \in Nat, NEW s \in Nat, i <= s, s <= Len(Bytes),
           NEW u, Watch(Neutral, Sofar(i)) = u
    PROVE  Watch(Neutral, Sofar(s)) = Watch(u, SubSeq(Bytes, i + 1, s))
<1>1. /\ Sofar(i) \in Seq(Byte) /\ SubSeq(Bytes, i + 1, s) \in Seq(Byte)
      /\ Sofar(s) = Sofar(i) \o SubSeq(Bytes, i + 1, s)
  BY SofarSplit
<1>2. PICK a \in Seq(Byte), b \in Seq(Byte) : a = Sofar(i) /\ b = SubSeq(Bytes, i + 1, s)
  BY <1>1
<1>3. Watch(Neutral, a \o b) = Watch(Watch(Neutral, a), b)
  BY WatchConcat
<1>4. QED
  BY <1>1, <1>2, <1>3
-----------------------------------------------------------------------------
(* Every step keeps the invariant *)

LEMMA WStateIs ==
    /\ \A w \in WState :
          /\ w.line \in Lines /\ w.armed \in BOOLEAN /\ w.terminal \in Record
          /\ w.found \in BOOLEAN
          /\ ~ w.found => w = Unreturned(w.line, w.armed, w.terminal)
    /\ \A l \in Lines, a \in BOOLEAN, t \in Record : Unreturned(l, a, t) \in WState
<1>1. ASSUME NEW w \in WState
      PROVE  /\ w.line \in Lines /\ w.armed \in BOOLEAN /\ w.terminal \in Record
             /\ w.found \in BOOLEAN
             /\ ~ w.found => w = Unreturned(w.line, w.armed, w.terminal)
  BY DEF WState, Unreturned
<1>2. ASSUME NEW l \in Lines, NEW a \in BOOLEAN, NEW t \in Record
      PROVE  Unreturned(l, a, t) \in WState
  BY DEF WState, Unreturned
<1>3. QED
  BY <1>1, <1>2

LEMMA SteadyTypes ==
    ASSUME FramesFit, FramesSane, UNCHANGED upstream
    PROVE  /\ FramesFit' /\ FramesSane' /\ Len(Bytes)' = Len(Bytes)
           /\ WState' = WState /\ Record' = Record
<1>1. frames' = frames /\ eol' = eol /\ Bytes' = Bytes
  BY SteadyBytes DEF upstream
<1>2. FramesFit'
  BY <1>1 DEF FramesFit
<1>3. FramesSane'
  BY <1>1 DEF FramesSane
<1>4. WState' = WState /\ Record' = Record
  BY DEF WState, Record, Lines, Byte
<1>5. QED
  BY <1>1, <1>2, <1>3, <1>4

LEMMA DecoderThen ==
    ASSUME UNCHANGED upstream, NEW m \in 0 .. NumFrames, NEW s, sent' = s,
           decoder' = "reading" => buffer' = Tailing(m, s) /\ events' = EventsOf(m),
           decoder' \in {"ended", "invalid"} =>
               \E k \in 0 .. NumFrames : (k = m \/ k = m + 1) /\ events' = EventsOf(k)
    PROVE  DecoderAt(m)'
<1>1. /\ Bytes' = Bytes /\ \A n : Until(n)' = Until(n)
      /\ \A n : EventsOf(n)' = EventsOf(n)
  BY SteadyBytes, SteadyEvents
<1>2. Tailing(m, sent)' = Tailing(m, s)
  BY <1>1 DEF Tailing
<1>3. QED
  BY <1>1, <1>2 DEF DecoderAt

LEMMA FollowsThen ==
    ASSUME FramesFit, UNCHANGED upstream, NEW s \in Nat, sent' = s,
           NEW m, At(m, s), DecoderAt(m)'
    PROVE  (\A n \in 0 .. NumFrames : At(n, sent) => DecoderAt(n))'
<1>1. \A n : Until(n)' = Until(n)
  BY SteadyBytes
<1>2. \A n : At(n, sent)' => At(n, s)
  BY <1>1 DEF At
<1>3. \A n : At(n, s) => n = m
  BY AtUnique
<1>4. QED
  BY <1>2, <1>3

LEMMA SofarThen ==
    ASSUME UNCHANGED upstream, NEW s, sent' = s
    PROVE  Watch(Neutral, Sofar(sent))' = Watch(Neutral, Sofar(s))
<1>1. Bytes' = Bytes
  BY SteadyBytes
<1>2. Sofar(sent)' = Sofar(s)
  BY <1>1 DEF Sofar
<1>3. PICK c : c = Sofar(s)
  OBVIOUS
<1>4. Watch(Neutral, c)' = Watch(Neutral, c)
  BY SteadyWatch
<1>5. Neutral' = Neutral
  BY DEF Neutral
<1>6. frames' = frames
  BY DEF upstream
<1>7. QED
  BY <1>2, <1>3, <1>5, <1>6 DEF Watch, Observe1, OnLine, OnEvent, OnData, NamesTerminal

LEMMA ReceiveFollows ==
    ASSUME SseInv, NEW n \in 1 .. Len(Bytes), Receive(n)
    PROVE  /\ Unreturned(line', armed', terminal') \in WState /\ observed' \in Record
           /\ lane' \in {"open", "terminated"}
           /\ TerminatorFollows'
<1>0. FramesFit /\ FramesSane /\ Unreturned(line, armed, terminal) \in WState /\ observed \in Record
  BY DEF SseInv, Types
<1>1. PICK i \in Nat, s \in Nat : i = sent /\ s = i + n /\ s = sent' /\ i <= s /\ s <= Len(Bytes)
  <2>1. sent \in Nat /\ Len(Bytes) \in Nat
    BY <1>0, BytesType DEF SseInv, Types
  <2>2. sent + n <= Len(Bytes) /\ sent' = sent + n
    BY DEF Receive
  <2>3. QED
    BY <2>1, <2>2
<1>2. PICK chunk \in Seq(Byte) : chunk = SubSeq(Bytes, i + 1, s)
  BY <1>0, <1>1, SofarSplit
<1>3. PICK u \in WState : u = Unreturned(line, armed, terminal)
  BY <1>0
<1>4. PICK w \in WState : w = Watch(u, chunk)
  BY <1>0, WatchType
<1>5. w = Observe(chunk)
  BY <1>3, <1>4 DEF Observe
<1>6. w = Watch(Neutral, Sofar(s))
  <2>1. Watch(Neutral, Sofar(i)) = u
    BY <1>1, <1>3 DEF SseInv, TerminatorFollows, Receive
  <2>2. QED
    BY <1>0, <1>1, <1>2, <1>4, <2>1, WatchOn
<1>7. /\ line' = w.line /\ armed' = w.armed
      /\ w.found => lane' = "terminated" /\ observed' = w.terminal /\ terminal' = NoTerminal
      /\ ~ w.found => terminal' = w.terminal /\ lane' = "open" /\ observed' = observed
  <2>1. SubSeq(Bytes, sent + 1, sent + n) = chunk
    BY <1>1, <1>2
  <2>2. QED
    BY <1>5, <2>1 DEF Receive
<1>8. /\ w.line \in Lines /\ w.armed \in BOOLEAN /\ w.terminal \in Record /\ w.found \in BOOLEAN
      /\ ~ w.found => w = Unreturned(w.line, w.armed, w.terminal)
  BY WStateIs
<1>9. UNCHANGED upstream
  BY DEF Receive
<1>10. Watch(Neutral, Sofar(sent))' = w
  BY <1>1, <1>6, <1>9, SofarThen
<1>11. CASE w.found
  <2>1. line' \in Lines /\ armed' \in BOOLEAN /\ terminal' \in Record
    BY <1>7, <1>8, <1>11, NeutralType
  <2>2. Unreturned(line', armed', terminal') \in WState
    BY <2>1, WStateIs
  <2>3. w.found = TRUE
    BY <1>8, <1>11
  <2>4. lane' = "terminated" /\ observed' = w.terminal
    BY <1>7, <1>11
  <2>5. TerminatorFollows'
    BY <1>10, <2>3, <2>4 DEF TerminatorFollows
  <2>6. QED
    BY <1>8, <2>2, <2>4, <2>5
<1>12. CASE ~ w.found
  <2>1. w = Unreturned(line', armed', terminal')
    BY <1>7, <1>8, <1>12
  <2>2. lane' = "open" /\ observed' = observed
    BY <1>7, <1>12
  <2>3. TerminatorFollows'
    BY <1>10, <2>1, <2>2 DEF TerminatorFollows, Unreturned
  <2>4. QED
    BY <1>0, <2>1, <2>2, <2>3
<1>13. QED
  BY <1>11, <1>12

LEMMA ReceiveDecodes ==
    ASSUME SseInv, NEW n \in 1 .. Len(Bytes), Receive(n)
    PROVE  /\ events' \in Seq(1 .. NumFrames)
           /\ decoder' \in {"reading", "oversized", "failed"}
           /\ DecoderFollows'
<1>0. /\ FramesFit /\ events \in Seq(1 .. NumFrames) /\ NumFrames \in Nat
      /\ decoder \in {"reading", "ended", "invalid", "oversized", "failed"}
      /\ lane = "open" /\ UNCHANGED upstream
  BY LimitsAssumption DEF SseInv, Types, Receive
<1>1. PICK i \in Nat, s \in Nat : i = sent /\ s = i + n /\ s = sent' /\ i <= s /\ s <= Len(Bytes)
  <2>1. sent \in Nat /\ Len(Bytes) \in Nat
    BY <1>0, BytesType DEF SseInv, Types
  <2>2. sent + n <= Len(Bytes) /\ sent' = sent + n
    BY DEF Receive
  <2>3. QED
    BY <2>1, <2>2
<1>2. PICK chunk : chunk = SubSeq(Bytes, i + 1, s)
  OBVIOUS
<1>3. PICK c : At(c, i)
  <2>1. i \in 0 .. Len(Bytes)
    BY <1>1 DEF SseInv, Types
  <2>2. QED
    BY <1>0, <2>1, AtExists
<1>4. PICK m : At(m, s)
  <2>1. s \in 0 .. Len(Bytes)
    BY <1>1, BytesType, <1>0
  <2>2. QED
    BY <1>0, <2>1, AtExists
<1>5. c \in 0 .. NumFrames /\ m \in c .. NumFrames /\ m \in 0 .. NumFrames /\ Until(c) <= i
  <2>1. c \in 0 .. NumFrames /\ m \in c .. NumFrames
    BY <1>0, <1>1, <1>3, <1>4, AtGrows
  <2>2. QED
    BY <1>3, <1>4, <2>1 DEF At
<1>6. PICK buf : buf = buffer \o chunk
  OBVIOUS
<1>7. /\ decoder # "reading" => UNCHANGED decoding
      /\ decoder = "reading" /\ Oversized(buf) =>
            decoder' = "oversized" /\ events' = events
      /\ decoder = "reading" /\ ~ Oversized(buf) =>
            /\ buffer' = Push(buf).left /\ events' = events \o Push(buf).out
            /\ decoder' = "reading"
  <2>1. SubSeq(Bytes, sent + 1, sent + n) = chunk
    BY <1>1, <1>2
  <2>2. QED
    BY <1>6, <2>1 DEF Receive
<1>8. DecoderAt(c) /\ decoder \notin {"ended", "invalid"}
      /\ (decoder = "oversized" => \E f \in DOMAIN frames : Len(BytesOf(f)) > MaxFrame + 1)
  BY <1>0, <1>1, <1>3, <1>5 DEF SseInv, DecoderFollows
<1>9. (\E f \in DOMAIN frames : Len(BytesOf(f)) > MaxFrame + 1) =>
          (\E f \in DOMAIN frames : Len(BytesOf(f)) > MaxFrame + 1)'
  <2>1. frames' = frames /\ \A f : BytesOf(f)' = BytesOf(f)
    BY <1>0, SteadyBytes DEF upstream
  <2>2. QED
    BY <2>1
<1>10. ASSUME DecoderAt(m)', events' \in Seq(1 .. NumFrames),
              decoder' \in {"reading", "oversized", "failed"},
              decoder' = "oversized" => \E f \in DOMAIN frames : Len(BytesOf(f)) > MaxFrame + 1
       PROVE  /\ events' \in Seq(1 .. NumFrames)
              /\ decoder' \in {"reading", "oversized", "failed"}
              /\ DecoderFollows'
  <2>1. (\A k \in 0 .. NumFrames : At(k, sent) => DecoderAt(k))'
    BY <1>0, <1>1, <1>4, <1>10, FollowsThen
  <2>2. decoder' \notin {"ended", "invalid"}
    BY <1>10
  <2>3. QED
    BY <1>9, <1>10, <2>1, <2>2 DEF DecoderFollows
<1>11. CASE decoder # "reading"
  <2>1. decoder' = decoder /\ events' = events
    BY <1>7, <1>11 DEF decoding
  <2>2. decoder' \in {"oversized", "failed"}
    BY <1>0, <1>8, <1>11, <2>1
  <2>3. decoder' # "reading" /\ decoder' \notin {"ended", "invalid"}
    BY <2>2
  <2>4. DecoderAt(m)'
    BY <2>3 DEF DecoderAt
  <2>5. QED
    BY <1>0, <1>8, <1>10, <2>1, <2>2, <2>4
<1>12. CASE decoder = "reading"
  <2>1. buffer = Tailing(c, i) /\ events = EventsOf(c)
    BY <1>1, <1>8, <1>12 DEF DecoderAt
  <2>2. buf = Tailing(c, s)
    BY <1>0, <1>1, <1>2, <1>5, <1>6, <2>1, TailingMore
  <2>3. CASE Oversized(buf)
    <3>1. decoder' = "oversized" /\ events' = events
      BY <1>7, <1>12, <2>3
    <3>2. \E f \in DOMAIN frames : Len(BytesOf(f)) > MaxFrame + 1
      BY <1>0, <1>1, <1>4, <1>5, <2>2, <2>3, OversizedAt
    <3>3. DecoderAt(m)'
      BY <3>1 DEF DecoderAt
    <3>4. QED
      BY <1>0, <1>10, <3>1, <3>2, <3>3
  <2>4. CASE ~ Oversized(buf)
    <3>1. /\ buffer' = Push(buf).left /\ events' = events \o Push(buf).out
          /\ decoder' = "reading"
      BY <1>7, <1>12, <2>4
    <3>2. Reached(Push(Tailing(c, s)), c, m, s)
      BY <1>0, <1>1, <1>4, <1>5, PushedAt
    <3>3. PICK out \in Seq(1 .. NumFrames) :
              Push(buf) = Has(Tailing(m, s), out) /\ EventsOf(c) \o out = EventsOf(m)
      BY <2>2, <3>2 DEF Reached
    <3>4. Push(buf).left = Tailing(m, s) /\ Push(buf).out = out
      BY <3>3 DEF Has
    <3>5. buffer' = Tailing(m, s) /\ events' = EventsOf(m)
      BY <2>1, <3>1, <3>3, <3>4
    <3>6. DecoderAt(m)'
      BY <1>0, <1>1, <1>5, <3>1, <3>5, DecoderThen
    <3>7. events' \in Seq(1 .. NumFrames)
      BY <1>0, <1>5, <3>5, EventsStep
    <3>8. QED
      BY <1>10, <3>1, <3>6, <3>7
  <2>5. QED
    BY <2>3, <2>4
<1>13. QED
  BY <1>11, <1>12

LEMMA FlushFollows ==
    ASSUME SseInv, Flush, UNCHANGED <<upstream, sent>>, lane' # "open"
    PROVE  /\ events' \in Seq(1 .. NumFrames)
           /\ decoder' \in {"ended", "invalid"}
           /\ DecoderFollows'
<1>0. /\ FramesFit /\ events \in Seq(1 .. NumFrames) /\ NumFrames \in Nat
      /\ decoder = "reading" /\ UNCHANGED upstream /\ sent' = sent
  BY LimitsAssumption DEF SseInv, Types, Flush
<1>1. PICK s \in Nat : s = sent /\ s <= Len(Bytes) /\ s \in 0 .. Len(Bytes)
  BY <1>0, BytesType DEF SseInv, Types
<1>2. PICK c : At(c, s)
  BY <1>0, <1>1, AtExists
<1>3. c \in 0 .. NumFrames
  BY <1>2 DEF At
<1>4. buffer = Tailing(c, s) /\ events = EventsOf(c)
  BY <1>0, <1>1, <1>2, <1>3 DEF SseInv, DecoderFollows, DecoderAt
<1>5. \E k \in 0 .. NumFrames : (k = c \/ k = c + 1) /\ events' = EventsOf(k)
  <2>1. CASE DataOf(buffer) # <<>> /\ WholeData(buffer)
    <3>1. events' = events \o Parsed(buffer)
      BY <2>1 DEF Flush
    <3>2. c + 1 \in 0 .. NumFrames /\ EventsOf(c) \o Parsed(buffer) = EventsOf(c + 1)
      BY <1>0, <1>1, <1>2, <1>4, <2>1, FlushedAt
    <3>3. QED
      BY <1>4, <3>1, <3>2
  <2>2. CASE ~ (DataOf(buffer) # <<>> /\ WholeData(buffer))
    <3>1. events' = events
      BY <2>2 DEF Flush
    <3>2. QED
      BY <1>3, <1>4, <3>1
  <2>3. QED
    BY <2>1, <2>2
<1>6. decoder' \in {"ended", "invalid"}
  BY DEF Flush
<1>7. events' \in Seq(1 .. NumFrames)
  BY <1>0, <1>5, EventsStep
<1>8. DecoderAt(c)'
  <2>1. decoder' # "reading"
    BY <1>6
  <2>2. QED
    BY <1>0, <1>1, <1>3, <1>5, <2>1, DecoderThen
<1>9. (\A k \in 0 .. NumFrames : At(k, sent) => DecoderAt(k))'
  BY <1>0, <1>1, <1>2, <1>8, FollowsThen
<1>10. DecoderFollows'
  <2>1. decoder' # "oversized"
    BY <1>6
  <2>2. QED
    BY <1>9, <2>1 DEF DecoderFollows
<1>11. QED
  BY <1>6, <1>7, <1>10

\* A decoder that has stopped before the bytes end keeps what it has.
LEMMA StoppedFollows ==
    ASSUME SseInv, UNCHANGED <<upstream, sent, events>>, lane = "open",
           decoder' \in {"oversized", "failed"},
           decoder' = "oversized" => decoder = "oversized"
    PROVE  /\ events' \in Seq(1 .. NumFrames)
           /\ DecoderFollows'
<1>0. /\ FramesFit /\ events \in Seq(1 .. NumFrames) /\ NumFrames \in Nat
      /\ UNCHANGED upstream /\ sent' = sent /\ events' = events
  BY LimitsAssumption DEF SseInv, Types
<1>1. PICK s \in Nat : s = sent /\ s <= Len(Bytes) /\ s \in 0 .. Len(Bytes)
  BY <1>0, BytesType DEF SseInv, Types
<1>2. PICK c : At(c, s)
  BY <1>0, <1>1, AtExists
<1>3. decoder' # "reading" /\ decoder' \notin {"ended", "invalid"}
  OBVIOUS
<1>4. DecoderAt(c)'
  BY <1>3 DEF DecoderAt
<1>5. (\A k \in 0 .. NumFrames : At(k, sent) => DecoderAt(k))'
  BY <1>0, <1>1, <1>2, <1>4, FollowsThen
<1>6. decoder' = "oversized" => (\E f \in DOMAIN frames : Len(BytesOf(f)) > MaxFrame + 1)'
  <2>1. frames' = frames /\ \A f : BytesOf(f)' = BytesOf(f)
    BY <1>0, SteadyBytes DEF upstream
  <2>2. decoder = "oversized" => \E f \in DOMAIN frames : Len(BytesOf(f)) > MaxFrame + 1
    BY DEF SseInv, DecoderFollows
  <2>3. QED
    BY <2>1, <2>2
<1>7. QED
  BY <1>0, <1>3, <1>5, <1>6 DEF DecoderFollows

\* The terminator's part when it has ended or failed, or nothing happens to it.
LEMMA TerminatorStays ==
    ASSUME SseInv, UNCHANGED <<upstream, sent, line, armed, terminal, observed>>,
           lane' \in {"ended", "failed"} \/ lane' = lane
    PROVE  TerminatorFollows'
<1>1. UNCHANGED upstream /\ sent' = sent
  OBVIOUS
<1>2. Watch(Neutral, Sofar(sent))' = Watch(Neutral, Sofar(sent))
  BY <1>1, SofarThen
<1>3. line' = line /\ armed' = armed /\ terminal' = terminal /\ observed' = observed
  OBVIOUS
<1>4. CASE lane' = lane
  BY <1>2, <1>3, <1>4 DEF SseInv, TerminatorFollows, Unreturned
<1>5. CASE lane' \in {"ended", "failed"}
  <2>1. lane' # "open" /\ lane' # "terminated"
    BY <1>5
  <2>2. QED
    BY <2>1 DEF TerminatorFollows
<1>6. QED
  BY <1>4, <1>5

LEMMA TypesThen ==
    ASSUME Types, UNCHANGED upstream, sent' \in 0 .. Len(Bytes),
           Unreturned(line', armed', terminal') \in WState, observed' \in Record,
           lane' \in {"open", "terminated", "ended", "failed"},
           events' \in Seq(1 .. NumFrames),
           decoder' \in {"reading", "ended", "invalid", "oversized", "failed"}
    PROVE  Types'
<1>1. FramesFit /\ FramesSane
  BY DEF Types
<1>2. /\ FramesFit' /\ FramesSane' /\ Len(Bytes)' = Len(Bytes)
      /\ WState' = WState /\ Record' = Record
  BY <1>1, SteadyTypes
<1>3. Unreturned(line, armed, terminal)' = Unreturned(line', armed', terminal')
  BY DEF Unreturned
<1>4. QED
  BY <1>2, <1>3 DEF Types

LEMMA SseInvNext == SseInv /\ [Next]_vars => SseInv'
<1> SUFFICES ASSUME SseInv, [Next]_vars PROVE SseInv'
  OBVIOUS
<1>0. /\ Types /\ FramesFit /\ sent \in 0 .. Len(Bytes)
      /\ Unreturned(line, armed, terminal) \in WState /\ observed \in Record
      /\ lane \in {"open", "terminated", "ended", "failed"}
      /\ events \in Seq(1 .. NumFrames)
      /\ decoder \in {"reading", "ended", "invalid", "oversized", "failed"}
  BY DEF SseInv, Types
<1>1. CASE \E n \in 1 .. Len(Bytes) : Receive(n)
  <2>1. PICK n \in 1 .. Len(Bytes) : Receive(n)
    BY <1>1
  <2>2. /\ Unreturned(line', armed', terminal') \in WState /\ observed' \in Record
        /\ lane' \in {"open", "terminated"}
        /\ TerminatorFollows'
    BY <2>1, ReceiveFollows
  <2>3. /\ events' \in Seq(1 .. NumFrames)
        /\ decoder' \in {"reading", "oversized", "failed"}
        /\ DecoderFollows'
    BY <2>1, ReceiveDecodes
  <2>4. sent' \in 0 .. Len(Bytes)
    <3>1. sent' = sent + n /\ sent + n <= Len(Bytes) /\ Len(Bytes) \in Nat
      BY <1>0, <2>1, BytesType DEF Receive
    <3>2. QED
      BY <1>0, <3>1
  <2>5. UNCHANGED upstream
    BY <2>1 DEF Receive
  <2>6. Types'
    BY <1>0, <2>2, <2>3, <2>4, <2>5, TypesThen
  <2>7. QED
    BY <2>2, <2>3, <2>6 DEF SseInv
<1>2. CASE UpstreamEnd
  <2>1. /\ lane = "open" /\ lane' = "ended"
        /\ UNCHANGED <<upstream, sent, line, armed, terminal, observed>>
        /\ UNCHANGED upstream /\ sent' = sent
    BY <1>2 DEF UpstreamEnd
  <2>2. TerminatorFollows'
    BY <2>1, TerminatorStays
  <2>3. /\ events' \in Seq(1 .. NumFrames) /\ DecoderFollows'
        /\ decoder' \in {"ended", "invalid", "oversized", "failed"}
    <3>1. CASE Flush
      BY <2>1, <3>1, FlushFollows
    <3>2. CASE decoder # "reading" /\ UNCHANGED decoding
      <4>1. decoder \notin {"ended", "invalid"}
        BY <2>1 DEF SseInv, DecoderFollows
      <4>2. decoder' = decoder /\ events' = events /\ decoder \in {"oversized", "failed"}
        BY <1>0, <3>2, <4>1 DEF decoding
      <4>3. QED
        BY <2>1, <4>2, StoppedFollows
    <3>3. QED
      BY <1>2, <3>1, <3>2 DEF UpstreamEnd
  <2>4. Unreturned(line', armed', terminal') \in WState /\ observed' \in Record
    BY <1>0, <2>1
  <2>5. Types'
    BY <1>0, <2>1, <2>3, <2>4, TypesThen
  <2>6. QED
    BY <2>2, <2>3, <2>5 DEF SseInv
<1>3. CASE LaneEnd
  <2>1. /\ lane = "terminated" /\ lane' = lane /\ Flush
        /\ UNCHANGED <<upstream, sent, line, armed, terminal, observed>>
        /\ UNCHANGED <<upstream, sent>> /\ UNCHANGED upstream /\ sent' = sent
    BY <1>3 DEF LaneEnd, terminator
  <2>2. TerminatorFollows'
    BY <2>1, TerminatorStays
  <2>3. /\ events' \in Seq(1 .. NumFrames) /\ DecoderFollows'
        /\ decoder' \in {"ended", "invalid"}
    <3>1. lane' # "open"
      BY <2>1
    <3>2. QED
      BY <2>1, <3>1, FlushFollows
  <2>4. Unreturned(line', armed', terminal') \in WState /\ observed' \in Record
    BY <1>0, <2>1
  <2>5. Types'
    BY <1>0, <2>1, <2>3, <2>4, TypesThen
  <2>6. QED
    BY <2>2, <2>3, <2>5 DEF SseInv
<1>4. CASE TransportError
  <2>1. /\ lane = "open" /\ lane' = "failed" /\ events' = events
        /\ UNCHANGED <<upstream, sent, line, armed, terminal, observed>>
        /\ UNCHANGED <<upstream, sent, events>> /\ UNCHANGED upstream /\ sent' = sent
        /\ decoder' = IF decoder = "reading" THEN "failed" ELSE decoder
    BY <1>4 DEF TransportError
  <2>2. TerminatorFollows'
    BY <2>1, TerminatorStays
  <2>3. decoder' \in {"oversized", "failed"} /\ (decoder' = "oversized" => decoder = "oversized")
    <3>1. decoder \notin {"ended", "invalid"}
      BY <2>1 DEF SseInv, DecoderFollows
    <3>2. QED
      BY <1>0, <2>1, <3>1
  <2>4. events' \in Seq(1 .. NumFrames) /\ DecoderFollows'
    BY <2>1, <2>3, StoppedFollows
  <2>5. Unreturned(line', armed', terminal') \in WState /\ observed' \in Record
    BY <1>0, <2>1
  <2>6. Types'
    BY <1>0, <2>1, <2>3, <2>4, <2>5, TypesThen
  <2>7. QED
    BY <2>2, <2>4, <2>6 DEF SseInv
<1>5. CASE UNCHANGED vars
  <2>1. /\ lane' = lane /\ decoder' = decoder /\ buffer' = buffer /\ events' = events
        /\ UNCHANGED <<upstream, sent, line, armed, terminal, observed>>
        /\ UNCHANGED upstream /\ sent' = sent
    BY <1>5 DEF vars, terminator, decoding
  <2>2. TerminatorFollows'
    BY <2>1, TerminatorStays
  <2>3. Unreturned(line', armed', terminal') \in WState /\ observed' \in Record
    BY <1>0, <2>1
  <2>4. Types'
    BY <1>0, <2>1, <2>3, TypesThen
  <2>5. PICK s \in Nat : s = sent /\ s \in 0 .. Len(Bytes)
    BY <1>0, BytesType
  <2>6. PICK c : At(c, s)
    BY <1>0, <2>5, AtExists
  <2>7. c \in 0 .. NumFrames
    BY <2>6 DEF At
  <2>8. DecoderAt(c)
    BY <2>5, <2>6, <2>7 DEF SseInv, DecoderFollows
  <2>9. DecoderAt(c)'
    BY <2>1, <2>5, <2>7, <2>8, DecoderThen DEF DecoderAt
  <2>10. (\A k \in 0 .. NumFrames : At(k, sent) => DecoderAt(k))'
    BY <1>0, <2>1, <2>5, <2>6, <2>9, FollowsThen
  <2>11. DecoderFollows'
    <3>1. frames' = frames /\ \A f : BytesOf(f)' = BytesOf(f)
      BY <2>1, SteadyBytes DEF upstream
    <3>2. QED
      BY <2>1, <2>10, <3>1 DEF SseInv, DecoderFollows
  <2>12. QED
    BY <2>2, <2>4, <2>11 DEF SseInv
<1>6. QED
  BY <1>1, <1>2, <1>3, <1>4, <1>5 DEF Next

\* In every reachable state the terminator is where the bytes in one piece would
\* leave it, and the decoder holds the bytes behind the complete frames.
THEOREM SseInvariant == Spec => []SseInv
BY SseInvInit, SseInvNext, PTL DEF Spec
-----------------------------------------------------------------------------
(* What follows *)

LEMMA TypesFollow == SseInv => TypeOK
<1> SUFFICES ASSUME SseInv PROVE TypeOK
  OBVIOUS
<1>0. /\ FramesFit /\ sent \in 0 .. Len(Bytes)
      /\ Unreturned(line, armed, terminal) \in WState /\ observed \in Record
      /\ lane \in {"open", "terminated", "ended", "failed"}
      /\ events \in Seq(1 .. NumFrames)
      /\ decoder \in {"reading", "ended", "invalid", "oversized", "failed"}
  BY DEF SseInv, Types
<1>1. line \in Lines /\ armed \in BOOLEAN /\ terminal \in Record
  <2>1. PICK w \in WState : w = Unreturned(line, armed, terminal)
    BY <1>0
  <2>2. w.line = line /\ w.armed = armed /\ w.terminal = terminal
    BY <2>1 DEF Unreturned
  <2>3. QED
    BY <2>2, WStateIs
<1>2. Len(line) <= MaxLine /\ \A k \in DOMAIN line : line[k][2] # "lf"
  <2>1. line \in Seq(Byte) /\ Len(line) <= MaxLine /\ \A k \in 1 .. Len(line) : line[k][2] # "lf"
    BY <1>1 DEF Lines
  <2>2. DOMAIN line = 1 .. Len(line)
    BY <2>1, LenProperties
  <2>3. QED
    BY <2>1, <2>2
<1>3. {terminal, observed} \subseteq [frame : 0 .. NumFrames, usage : BOOLEAN]
  BY <1>0, <1>1 DEF Record
<1>4. QED
  BY <1>0, <1>1, <1>2, <1>3 DEF TypeOK, FramesFit

\* The complete frames are counted.
LEMMA CompleteIs ==
    ASSUME SseInv
    PROVE  \E n \in 0 .. NumFrames :
               At(n, sent) /\ Complete = 1 .. n /\ Cardinality(Complete) = n
<1>0. FramesFit /\ sent \in 0 .. Len(Bytes) /\ NumFrames \in Nat
  BY LimitsAssumption DEF SseInv, Types
<1>1. PICK n : At(n, sent)
  BY <1>0, AtExists
<1>2. n \in 0 .. NumFrames
  BY <1>1 DEF At
<1>3. {f \in DOMAIN frames : Until(f) <= sent} = 1 .. n
  BY <1>0, <1>1, AtComplete
<1>4. Complete = 1 .. n
  BY <1>3 DEF Complete
<1>5. Cardinality(1 .. n) = n
  <2>1. PICK j \in Nat : j = n
    BY <1>0, <1>2
  <2>2. Cardinality(1 .. j) = IF 1 > j THEN 0 ELSE j - 1 + 1
    BY FS_Interval
  <2>3. QED
    BY <2>1, <2>2
<1>6. QED
  BY <1>1, <1>2, <1>4, <1>5

LEMMA OrderFollows == SseInv => FramesInOrder
<1> SUFFICES ASSUME SseInv PROVE FramesInOrder
  OBVIOUS
<1>0. NumFrames \in Nat
  BY LimitsAssumption
<1>1. PICK n \in 0 .. NumFrames : At(n, sent) /\ Cardinality(Complete) = n
  BY CompleteIs
<1>2. DecoderAt(n)
  BY <1>1 DEF SseInv, DecoderFollows
<1>3. decoder = "reading" => events = EventsOf(Cardinality(Complete))
  BY <1>1, <1>2 DEF DecoderAt
<1>4. ASSUME decoder \in {"ended", "invalid"}
      PROVE  events \in {EventsOf(m) : m \in {Cardinality(Complete), Cardinality(Complete) + 1}
                                              \cap 0 .. NumFrames}
  <2>1. PICK m \in 0 .. NumFrames : (m = n \/ m = n + 1) /\ events = EventsOf(m)
    BY <1>2, <1>4 DEF DecoderAt
  <2>2. m \in {Cardinality(Complete), Cardinality(Complete) + 1} \cap 0 .. NumFrames
    BY <1>1, <2>1
  <2>3. QED
    BY <2>1, <2>2
<1>5. decoder = "oversized" => \E f \in DOMAIN frames : Len(BytesOf(f)) > MaxFrame + 1
  BY DEF SseInv, DecoderFollows
<1>6. QED
  BY <1>3, <1>4, <1>5 DEF FramesInOrder

\* A terminated lane has told of the first frame that can be told.
LEMMA TerminatedIs ==
    ASSUME SseInv, lane = "terminated"
    PROVE  /\ \E f \in Complete : Recognizable(f)
           /\ FirstTerminal \in DOMAIN frames /\ observed.frame = FirstTerminal
           /\ observed.usage <=> Usage(FirstTerminal)
<1>0. FramesFit /\ FramesSane /\ sent \in 0 .. Len(Bytes) /\ DOMAIN frames = 1 .. NumFrames
      /\ NumFrames \in Nat
  BY LimitsAssumption DEF SseInv, Types, FramesFit
<1>1. PICK n \in 0 .. NumFrames : At(n, sent) /\ Complete = 1 .. n
  BY CompleteIs
<1>2. PICK w : w = Watch(Neutral, Sofar(sent))
  OBVIOUS
<1>3. w.found = TRUE /\ w.terminal = observed
  BY <1>2 DEF SseInv, TerminatorFollows
<1>4. (NoneKnown(n) /\ ~ w.found) \/ Found(n, w)
  <2>1. sent \in Nat /\ sent <= Len(Bytes)
    BY <1>0, BytesType
  <2>2. QED
    BY <1>0, <1>1, <1>2, <2>1, WatchedAt
<1>5. PICK f : FirstKnown(f, n) /\ Recognized(f, w)
  BY <1>3, <1>4 DEF Found
<1>6. f \in 1 .. n /\ f \in 1 .. NumFrames /\ Recognizable(f)
      /\ \A g \in 1 .. f - 1 : ~ Recognizable(g)
  BY <1>0, <1>1, <1>5 DEF FirstKnown
<1>7. FirstTerminal = f
  <2>1. \E g \in DOMAIN frames : Recognizable(g) /\ \A h \in 1 .. g - 1 : ~ Recognizable(h)
    BY <1>0, <1>6
  <2>2. PICK g : g = FirstTerminal
    OBVIOUS
  <2>3. g \in 1 .. NumFrames /\ Recognizable(g) /\ \A h \in 1 .. g - 1 : ~ Recognizable(h)
    BY <1>0, <2>1, <2>2 DEF FirstTerminal
  <2>4. ~ (g \in 1 .. f - 1) /\ ~ (f \in 1 .. g - 1)
    BY <1>6, <2>3
  <2>5. g = f
    BY <1>0, <1>6, <2>3, <2>4
  <2>6. QED
    BY <2>2, <2>5
<1>8. observed.frame = f /\ (observed.usage <=> Usage(f))
  BY <1>3, <1>5 DEF Recognized
<1>9. QED
  BY <1>0, <1>1, <1>6, <1>7, <1>8

LEMMA EndFollows == SseInv => EndsWithTerminal
<1> SUFFICES ASSUME SseInv PROVE EndsWithTerminal
  OBVIOUS
<1>0. FramesFit /\ FramesSane /\ sent \in 0 .. Len(Bytes)
  BY DEF SseInv, Types
<1>1. ASSUME lane = "open" PROVE ~ \E f \in Complete : Recognizable(f)
  <2>1. PICK n \in 0 .. NumFrames : At(n, sent) /\ Complete = 1 .. n
    BY CompleteIs
  <2>2. PICK w : w = Watch(Neutral, Sofar(sent))
    OBVIOUS
  <2>3. w.found = FALSE
    BY <1>1, <2>2 DEF SseInv, TerminatorFollows, Unreturned
  <2>4. (NoneKnown(n) /\ ~ w.found) \/ Found(n, w)
    <3>1. sent \in Nat /\ sent <= Len(Bytes)
      BY <1>0, BytesType
    <3>2. QED
      BY <1>0, <2>1, <2>2, <3>1, WatchedAt
  <2>5. NoneKnown(n)
    BY <2>3, <2>4 DEF Found, Recognized
  <2>6. QED
    BY <2>1, <2>5 DEF NoneKnown
<1>2. ASSUME lane = "terminated"
      PROVE  (\E f \in Complete : Recognizable(f)) /\ observed.frame = FirstTerminal
  BY <1>2, TerminatedIs
<1>3. QED
  BY <1>1, <1>2 DEF EndsWithTerminal

LEMMA UsageFollows == SseInv => UsageRecorded
<1> SUFFICES ASSUME SseInv, lane = "terminated" PROVE observed.usage <=> Usage(observed.frame)
  BY DEF UsageRecorded, Usage
<1>1. observed.frame = FirstTerminal /\ (observed.usage <=> Usage(FirstTerminal))
  BY TerminatedIs
<1>2. QED
  BY <1>1
-----------------------------------------------------------------------------
(* The theorems, for any number of frames in any layouts, cut anywhere *)

\* Every variable has its type, and the terminator keeps one line at most, cut
\* at MAX_SSE_LINE_BYTES, whatever the upstream sends
\* (bedrock/mantle_client.rs, ResponsesSseTerminator.observe).
THEOREM TypeCorrect == Spec => []TypeOK
BY SseInvariant, TypesFollow, PTL

\* However the frames are laid out and the chunks are cut, the decoder yields
\* every frame once, in order, as soon as it is complete, and refuses none that
\* is within MAX_SSE_FRAME_BYTES (bedrock/responses_chat_provider.rs, SseDecoder).
THEOREM InOrder == Spec => []FramesInOrder
BY SseInvariant, OrderFollows, PTL

\* However the chunks are cut, the lane ends with the chunk that completes the
\* first terminal event the terminator can tell: not before, and not later.
THEOREM Terminates == Spec => []EndsWithTerminal
BY SseInvariant, EndFollows, PTL

\* What is recorded of a terminated stream has the usage that its terminal event
\* told, whether the event line or the data line came first.
THEOREM Recorded == Spec => []UsageRecorded
BY SseInvariant, UsageFollows, PTL
=============================================================================
