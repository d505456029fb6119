--------------------------- MODULE SequenceLemmas ---------------------------
(***************************************************************************)
(* What the proofs need to know of FlattenSeq and Among.  Both are defined *)
(* by recursion, and the induction theorems of the library, whose          *)
(* hypotheses have an operator as parameter, cannot be cited; so induction *)
(* is stated here for sets: a set that holds the beginning and every       *)
(* successor of its members holds all there is.                            *)
(***************************************************************************)
EXTENDS Integers, Sequences, SequencesExt, Selection, SequenceTheorems,
        WellFoundedInduction, TLAPS

\* Induction over the naturals, by the least one that is left out.
LEMMA NatInductionSet ==
    ASSUME NEW S, 0 \in S, \A n \in Nat : n \in S => n + 1 \in S
    PROVE  Nat \subseteq S
<1> DEFINE R == OpToRel(<, Nat)
           T == Nat \ S
<1>1. SUFFICES ASSUME T # {} PROVE FALSE
  OBVIOUS
<1>2. PICK x \in T : \A y \in T : ~ (<<y, x>> \in R)
  <2>1. IsWellFoundedOn(R, Nat)
    BY NatLessThanWellFounded
  <2>2. T \subseteq Nat
    OBVIOUS
  <2> HIDE DEF T, R
  <2>3. QED
    BY <1>1, <2>1, <2>2, WFMin
<1>3. x \in Nat /\ x # 0 /\ x - 1 \in Nat /\ x - 1 < x
  OBVIOUS
<1>4. <<x - 1, x>> \in R
  BY <1>3 DEF OpToRel
<1>5. x - 1 \notin T
  BY <1>2, <1>4
<1>6. x - 1 \in S
  BY <1>3, <1>5
<1>7. x \in S
  BY <1>3, <1>6
<1>8. QED
  BY <1>7
-----------------------------------------------------------------------------
(* FlattenSeq *)

\* f flattens the first n parts of ss, place by place.
Flattens(f, ss, n) == f = [i \in 1 .. n |-> IF i = 1 THEN ss[i] ELSE f[i - 1] \o ss[i]]

FlattensHere(f, ss, i) == f[i] = IF i = 1 THEN ss[i] ELSE f[i - 1] \o ss[i]

\* One step of a flattening,
LEMMA FlattensAt ==
    ASSUME NEW f, NEW ss, NEW n, Flattens(f, ss, n), NEW i \in 1 .. n
    PROVE  FlattensHere(f, ss, i)
  BY DEF Flattens, FlattensHere

\* and its last one.
LEMMA FlattensLast ==
    ASSUME NEW f, NEW ss, NEW m \in Nat, m > 1, Flattens(f, ss, m)
    PROVE  f[m] = f[m - 1] \o ss[m]
<1>1. m \in 1 .. m /\ m # 1
  OBVIOUS
<1>2. FlattensHere(f, ss, m)
  BY <1>1, FlattensAt
<1>3. QED
  BY <1>1, <1>2 DEF FlattensHere

\* Every sequence has a flattening up to every place.
LEMMA FlattensExists ==
    ASSUME NEW ss, NEW m \in Nat
    PROVE  \E f : Flattens(f, ss, m)
<1> DEFINE S == {n \in Nat : \E f : Flattens(f, ss, n)}
<1>1. 0 \in S
  <2>1. Flattens([i \in 1 .. 0 |-> ss[i]], ss, 0)
    BY DEF Flattens
  <2>2. QED
    BY <2>1
<1>2. ASSUME NEW n \in Nat, n \in S PROVE n + 1 \in S
  <2>1. PICK f : Flattens(f, ss, n)
    BY <1>2
  <2> DEFINE g == [i \in 1 .. n + 1 |-> IF i <= n THEN f[i]
                                        ELSE IF i = 1 THEN ss[i] ELSE f[i - 1] \o ss[i]]
  <2>2. ASSUME NEW i \in 1 .. n + 1
        PROVE  g[i] = IF i = 1 THEN ss[i] ELSE g[i - 1] \o ss[i]
    <3>1. CASE i <= n
      <4>1. f[i] = IF i = 1 THEN ss[i] ELSE f[i - 1] \o ss[i]
        <5>1. i \in 1 .. n
          BY <3>1
        <5>2. QED
          BY <2>1, <5>1, FlattensAt DEF FlattensHere
      <4>2. i # 1 => i - 1 \in 1 .. n
        BY <3>1
      <4>3. QED
        BY <3>1, <4>1, <4>2
    <3>2. CASE i = n + 1
      <4>1. i # 1 => g[i - 1] = f[i - 1]
        BY <3>2
      <4>2. QED
        BY <3>2, <4>1
    <3>3. QED
      BY <3>1, <3>2
  <2>3. Flattens(g, ss, n + 1)
    <3> DEFINE h == [i \in 1 .. n + 1 |-> IF i = 1 THEN ss[i] ELSE g[i - 1] \o ss[i]]
    <3>1. \A i \in 1 .. n + 1 : g[i] = h[i]
      BY <2>2
    <3>2. g = h
      BY <3>1
    <3>3. QED
      BY <3>2 DEF Flattens
  <2>4. QED
    BY <2>3
<1>3. Nat \subseteq S
  <2> HIDE DEF S
  <2>1. QED
    BY <1>1, <1>2, NatInductionSet
<1>4. QED
  BY <1>3

\* FlattenSeq is the end of such a flattening.
LEMMA FlattenChoice ==
    ASSUME NEW ss, Len(ss) \in Nat \ {0}
    PROVE  \E f : Flattens(f, ss, Len(ss)) /\ FlattenSeq(ss) = f[Len(ss)]
<1> DEFINE f == CHOOSE g : Flattens(g, ss, Len(ss))
<1>1. Flattens(f, ss, Len(ss))
  BY FlattensExists
<1>2. FlattenSeq(ss) = f[Len(ss)]
  BY DEF FlattenSeq, Flattens
<1>3. QED
  BY <1>1, <1>2

\* Two flattenings agree as far as what they flatten does.
LEMMA FlattensUnique ==
    ASSUME NEW ss, NEW tt, NEW f, NEW g, NEW m \in Nat, NEW n \in Nat,
           Flattens(f, ss, m), Flattens(g, tt, n),
           NEW k \in Nat, k <= m, k <= n, \A i \in 1 .. k : ss[i] = tt[i]
    PROVE  \A i \in 1 .. k : f[i] = g[i]
<1> DEFINE S == {i \in Nat : i \in 1 .. k => f[i] = g[i]}
<1>1. 0 \in S
  OBVIOUS
<1>2. ASSUME NEW i \in Nat, i \in S PROVE i + 1 \in S
  <2>1. SUFFICES ASSUME i + 1 \in 1 .. k PROVE f[i + 1] = g[i + 1]
    OBVIOUS
  <2>2. i + 1 \in 1 .. m /\ i + 1 \in 1 .. n /\ ss[i + 1] = tt[i + 1]
    BY <2>1
  <2>3. f[i + 1] = IF i + 1 = 1 THEN ss[i + 1] ELSE f[i + 1 - 1] \o ss[i + 1]
    BY <2>2, FlattensAt DEF FlattensHere
  <2>4. g[i + 1] = IF i + 1 = 1 THEN tt[i + 1] ELSE g[i + 1 - 1] \o tt[i + 1]
    BY <2>2, FlattensAt DEF FlattensHere
  <2>5. i + 1 - 1 = i
    OBVIOUS
  <2>6. i # 0 => f[i] = g[i]
    BY <1>2, <2>1
  <2>7. QED
    BY <2>2, <2>3, <2>4, <2>5, <2>6
<1>3. Nat \subseteq S
  <2> HIDE DEF S
  <2>1. QED
    BY <1>1, <1>2, NatInductionSet
<1>4. QED
  BY <1>3

\* Nothing flattens to nothing,
LEMMA FlattenEmpty == FlattenSeq(<<>>) = <<>>
  BY DEF FlattenSeq

\* one more part goes to the end,
LEMMA FlattenAppendAny ==
    ASSUME NEW T, NEW ss \in Seq(T), NEW s \in T, ss # <<>>
    PROVE  FlattenSeq(Append(ss, s)) = FlattenSeq(ss) \o s
<1> DEFINE tt == Append(ss, s)
           n  == Len(ss)
<1>1. /\ n \in Nat \ {0} /\ tt \in Seq(T) /\ Len(tt) = n + 1
      /\ \A i \in 1 .. n : tt[i] = ss[i]
      /\ tt[n + 1] = s
  BY AppendProperties, EmptySeq, LenProperties
<1> HIDE DEF tt, n
<1>2. PICK f : Flattens(f, ss, n) /\ FlattenSeq(ss) = f[n]
  BY <1>1, FlattenChoice DEF n
<1>3. PICK g : Flattens(g, tt, n + 1) /\ FlattenSeq(tt) = g[n + 1]
  <2>1. Len(tt) \in Nat \ {0}
    BY <1>1
  <2>2. QED
    BY <1>1, <2>1, FlattenChoice
<1>4. g[n + 1] = g[n] \o s
  <2>1. PICK m \in Nat : m = n + 1 /\ m > 1 /\ m - 1 = n
    BY <1>1
  <2>2. g[m] = g[m - 1] \o tt[m]
    BY <1>3, <2>1, FlattensLast
  <2>3. QED
    BY <1>1, <2>1, <2>2
<1>5. f[n] = g[n]
  <2>1. n \in Nat /\ n + 1 \in Nat /\ n <= n /\ n <= n + 1 /\ n \in 1 .. n
    BY <1>1
  <2>2. \A i \in 1 .. n : ss[i] = tt[i]
    BY <1>1
  <2>3. \A i \in 1 .. n : f[i] = g[i]
    BY <1>2, <1>3, <2>1, <2>2, FlattensUnique
  <2>4. QED
    BY <2>1, <2>3
<1>6. QED
  BY <1>2, <1>3, <1>4, <1>5 DEF tt

\* a single part stays itself;
LEMMA FlattenOne ==
    ASSUME NEW s
    PROVE  FlattenSeq(<<s>>) = s
<1>1. Len(<<s>>) = 1 /\ <<s>>[1] = s
  OBVIOUS
<1>2. PICK f : Flattens(f, <<s>>, 1) /\ FlattenSeq(<<s>>) = f[1]
  <2>1. Len(<<s>>) \in Nat \ {0}
    BY <1>1
  <2>2. QED
    BY <1>1, <2>1, FlattenChoice
<1>3. f[1] = s
  <2>1. 1 \in 1 .. 1
    OBVIOUS
  <2>2. QED
    BY <1>1, <1>2, <2>1 DEF Flattens
<1>4. QED
  BY <1>2, <1>3

\* hence one more part goes to the end whatever is before it.
LEMMA FlattenAppend ==
    ASSUME NEW T, NEW ss \in Seq(Seq(T)), NEW s \in Seq(T)
    PROVE  FlattenSeq(Append(ss, s)) = FlattenSeq(ss) \o s
<1>1. CASE ss = <<>>
  <2>1. Append(ss, s) = <<s>>
    BY <1>1
  <2>2. <<>> \o s = s
    BY ConcatEmptySeq
  <2>3. QED
    BY <1>1, <2>1, <2>2, FlattenEmpty, FlattenOne
<1>2. CASE ss # <<>>
  BY <1>2, FlattenAppendAny
<1>3. QED
  BY <1>1, <1>2

\* Sequences over T flatten to a sequence over T.
LEMMA FlattenType ==
    ASSUME NEW T, NEW ss \in Seq(Seq(T))
    PROVE  FlattenSeq(ss) \in Seq(T)
<1> DEFINE S == {n \in Nat : \A tt \in Seq(Seq(T)) : Len(tt) = n => FlattenSeq(tt) \in Seq(T)}
<1>1. 0 \in S
  BY FlattenEmpty, EmptySeq
<1>2. ASSUME NEW n \in Nat, n \in S PROVE n + 1 \in S
  <2>1. SUFFICES ASSUME NEW tt \in Seq(Seq(T)), Len(tt) = n + 1
                 PROVE  FlattenSeq(tt) \in Seq(T)
    OBVIOUS
  <2>2. PICK uu \in Seq(Seq(T)), u \in Seq(T) : tt = Append(uu, u)
    <3>1. tt # <<>>
      BY <2>1
    <3>2. QED
      BY <3>1, SequenceEmptyOrAppend
  <2>3. Len(uu) = n
    BY <2>1, <2>2, AppendProperties
  <2>4. FlattenSeq(uu) \in Seq(T)
    BY <1>2, <2>3
  <2>5. QED
    BY <2>2, <2>4, FlattenAppend, ConcatProperties
<1>3. Nat \subseteq S
  <2> HIDE DEF S
  <2>1. QED
    BY <1>1, <1>2, NatInductionSet
<1>4. QED
  BY <1>3
-----------------------------------------------------------------------------
(* Induction over sequences. *)

\* Every sequence is empty or an append to a shorter one.
LEMMA SeqInductionSet ==
    ASSUME NEW T, NEW S, <<>> \in S,
           \A s \in Seq(T), e \in T : s \in S => Append(s, e) \in S
    PROVE  Seq(T) \subseteq S
<1> DEFINE N == {n \in Nat : \A s \in Seq(T) : Len(s) = n => s \in S}
<1>1. 0 \in N
  BY EmptySeq
<1>2. ASSUME NEW n \in Nat, n \in N PROVE n + 1 \in N
  <2>1. SUFFICES ASSUME NEW s \in Seq(T), Len(s) = n + 1 PROVE s \in S
    OBVIOUS
  <2>2. PICK r \in Seq(T), e \in T : s = Append(r, e)
    <3>1. s # <<>>
      BY <2>1
    <3>2. QED
      BY <3>1, SequenceEmptyOrAppend
  <2>3. Len(r) = n
    BY <2>1, <2>2, AppendProperties
  <2>4. QED
    BY <1>2, <2>2, <2>3
<1>3. Nat \subseteq N
  <2> HIDE DEF N
  <2>1. QED
    BY <1>1, <1>2, NatInductionSet
<1>4. QED
  BY <1>3, LenProperties
-----------------------------------------------------------------------------
(* Among *)

\* Concatenation is associative.
LEMMA ConcatThree ==
    ASSUME NEW T, NEW a \in Seq(T), NEW b \in Seq(T), NEW c \in Seq(T)
    PROVE  (a \o b) \o c = a \o (b \o c)
BY ConcatAssociative

\* Nothing is among nothing.
LEMMA AmongEmpty ==
    ASSUME NEW S
    PROVE  Among(<<>>, S) = <<>>
<1>1. [k \in DOMAIN <<>> |-> IF <<>>[k] \in S THEN <<<<>>[k]>> ELSE <<>>] = <<>>
  BY EmptySeq
<1>2. QED
  BY <1>1, FlattenEmpty DEF Among

\* One more element is kept if it is of the set.
LEMMA AmongAppend ==
    ASSUME NEW T, NEW s \in Seq(T), NEW e \in T, NEW S
    PROVE  Among(Append(s, e), S) = IF e \in S THEN Append(Among(s, S), e) ELSE Among(s, S)
<1> DEFINE pick(x)  == IF x \in S THEN <<x>> ELSE <<>>
           parts == [k \in DOMAIN s |-> pick(s[k])]
           more  == [k \in DOMAIN Append(s, e) |-> pick(Append(s, e)[k])]
<1>1. \A x \in T : pick(x) \in Seq(T)
  OBVIOUS
<1>2. parts \in Seq(Seq(T)) /\ Len(parts) = Len(s)
  <2>1. DOMAIN s = 1 .. Len(s) /\ Len(s) \in Nat /\ \A k \in DOMAIN s : s[k] \in T
    BY LenProperties, ElementOfSeq
  <2>2. \A k \in 1 .. Len(s) : pick(s[k]) \in Seq(T)
    BY <1>1, <2>1
  <2> HIDE DEF pick
  <2>3. QED
    BY <2>1, <2>2
<1>3. more = Append(parts, pick(e))
  <2>1. /\ DOMAIN Append(s, e) = 1 .. Len(s) + 1
        /\ \A k \in 1 .. Len(s) : Append(s, e)[k] = s[k]
        /\ Append(s, e)[Len(s) + 1] = e
        /\ DOMAIN s = 1 .. Len(s) /\ Len(s) \in Nat
    BY AppendProperties, LenProperties
  <2> HIDE DEF pick
  <2>2. pick(e) \in Seq(T)
    BY <1>1
  <2>3. DOMAIN more = 1 .. Len(s) + 1
    BY <2>1
  <2>4. \A k \in 1 .. Len(s) : more[k] = pick(s[k])
    BY <2>1
  <2>5. more[Len(s) + 1] = pick(e)
    BY <2>1
  <2>6. /\ DOMAIN Append(parts, pick(e)) = 1 .. Len(s) + 1
        /\ \A k \in 1 .. Len(s) : Append(parts, pick(e))[k] = parts[k]
        /\ Append(parts, pick(e))[Len(s) + 1] = pick(e)
    BY <1>2, <2>2, AppendProperties
  <2>7. \A k \in 1 .. Len(s) : parts[k] = pick(s[k])
    BY <2>1
  <2>8. Append(parts, pick(e)) \in Seq(Seq(T))
    BY <1>2, <2>2
  <2>9. more = [k \in DOMAIN more |-> more[k]]
    OBVIOUS
  <2> DEFINE r == Append(parts, pick(e))
  <2>10. r = [k \in DOMAIN r |-> r[k]]
    BY <2>8
  <2> HIDE DEF r, more, parts
  <2>11. \A k \in 1 .. Len(s) + 1 : more[k] = r[k]
    BY <2>1, <2>4, <2>5, <2>6, <2>7 DEF r
  <2>12. DOMAIN more = DOMAIN r
    BY <2>3, <2>6 DEF r
  <2>13. QED
    BY <2>3, <2>9, <2>10, <2>11, <2>12 DEF r
<1>4. FlattenSeq(more) = FlattenSeq(parts) \o pick(e)
  <2>1. pick(e) \in Seq(T)
    BY <1>1
  <2> HIDE DEF pick, parts, more
  <2>2. QED
    BY <1>2, <1>3, <2>1, FlattenAppend
<1>5. FlattenSeq(parts) \in Seq(T)
  BY <1>2, FlattenType
<1>6. Among(s, S) = FlattenSeq(parts) /\ Among(Append(s, e), S) = FlattenSeq(more)
  BY DEF Among
<1> HIDE DEF parts, more
<1>7. QED
  BY <1>4, <1>5, <1>6, AppendIsConcat, ConcatEmptySeq

\* What is kept was there, and is of the set.
LEMMA AmongType ==
    ASSUME NEW T, NEW s \in Seq(T), NEW S
    PROVE  Among(s, S) \in Seq(T) /\ Among(s, S) \in Seq(T \cap S)
<1> DEFINE Q == {r \in Seq(T) : Among(r, S) \in Seq(T) /\ Among(r, S) \in Seq(T \cap S)}
<1>1. <<>> \in Q
  BY AmongEmpty, EmptySeq
<1>2. ASSUME NEW r \in Seq(T), NEW e \in T, r \in Q PROVE Append(r, e) \in Q
  <2>1. Append(r, e) \in Seq(T)
    BY AppendProperties
  <2>2. Among(r, S) \in Seq(T) /\ Among(r, S) \in Seq(T \cap S)
    BY <1>2
  <2>3. Append(Among(r, S), e) \in Seq(T)
    BY <2>2, AppendProperties
  <2>4. e \in S => Append(Among(r, S), e) \in Seq(T \cap S)
    BY <2>2, AppendProperties
  <2>5. Among(Append(r, e), S) = IF e \in S THEN Append(Among(r, S), e) ELSE Among(r, S)
    BY AmongAppend
  <2>6. QED
    BY <2>1, <2>2, <2>3, <2>4, <2>5
<1>3. Seq(T) \subseteq Q
  <2> HIDE DEF Q
  <2>1. QED
    BY <1>1, <1>2, SeqInductionSet
<1>4. QED
  BY <1>3

\* What is kept of two sequences is kept of each.
LEMMA AmongConcat ==
    ASSUME NEW T, NEW s \in Seq(T), NEW t \in Seq(T), NEW S
    PROVE  Among(s \o t, S) = Among(s, S) \o Among(t, S)
<1> DEFINE Q == {r \in Seq(T) : Among(s \o r, S) = Among(s, S) \o Among(r, S)}
<1>1. <<>> \in Q
  <2>1. Among(s, S) \in Seq(T)
    BY AmongType
  <2>2. QED
    BY <2>1, AmongEmpty, ConcatEmptySeq
<1>2. ASSUME NEW r \in Seq(T), NEW e \in T, r \in Q PROVE Append(r, e) \in Q
  <2>1. s \o Append(r, e) = Append(s \o r, e) /\ s \o r \in Seq(T) /\ Append(r, e) \in Seq(T)
    OBVIOUS
  <2>2. Among(Append(s \o r, e), S) = IF e \in S THEN Append(Among(s \o r, S), e) ELSE Among(s \o r, S)
    BY <2>1, AmongAppend
  <2>3. Among(Append(r, e), S) = IF e \in S THEN Append(Among(r, S), e) ELSE Among(r, S)
    BY AmongAppend
  <2>4. Among(s, S) \in Seq(T) /\ Among(r, S) \in Seq(T)
    BY AmongType
  <2>5. Among(s, S) \o Append(Among(r, S), e) = Append(Among(s, S) \o Among(r, S), e)
    BY <2>4
  <2>6. Among(s \o r, S) = Among(s, S) \o Among(r, S)
    BY <1>2
  <2>7. QED
    BY <2>1, <2>2, <2>3, <2>5, <2>6
<1>3. Seq(T) \subseteq Q
  <2> HIDE DEF Q
  <2>1. QED
    BY <1>1, <1>2, SeqInductionSet
<1>4. QED
  BY <1>3

\* All is kept of what is of the set,
LEMMA AmongAll ==
    ASSUME NEW T, NEW s \in Seq(T), NEW S, \A k \in DOMAIN s : s[k] \in S
    PROVE  Among(s, S) = s
<1> DEFINE Q == {r \in Seq(T) : (\A k \in DOMAIN r : r[k] \in S) => Among(r, S) = r}
<1>1. <<>> \in Q
  BY AmongEmpty
<1>2. ASSUME NEW r \in Seq(T), NEW e \in T, r \in Q PROVE Append(r, e) \in Q
  <2>1. SUFFICES ASSUME \A k \in DOMAIN Append(r, e) : Append(r, e)[k] \in S
                 PROVE  Among(Append(r, e), S) = Append(r, e)
    BY AppendProperties
  <2>2. /\ Len(r) \in Nat /\ DOMAIN r = 1 .. Len(r) /\ DOMAIN Append(r, e) = 1 .. Len(r) + 1
        /\ \A k \in 1 .. Len(r) : Append(r, e)[k] = r[k]
        /\ Append(r, e)[Len(r) + 1] = e
    BY AppendProperties, LenProperties
  <2>3. e \in S /\ \A k \in DOMAIN r : r[k] \in S
    BY <2>1, <2>2
  <2>4. Among(Append(r, e), S) = IF e \in S THEN Append(Among(r, S), e) ELSE Among(r, S)
    BY AmongAppend
  <2>5. QED
    BY <1>2, <2>3, <2>4
<1>3. Seq(T) \subseteq Q
  <2> HIDE DEF Q
  <2>1. QED
    BY <1>1, <1>2, SeqInductionSet
<1>4. QED
  BY <1>3

\* and nothing of what is not.
LEMMA AmongNone ==
    ASSUME NEW T, NEW s \in Seq(T), NEW S, \A k \in DOMAIN s : s[k] \notin S
    PROVE  Among(s, S) = <<>>
<1> DEFINE Q == {r \in Seq(T) : (\A k \in DOMAIN r : r[k] \notin S) => Among(r, S) = <<>>}
<1>1. <<>> \in Q
  BY AmongEmpty
<1>2. ASSUME NEW r \in Seq(T), NEW e \in T, r \in Q PROVE Append(r, e) \in Q
  <2>1. SUFFICES ASSUME \A k \in DOMAIN Append(r, e) : Append(r, e)[k] \notin S
                 PROVE  Among(Append(r, e), S) = <<>>
    BY AppendProperties
  <2>2. /\ Len(r) \in Nat /\ DOMAIN r = 1 .. Len(r) /\ DOMAIN Append(r, e) = 1 .. Len(r) + 1
        /\ \A k \in 1 .. Len(r) : Append(r, e)[k] = r[k]
        /\ Append(r, e)[Len(r) + 1] = e
    BY AppendProperties, LenProperties
  <2>3. e \notin S /\ \A k \in DOMAIN r : r[k] \notin S
    BY <2>1, <2>2
  <2>4. Among(Append(r, e), S) = IF e \in S THEN Append(Among(r, S), e) ELSE Among(r, S)
    BY AmongAppend
  <2>5. QED
    BY <1>2, <2>3, <2>4
<1>3. Seq(T) \subseteq Q
  <2> HIDE DEF Q
  <2>1. QED
    BY <1>1, <1>2, SeqInductionSet
<1>4. QED
  BY <1>3

\* Sets with the same elements of a sequence keep the same of it.
LEMMA AmongSame ==
    ASSUME NEW T, NEW s \in Seq(T), NEW S, NEW R, \A k \in DOMAIN s : s[k] \in S <=> s[k] \in R
    PROVE  Among(s, S) = Among(s, R)
<1> DEFINE Q == {r \in Seq(T) : (\A k \in DOMAIN r : r[k] \in S <=> r[k] \in R)
                                    => Among(r, S) = Among(r, R)}
<1>1. <<>> \in Q
  BY AmongEmpty
<1>2. ASSUME NEW r \in Seq(T), NEW e \in T, r \in Q PROVE Append(r, e) \in Q
  <2>1. SUFFICES ASSUME \A k \in DOMAIN Append(r, e) : Append(r, e)[k] \in S <=> Append(r, e)[k] \in R
                 PROVE  Among(Append(r, e), S) = Among(Append(r, e), R)
    BY AppendProperties
  <2>2. /\ Len(r) \in Nat /\ DOMAIN r = 1 .. Len(r) /\ DOMAIN Append(r, e) = 1 .. Len(r) + 1
        /\ \A k \in 1 .. Len(r) : Append(r, e)[k] = r[k]
        /\ Append(r, e)[Len(r) + 1] = e
    BY AppendProperties, LenProperties
  <2>3. (e \in S <=> e \in R) /\ \A k \in DOMAIN r : r[k] \in S <=> r[k] \in R
    BY <2>1, <2>2
  <2>4. Among(Append(r, e), S) = IF e \in S THEN Append(Among(r, S), e) ELSE Among(r, S)
    BY AmongAppend
  <2>5. Among(Append(r, e), R) = IF e \in R THEN Append(Among(r, R), e) ELSE Among(r, R)
    BY AmongAppend
  <2>6. QED
    BY <1>2, <2>3, <2>4, <2>5
<1>3. Seq(T) \subseteq Q
  <2> HIDE DEF Q
  <2>1. QED
    BY <1>1, <1>2, SeqInductionSet
<1>4. QED
  BY <1>3
=============================================================================
