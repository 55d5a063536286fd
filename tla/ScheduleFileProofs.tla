------------------------- MODULE ScheduleFileProofs -------------------------
(***************************************************************************)
(* A sound JSON schedule is accepted and its sets are measured in order,   *)
(* for every number of sets, relays and measurers.                         *)
(***************************************************************************)
EXTENDS ScheduleFile, SchedProofs, SequenceTheorems, WellFoundedInduction

-----------------------------------------------------------------------------
(* Lists of dependencies.                                                  *)

\* There is a least one among any numbers.
LEMMA LeastMember ==
  ASSUME NEW W, W \subseteq Nat, W # {}
  PROVE  \E j \in W : \A l \in W : j <= l
<1> DEFINE R == OpToRel(<, Nat)
<1>1. IsWellFoundedOn(R, Nat)
  BY NatLessThanWellFounded
<1>2. \A x, y \in Nat : x < y => <<x, y>> \in R
  BY DEF OpToRel
<1> HIDE DEF R
<1>3. PICK j \in W : \A l \in W : <<l, j>> \notin R
  BY <1>1, WFMin
<1>4. \A l \in W : ~ l < j
  BY <1>2, <1>3
<1> QED
  BY <1>4

\* A list without a 0 is kept as it is.
LEMMA PositiveKept ==
  ASSUME NEW ds \in Seq(Nat \ {0})
  PROVE  Positive(ds) = ds
<1> DEFINE n == Len(ds)
           Rule(g) == [k \in 0 .. n |-> IF k = 0 THEN <<>>
                         ELSE IF ds[k] > 0 THEN Append(g[k - 1], ds[k]) ELSE g[k - 1]]
           kept == CHOOSE g : g = Rule(g)
           h == [k \in 0 .. n |-> SubSeq(ds, 1, k)]
<1>1. n \in Nat /\ \A k \in 1 .. n : ds[k] \in Nat /\ ds[k] > 0
  OBVIOUS
<1>2. \A k \in 1 .. n : SubSeq(ds, 1, k) = Append(SubSeq(ds, 1, k - 1), ds[k])
  OBVIOUS
<1>3. SubSeq(ds, 1, 0) = <<>> /\ SubSeq(ds, 1, n) = ds
  OBVIOUS
<1>4. h = Rule(h)
  <2>1. \A k \in 1 .. n : h[k - 1] = SubSeq(ds, 1, k - 1)
    BY <1>1
  <2>2. h[0] = <<>>
    BY <1>1, <1>3
  <2>3. \A k \in 1 .. n : h[k] = Append(h[k - 1], ds[k])
    BY <1>1, <1>2, <2>1
  <2>4. ASSUME NEW k \in 0 .. n
        PROVE  h[k] = IF k = 0 THEN <<>>
                      ELSE IF ds[k] > 0 THEN Append(h[k - 1], ds[k]) ELSE h[k - 1]
    <3>1. CASE k = 0
      BY <2>2, <3>1
    <3>2. CASE k # 0
      <4>1. k \in 1 .. n
        BY <1>1, <3>2
      <4> HIDE DEF h, n
      <4> QED
        BY <1>1, <2>3, <3>2, <4>1
    <3> QED
      BY <3>1, <3>2
  <2> QED
    BY <2>4
<1> HIDE DEF n
<1>5. kept = Rule(kept)
  BY <1>4
<1> HIDE DEF kept, h
<1>6. /\ kept[0] = <<>>
      /\ \A k \in 1 .. n : kept[k] = Append(kept[k - 1], ds[k])
  <2>1. kept[0] = <<>>
    BY <1>1, <1>5
  <2>2. ASSUME NEW k \in 1 .. n PROVE kept[k] = Append(kept[k - 1], ds[k])
    <3>1. k \in 0 .. n /\ k # 0 /\ ds[k] > 0
      BY <1>1
    <3>2. kept[k] = IF k = 0 THEN <<>>
                    ELSE IF ds[k] > 0 THEN Append(kept[k - 1], ds[k]) ELSE kept[k - 1]
      BY <1>5, <3>1
    <3> HIDE DEF Rule
    <3> QED
      BY <3>1, <3>2
  <2> QED
    BY <2>1, <2>2
<1> HIDE DEF Rule
<1>7. ASSUME NEW k \in 0 .. n, kept[k] # SubSeq(ds, 1, k)
      PROVE  FALSE
  <2> DEFINE W == {j \in 0 .. n : kept[j] # SubSeq(ds, 1, j)}
  <2>1. W \subseteq Nat /\ W # {}
    BY <1>1, <1>7
  <2>2. PICK j \in W : \A l \in W : j <= l
    BY <2>1, LeastMember
  <2>3. j # 0
    BY <1>3, <1>6
  <2>4. j \in 1 .. n /\ j - 1 \in 0 .. n /\ j - 1 \notin W
    BY <1>1, <2>2, <2>3
  <2>5. kept[j - 1] = SubSeq(ds, 1, j - 1)
    BY <2>4
  <2> QED
    BY <1>2, <1>6, <2>4, <2>5
<1>8. kept[n] = ds
  BY <1>1, <1>3, <1>7
<1> QED
  BY <1>8 DEF Positive, kept, n, Rule

\* "0" stands for no dependency.
LEMMA PositiveOfNone == Positive(<<0>>) = <<>> /\ Positive(<<>>) = <<>>
<1>1. Positive(<<>>) = <<>>
  <2>1. <<>> \in Seq(Nat \ {0})
    OBVIOUS
  <2> QED
    BY <2>1, PositiveKept
<1>2. Positive(<<0>>) = <<>>
  <2> DEFINE Rule(g) == [k \in 0 .. 1 |-> IF k = 0 THEN <<>>
                           ELSE IF <<0>>[k] > 0 THEN Append(g[k - 1], <<0>>[k]) ELSE g[k - 1]]
             kept == CHOOSE g : g = Rule(g)
             h == [k \in 0 .. 1 |-> <<>>]
  <2>1. h = Rule(h)
    OBVIOUS
  <2>2. kept = Rule(kept)
    BY <2>1
  <2> HIDE DEF kept
  <2>3. kept[0] = <<>> /\ kept[1] = kept[0]
    BY <2>2
  <2>4. Len(<<0>>) = 1
    OBVIOUS
  <2> QED
    BY <2>3, <2>4 DEF Positive, kept
<1> QED
  BY <1>1, <1>2

-----------------------------------------------------------------------------
(* Connections.                                                            *)

\* A finite set without one of its members.
LEMMA WithoutOne ==
  ASSUME NEW S, IsFiniteSet(S), NEW x \in S
  PROVE  /\ IsFiniteSet(S \ {x})
         /\ Cardinality(S \ {x}) \in Nat
         /\ Cardinality(S) = Cardinality(S \ {x}) + 1
<1>1. /\ IsFiniteSet(S \ {x})
      /\ Cardinality(S \ {x}) = Cardinality(S) - 1
  BY FS_RemoveElement
<1>2. Cardinality(S) \in Nat /\ Cardinality(S \ {x}) \in Nat
  BY <1>1, FS_CardinalityType
<1> QED
  BY <1>1, <1>2

Total(s) == FoldSeq(+, 0, s)

BgPlaces(classes) == {k \in DOMAIN classes : classes[k] = "bg"}

\* What the connections of a line add up to: c for each class but 1 for "bg".
LEMMA ConnsSum ==
  ASSUME NEW n \in Nat, NEW classes, DOMAIN classes = 1 .. n, NEW c \in Nat
  PROVE  Total(ConnsOf(classes, c)) =
           c * Cardinality((1 .. n) \ BgPlaces(classes)) + Cardinality(BgPlaces(classes))
<1> DEFINE s == ConnsOf(classes, c)
           B == BgPlaces(classes)
           D == 1 .. n
           Sum(S) == c * Cardinality(S \ B) + Cardinality(S \cap B)
           Rule(g) == [S \in SUBSET D |->
                         IF S = {} THEN 0
                         ELSE LET x == CHOOSE x \in S : TRUE IN s[x] + g[S \ {x}]]
           iter == CHOOSE g : g = Rule(g)
           h == [S \in SUBSET D |-> Sum(S)]
<1>0. /\ DOMAIN s = 1 .. n /\ B \in SUBSET (1 .. n)
      /\ \A k \in 1 .. n : s[k] = IF k \in B THEN 1 ELSE c
  BY DEF ConnsOf, BgPlaces
<1> HIDE DEF s, B
<1>1. IsFiniteSet(D)
  BY FS_Interval
<1>2. \A S \in SUBSET D : /\ IsFiniteSet(S) /\ IsFiniteSet(S \ B) /\ IsFiniteSet(S \cap B)
                          /\ Cardinality(S) \in Nat
                          /\ Cardinality(S \ B) \in Nat /\ Cardinality(S \cap B) \in Nat
  <2> SUFFICES ASSUME NEW S \in SUBSET D
               PROVE  /\ IsFiniteSet(S) /\ IsFiniteSet(S \ B) /\ IsFiniteSet(S \cap B)
                      /\ Cardinality(S) \in Nat
                      /\ Cardinality(S \ B) \in Nat /\ Cardinality(S \cap B) \in Nat
    OBVIOUS
  <2>1. IsFiniteSet(S)
    BY <1>1, FS_Subset
  <2>2. S \ B \in SUBSET S /\ S \cap B \in SUBSET S
    OBVIOUS
  <2>3. IsFiniteSet(S \ B) /\ IsFiniteSet(S \cap B)
    BY <2>1, <2>2, FS_Subset
  <2> QED
    BY <2>1, <2>3, FS_CardinalityType
<1> HIDE DEF D
<1>3. ASSUME NEW S \in SUBSET D, NEW x \in S
      PROVE  Sum(S) = s[x] + Sum(S \ {x})
  <2>1. S \ {x} \in SUBSET D
    OBVIOUS
  <2>2. CASE x \in B
    <3>1. (S \ {x}) \ B = S \ B /\ (S \ {x}) \cap B = (S \cap B) \ {x}
      BY <2>2
    <3>2. Cardinality(S \cap B) = Cardinality((S \ {x}) \cap B) + 1
      <4>1. x \in S \cap B /\ IsFiniteSet(S \cap B)
        BY <1>2, <2>2
      <4> QED
        BY <3>1, <4>1, WithoutOne
    <3>3. s[x] = 1
      BY <1>0, <2>2 DEF D
    <3>4. /\ Cardinality(S \ B) \in Nat
          /\ Cardinality((S \ {x}) \cap B) \in Nat
      BY <1>2, <2>1
    <3>5. \A p, q \in Nat : c * p + (q + 1) = 1 + (c * p + q)
      OBVIOUS
    <3> QED
      BY <3>1, <3>2, <3>3, <3>4, <3>5
  <2>3. CASE x \notin B
    <3>1. (S \ {x}) \ B = (S \ B) \ {x} /\ (S \ {x}) \cap B = S \cap B
      BY <2>3
    <3>2. Cardinality(S \ B) = Cardinality((S \ {x}) \ B) + 1
      BY <1>2, <2>3, <3>1, WithoutOne
    <3>3. s[x] = c
      BY <1>0, <2>3 DEF D
    <3>4. /\ Cardinality((S \ {x}) \ B) \in Nat
          /\ Cardinality(S \cap B) \in Nat
      BY <1>2, <2>1
    <3>5. \A p, q \in Nat : c * (p + 1) + q = c + (c * p + q)
      OBVIOUS
    <3> DEFINE p == Cardinality((S \ {x}) \ B)
               q == Cardinality(S \cap B)
    <3>6. Sum(S) = c * (p + 1) + q
      BY <3>2
    <3>7. Sum(S \ {x}) = c * p + q
      BY <3>1
    <3> HIDE DEF Sum
    <3> QED
      BY <3>3, <3>4, <3>5, <3>6, <3>7
  <2> QED
    BY <2>2, <2>3
<1>4. Sum({}) = 0
  <2>1. {} \ B = {} /\ {} \cap B = {}
    OBVIOUS
  <2> QED
    BY <2>1, FS_EmptySet
<1> HIDE DEF Sum
<1>5. h = Rule(h)
  <2>1. ASSUME NEW S \in SUBSET D
        PROVE  h[S] = IF S = {} THEN 0
                      ELSE LET x == CHOOSE x \in S : TRUE IN s[x] + h[S \ {x}]
    <3> DEFINE x == CHOOSE y \in S : TRUE
    <3>1. CASE S = {}
      BY <1>4, <3>1
    <3>2. CASE S # {}
      <4>1. x \in S
        BY <3>2
      <4>2. h[S \ {x}] = Sum(S \ {x}) /\ h[S] = Sum(S)
        OBVIOUS
      <4> QED
        BY <1>3, <3>2, <4>1, <4>2
    <3> QED
      BY <3>1, <3>2
  <2> QED
    BY <2>1
<1>6. iter = Rule(iter)
  BY <1>5
<1> HIDE DEF iter, h
<1>7. /\ iter[{}] = 0
      /\ \A S \in SUBSET D : S # {} => \E x \in S : iter[S] = s[x] + iter[S \ {x}]
  <2>1. iter[{}] = 0
    BY <1>6
  <2>2. ASSUME NEW S \in SUBSET D, S # {}
        PROVE  \E x \in S : iter[S] = s[x] + iter[S \ {x}]
    <3> DEFINE x == CHOOSE y \in S : TRUE
    <3>1. x \in S
      BY <2>2
    <3>2. iter[S] = s[x] + iter[S \ {x}]
      BY <1>6, <2>2
    <3> QED
      BY <3>1, <3>2
  <2> QED
    BY <2>1, <2>2
<1>8. ASSUME NEW T \in SUBSET D, iter[T] # Sum(T)
      PROVE  FALSE
  <2> DEFINE Wrong == {S \in SUBSET D : iter[S] # Sum(S)}
             W == {Cardinality(S) : S \in Wrong}
  <2>1. W \subseteq Nat /\ W # {}
    BY <1>2, <1>8
  <2>2. PICK w \in W : \A l \in W : w <= l
    BY <2>1, LeastMember
  <2>3. PICK S \in Wrong : Cardinality(S) = w
    OBVIOUS
  <2>4. S # {}
    BY <1>4, <1>7
  <2>5. PICK x \in S : iter[S] = s[x] + iter[S \ {x}]
    BY <1>7, <2>4
  <2>6. Cardinality(S) = Cardinality(S \ {x}) + 1 /\ Cardinality(S \ {x}) \in Nat
    BY <1>2, WithoutOne
  <2>7. S \ {x} \notin Wrong
    <3>1. ASSUME S \ {x} \in Wrong PROVE w <= Cardinality(S \ {x})
      BY <2>2, <3>1
    <3>2. ~ w <= Cardinality(S \ {x})
      BY <2>3, <2>6
    <3> QED
      BY <3>1, <3>2
  <2> QED
    BY <1>3, <2>5, <2>7
<1>9. iter[D] = Sum(D)
  BY <1>8
<1>10. Total(s) = iter[D]
  BY <1>0 DEF Total, FoldSeq, FoldFunction, FoldFunctionOnSet, MapThenFoldSet, iter, Rule, D
<1> QED
  <2>1. D \cap B = B
    BY <1>0 DEF D
  <2> QED
    BY <1>9, <1>10, <2>1 DEF Sum, D, s, B

\* An order of the classes of a relay has a place for each; "bg" is at one or none.
LEMMA ClassPlaces ==
  ASSUME NEW S, IsFiniteSet(S), NEW classes \in SetToSeqs(S)
  PROVE  /\ Cardinality(S) \in Nat /\ DOMAIN classes = 1 .. Cardinality(S)
         /\ Len(classes) = Cardinality(S) /\ Range(classes) = S
         /\ IsFiniteSet(BgPlaces(classes))
         /\ Cardinality(BgPlaces(classes)) = IF "bg" \in S THEN 1 ELSE 0
         /\ Cardinality((1 .. Cardinality(S)) \ BgPlaces(classes)) = Cardinality(S \ {"bg"})
<1> DEFINE n == Cardinality(S)
           B == BgPlaces(classes)
<1>1. n \in Nat
  BY FS_CardinalityType
<1>2. /\ classes \in [1 .. n -> S]
      /\ \A j, k \in 1 .. n : j # k => classes[j] # classes[k]
  BY DEF SetToSeqs
<1>3. Len(classes) = n
  BY <1>1, <1>2
<1>4. IsFiniteSet(1 .. n) /\ Cardinality(1 .. n) = n
  BY <1>1, SegmentSize
<1>5. Range(classes) = S
  <2>1. classes \in Injection(1 .. n, S)
    BY <1>2 DEF Injection, IsInjective
  <2>2. classes \in Surjection(1 .. n, S)
    BY <1>4, <2>1, FS_Injection
  <2> QED
    BY <1>2, <2>2 DEF Range, Surjection
<1>6. CASE "bg" \in S
  <2>1. PICK k \in 1 .. n : classes[k] = "bg"
    BY <1>2, <1>5, <1>6 DEF Range
  <2>2. B = {k}
    BY <1>2, <2>1 DEF BgPlaces
  <2>3. IsFiniteSet(B) /\ Cardinality(B) = 1
    BY <2>2, FS_Singleton
  <2>4. Cardinality((1 .. n) \ B) = n - 1 /\ Cardinality(S \ {"bg"}) = n - 1
    BY <1>4, <1>6, <2>2, FS_RemoveElement
  <2> QED
    BY <1>1, <1>2, <1>3, <1>5, <1>6, <2>3, <2>4
<1>7. CASE "bg" \notin S
  <2>1. B = {}
    BY <1>2, <1>7 DEF BgPlaces
  <2>2. IsFiniteSet(B) /\ Cardinality(B) = 0
    BY <2>1, FS_EmptySet
  <2>3. (1 .. n) \ B = 1 .. n /\ S \ {"bg"} = S
    BY <1>7, <2>1
  <2> QED
    BY <1>1, <1>2, <1>3, <1>4, <1>5, <1>7, <2>2, <2>3
<1> QED
  BY <1>6, <1>7

\* The connections of a line suffice, however many measurers share them.
LEMMA ConnsSuffice ==
  ASSUME NEW S, IsFiniteSet(S), S \ {"bg"} # {}, NEW classes \in SetToSeqs(S)
  PROVE  Total(ConnsOf(classes, ConnsEach(Cardinality(S \ {"bg"}))))
           >= IF "bg" \in Range(classes) THEN Conns + 1 ELSE Conns
<1> DEFINE n == Cardinality(S)
           m == Cardinality(S \ {"bg"})
           B == BgPlaces(classes)
           c == ConnsEach(m)
<1>1. /\ n \in Nat /\ DOMAIN classes = 1 .. n /\ Range(classes) = S
      /\ Cardinality(B) = IF "bg" \in S THEN 1 ELSE 0
      /\ Cardinality((1 .. n) \ B) = m
  BY ClassPlaces
<1>2. m \in Nat \ {0}
  BY FS_RemoveElement, FS_CardinalityType, FS_EmptySet
<1>3. Conns \in Nat \ {0}
  BY ScheduleFileAssumption
<1> HIDE DEF n, m, B
<1>4. c \in Nat /\ c * m >= Conns
  <2>1. Conns \div m \in Nat /\ (Conns \div m + 1) * m >= Conns
    BY <1>2, <1>3
  <2> QED
    BY <1>2, <1>3, <2>1 DEF ConnsEach
<1> HIDE DEF c
<1>5. Total(ConnsOf(classes, c)) = c * m + Cardinality(B)
  BY <1>1, <1>4, ConnsSum DEF B
<1>6. c * m \in Nat
  BY <1>2, <1>4
<1> QED
  BY <1>1, <1>3, <1>4, <1>5, <1>6 DEF c, m

-----------------------------------------------------------------------------
(* The lines of text.                                                      *)

\* Whatever is appended to a sequence, it remains one.
LEMMA AppendAny ==
  ASSUME NEW s, s \in Seq(Range(s)), NEW x
  PROVE  /\ Append(s, x) \in Seq(Range(Append(s, x)))
         /\ Len(s) \in Nat /\ Len(Append(s, x)) = Len(s) + 1
         /\ \A k \in 1 .. Len(s) : Append(s, x)[k] = s[k]
         /\ Append(s, x)[Len(s) + 1] = x
         /\ Range(Append(s, x)) = Range(s) \cup {x}
<1> DEFINE S == Range(s) \cup {x}
           t == Append(s, x)
<1>1. s \in Seq(S) /\ x \in S
  OBVIOUS
<1> HIDE DEF S
<1>2. /\ t \in Seq(S) /\ Len(s) \in Nat /\ Len(t) = Len(s) + 1
      /\ \A k \in 1 .. Len(s) : t[k] = s[k]
      /\ t[Len(s) + 1] = x
  BY <1>1
<1>3. DOMAIN t = 1 .. (Len(s) + 1) /\ DOMAIN s = 1 .. Len(s)
  BY <1>1, <1>2
<1> HIDE DEF t
<1>4. Range(t) = S
  BY <1>2, <1>3 DEF Range, S
<1> QED
  BY <1>2, <1>4 DEF S, t

\* A line that is made from JSON has six words, and a list if there is one.
FirstWords(id, relay, classes, bws, conns) == <<id, relay, 30, classes, bws, conns>>
DependWords(ds) == IF ds = <<>> THEN <<>> ELSE <<ds>>
JsonLine(id, relay, classes, bws, conns, ds) ==
  FirstWords(id, relay, classes, bws, conns) \o DependWords(ds)

\* Six words are a sequence.
LEMMA SixWords ==
  ASSUME NEW S, NEW a \in S, NEW b \in S, NEW c \in S, NEW d \in S, NEW e \in S, NEW f \in S
  PROVE  LET s == <<a, b, c, d, e, f>>
         IN s \in Seq(S) /\ Len(s) = 6 /\ s[1] = a /\ s[4] = d /\ s[5] = e /\ s[6] = f
OBVIOUS

\* The words of such a line are found at their places again.
LEMMA WordsOfLine ==
  ASSUME NEW id, NEW relay, NEW classes, NEW bws, NEW conns, NEW ds
  PROVE  LET line == JsonLine(id, relay, classes, bws, conns, ds)
         IN /\ line # <<>> /\ Len(line) \in Nat /\ Len(line) <= 7 /\ Id(line) = id
            /\ Word(line, 4, <<>>) = classes /\ Word(line, 5, <<>>) = bws
            /\ Word(line, 6, <<>>) = conns /\ Word(line, 7, <<>>) = ds
<1> DEFINE line == JsonLine(id, relay, classes, bws, conns, ds)
           six == FirstWords(id, relay, classes, bws, conns)
           S == {id, relay, 30, classes, bws, conns, ds}
<1>1. /\ six \in Seq(S) /\ Len(six) = 6 /\ six[1] = id
      /\ six[4] = classes /\ six[5] = bws /\ six[6] = conns
  BY SixWords DEF FirstWords
<1>2. ds \in S
  OBVIOUS
<1>3. line = six \o DependWords(ds)
  BY DEF JsonLine
<1> HIDE DEF six, S, line
<1>4. CASE ds = <<>>
  <2>1. line = six
    BY <1>1, <1>3, <1>4 DEF DependWords
  <2>2. Len(line) = 6
    BY <1>1, <2>1
  <2>3. line # <<>>
    BY <2>2
  <2>4. /\ Word(line, 1, 0) = id /\ Word(line, 4, <<>>) = classes
        /\ Word(line, 5, <<>>) = bws /\ Word(line, 6, <<>>) = conns
    BY <1>1, <2>1, <2>2 DEF Word
  <2>5. Len(line) \in Nat /\ Len(line) <= 7 /\ Word(line, 7, <<>>) = ds
    BY <1>4, <2>2 DEF Word
  <2> QED
    BY <2>3, <2>4, <2>5 DEF Id, line
<1>5. CASE ds # <<>>
  <2>1. line = six \o <<ds>>
    BY <1>3, <1>5 DEF DependWords
  <2>2. Len(line) = 7 /\ line[7] = ds /\ \A k \in 1 .. 6 : line[k] = six[k]
    <3> DEFINE one == <<ds>>
    <3>1. one \in Seq(S) /\ Len(one) = 1 /\ one[1] = ds
      BY <1>2
    <3> HIDE DEF one
    <3>2. /\ Len(six \o one) = Len(six) + Len(one)
          /\ \A k \in 1 .. Len(six) + Len(one) : (six \o one)[k] =
               IF k <= Len(six) THEN six[k] ELSE one[k - Len(six)]
      BY <1>1, <3>1, ConcatProperties
    <3>3. \A k \in 1 .. 6 : k \in 1 .. 7 /\ k <= 6
      OBVIOUS
    <3>4. line = six \o one
      BY <2>1 DEF one
    <3> QED
      BY <1>1, <3>1, <3>2, <3>3, <3>4
  <2>3. line # <<>>
    <3>1. Len(line) = 7
      BY <2>2
    <3> QED
      BY <3>1
  <2> QED
    BY <1>1, <2>2, <2>3 DEF Word, Id, line
<1> QED
  BY <1>4, <1>5 DEF line

\* A list that names nothing twice.
NoRepeats(ds) == \A i, j \in 1 .. Len(ds) : ds[i] = ds[j] => i = j

\* It has as many members as places.
LEMMA NoRepeatsCount ==
  ASSUME NEW ds \in Seq(Nat), NoRepeats(ds)
  PROVE  Cardinality(Range(ds)) = Len(ds)
<1>1. ds \in Injection(1 .. Len(ds), Range(ds)) /\ ds \in Surjection(1 .. Len(ds), Range(ds))
  BY DEF NoRepeats, Injection, IsInjective, Surjection, Range
<1>2. IsFiniteSet(Range(ds))
  BY RangeCardinality
<1>3. Cardinality(1 .. Len(ds)) = Len(ds)
  BY SegmentSize
<1> QED
  BY <1>1, <1>2, <1>3, FS_Injection

\* What last_m_id_set_str is before the first set.
NoMeasurement == <<0>>

\* The dependencies of a line are those of the set before.
LEMMA DependsOfLine ==
  ASSUME NEW line, NEW ds, Word(line, 7, <<>>) = ds,
         ds = NoMeasurement \/ ds \in Seq(Nat \ {0})
  PROVE  /\ Depends(line) \in Seq(Nat) /\ (NoRepeats(ds) => NoRepeats(Depends(line)))
         /\ Range(Depends(line)) = Range(ds) \ {0}
<1>1. CASE ds = NoMeasurement
  <2>1. Depends(line) = <<>>
    BY <1>1, PositiveOfNone DEF Depends, NoMeasurement
  <2> QED
    BY <1>1, <2>1 DEF Range, NoMeasurement, NoRepeats
<1>2. CASE ds \in Seq(Nat \ {0})
  <2>1. Depends(line) = ds
    BY <1>2, PositiveKept DEF Depends
  <2>2. \A k \in DOMAIN ds : ds[k] \in Nat /\ ds[k] # 0
    BY <1>2
  <2> QED
    BY <1>2, <2>1, <2>2 DEF Range
<1> QED
  BY <1>1, <1>2

\* What is written for a relay of a sound schedule is accepted by the parser.
LEMMA LineParsed ==
  ASSUME NEW rel, IsFiniteSet(DOMAIN rel), NEW classes \in SetToSeqs(DOMAIN rel), NEW c \in Nat,
         \A class \in DOMAIN rel : rel[class] \in Nat,
         "bg" \in DOMAIN rel => rel["bg"] \in (8 * BgBw - 4) .. (8 * BgBw + 3),
         NEW line, Len(line) <= 7, Id(line) # 0,
         Word(line, 4, <<>>) = classes,
         Word(line, 5, <<>>) = [k \in DOMAIN classes |-> Bytes(rel[classes[k]])],
         Word(line, 6, <<>>) = ConnsOf(classes, c)
  PROVE  Parsed(line)
<1> DEFINE n == Cardinality(DOMAIN rel)
           bws == [k \in DOMAIN classes |-> Bytes(rel[classes[k]])]
           conns == ConnsOf(classes, c)
<1>1. /\ n \in Nat /\ DOMAIN classes = 1 .. n /\ Len(classes) = n
      /\ Cardinality(BgPlaces(classes)) = IF "bg" \in DOMAIN rel THEN 1 ELSE 0
      /\ Range(classes) = DOMAIN rel
  BY ClassPlaces
<1> HIDE DEF n
<1>2. Len(bws) = n
  BY <1>1
<1>3. Len(conns) = n
  BY <1>1 DEF ConnsOf
<1>4. ASSUME NEW k \in BgPlaces(classes)
      PROVE  conns[k] = 1 /\ bws[k] = BgBw
  <2>1. k \in DOMAIN classes /\ classes[k] = "bg" /\ "bg" \in DOMAIN rel
    BY <1>1 DEF BgPlaces, Range
  <2>2. conns[k] = 1
    BY <2>1 DEF ConnsOf
  <2>3. Bytes(rel["bg"]) = BgBw
    <3>1. BgBw \in Nat
      BY ScheduleFileAssumption
    <3>2. \A b \in (8 * BgBw - 4) .. (8 * BgBw + 3) : (b + 4) \div 8 = BgBw
      BY <3>1
    <3> QED
      BY <2>1, <3>2 DEF Bytes
  <2> QED
    BY <2>1, <2>2, <2>3
<1>5. Cardinality(BgPlaces(classes)) <= 1
  BY <1>1
<1> HIDE DEF bws, conns
<1>6. Word(line, 5, <<>>) = bws /\ Word(line, 6, <<>>) = conns
  BY DEF bws, conns
<1> QED
  BY <1>1, <1>2, <1>3, <1>4, <1>5, <1>6 DEF Parsed, BgPlaces

-----------------------------------------------------------------------------
(* The inductive invariant.                                                *)

\* The lines made from a set.
OfSet(s) == {j \in 1 .. Len(text) : set_of[j] = s}

\* A line waits for those of the set before.
Made(k) ==
  /\ text[k] # <<>> /\ Id(text[k]) = k /\ k \in Msms
  /\ set_of[k] \in 1 .. set /\ set_of[1] <= set_of[k]
  /\ Depends(text[k]) \in Seq(Nat)
  /\ Range(Depends(text[k])) = OfSet(set_of[k] - 1) /\ NoRepeats(Depends(text[k]))
  /\ (Sound(aaron_sched) => Parsed(text[k]))

Lines ==
  /\ aaron_sched \in JsonFiles
  /\ set \in 0 .. Len(aaron_sched)
  /\ text \in Seq(Range(text))
  /\ set_of \in Seq(Nat) /\ Len(set_of) = Len(text)
  /\ \A k \in 1 .. Len(text) : Made(k)

\* No relay of a set is left out.
Covered ==
  pc # "panicked" =>
    \A s \in 1 .. set :
      DOMAIN aaron_sched[s] # {} => OfSet(s) # {} \/ (s = set /\ pc = "relays" /\ left # {})

\* What the reader remembers of the lines it has made.
Remembered ==
  /\ pc \in {"sets", "relays"} =>
       /\ last_m_id_set = NoMeasurement \/ last_m_id_set \in Seq(Nat \ {0})
       /\ Range(last_m_id_set) \ {0} = OfSet(IF pc = "relays" THEN set - 1 ELSE set)
       /\ NoRepeats(last_m_id_set)
  /\ pc = "relays" =>
       /\ set # 0 /\ left \subseteq DOMAIN aaron_sched[set]
       /\ new_m_id_set \in Seq(Nat \ {0})
       /\ Range(new_m_id_set) = OfSet(set) /\ NoRepeats(new_m_id_set)
  /\ pc \notin {"sets", "relays", "panicked"} => set = Len(aaron_sched)

\* What has been handed out has its dependencies behind it.
DependsOver ==
  \A m \in loaded :
    msm_state[m] \in {"InProgress", "Complete"} =>
      \A d \in Range(depends[m]) : msm_state[d] = "Complete"

Table ==
  IF pc = "running"
    THEN /\ SchedInv /\ loaded = 1 .. Len(text)
         /\ \A m \in loaded : depends[m] = Depends(text[m])
         /\ DependsOver
    ELSE SchedInit

JsonInv == Lines /\ Covered /\ Remembered /\ Table /\ SoundJsonAccepted

Inv ==
  /\ pc = "startup" => Init
  /\ aaron_sched # <<>> => JsonInv

-----------------------------------------------------------------------------
(* The text as a schedule.                                                 *)

\* The lines are the schedule: each measurement is at the place of its id.
LEMMA TextAsFile ==
  ASSUME Lines
  PROVE  /\ Listed(text) = 1 .. Len(text)
         /\ UniqueIds(text)
         /\ File(text) = [m \in 1 .. Len(text) |-> Depends(text[m])]
<1>1. DOMAIN text = 1 .. Len(text)
  BY DEF Lines
<1>2. \A k \in 1 .. Len(text) : text[k] # <<>> /\ Id(text[k]) = k
  BY DEF Lines, Made
<1>3. Listed(text) = 1 .. Len(text)
  BY <1>1, <1>2 DEF Listed
<1>4. UniqueIds(text)
  BY <1>2, <1>3 DEF UniqueIds
<1>5. {Id(text[k]) : k \in Listed(text)} = 1 .. Len(text)
  BY <1>2, <1>3
<1>6. ASSUME NEW m \in 1 .. Len(text)
      PROVE  (CHOOSE k \in Listed(text) : Id(text[k]) = m) = m
  BY <1>2, <1>3
<1> DEFINE Value(m) == Depends(text[CHOOSE k \in Listed(text) : Id(text[k]) = m])
<1>7. \A m \in 1 .. Len(text) : Value(m) = Depends(text[m])
  BY <1>6
<1>8. File(text) = [m \in 1 .. Len(text) |-> Value(m)]
  BY <1>5 DEF File
<1> HIDE DEF Value
<1>9. File(text) = [m \in 1 .. Len(text) |-> Depends(text[m])]
  BY <1>7, <1>8
<1> QED
  BY <1>3, <1>4, <1>9

\* Dependencies are lines, and of another set.
LEMMA TextDepends ==
  ASSUME Lines
  PROVE  NoSelfDepend(File(text)) /\ DependsListed(File(text)) /\ FileOK(File(text))
<1> DEFINE file == File(text)
<1>1. /\ DOMAIN file = 1 .. Len(text)
      /\ \A m \in 1 .. Len(text) : file[m] = Depends(text[m])
  BY TextAsFile
<1>2. \A m \in 1 .. Len(text) :
        /\ m \in Msms /\ Depends(text[m]) \in Seq(Nat)
        /\ set_of[m] \in Nat
        /\ Range(Depends(text[m])) = OfSet(set_of[m] - 1)
  BY DEF Lines, Made
<1>3. \A m \in 1 .. Len(text) : m \notin OfSet(set_of[m] - 1)
  BY <1>2 DEF OfSet
<1>4. \A j : OfSet(j) \subseteq 1 .. Len(text)
  BY DEF OfSet
<1> HIDE DEF file
<1>5. NoSelfDepend(file)
  BY <1>1, <1>2, <1>3 DEF NoSelfDepend
<1>6. DependsListed(file)
  BY <1>1, <1>2, <1>4 DEF DependsListed
<1>7. FileOK(file)
  BY <1>1, <1>2 DEF FileOK
<1> QED
  BY <1>5, <1>6, <1>7 DEF file

\* A sound schedule has a line, and its first waits for none.
LEMMA TextAccepted ==
  ASSUME Lines, Covered, Sound(aaron_sched), set = Len(aaron_sched),
         pc \notin {"relays", "panicked"}
  PROVE  Insertable(text) /\ SomethingStarts(File(text))
<1>1. Insertable(text)
  <2>1. \A k \in 1 .. Len(text) : Parsed(text[k])
    BY DEF Lines, Made
  <2> QED
    BY <2>1, TextAsFile, TextDepends DEF Insertable
<1>2. SomethingStarts(File(text))
  <2>1. aaron_sched \in Seq(Range(aaron_sched))
    BY ScheduleFileAssumption DEF Lines
  <2>2. PICK s \in 1 .. set : DOMAIN aaron_sched[s] # {}
    BY <2>1 DEF Sound
  <2>3. PICK j \in 1 .. Len(text) : set_of[j] = s
    BY <2>2 DEF Covered, OfSet
  <2>4. Len(text) \in Nat /\ 1 \in 1 .. Len(text)
    BY <2>3 DEF Lines
  <2>5. \A k \in 1 .. Len(text) : set_of[1] <= set_of[k] /\ set_of[k] \in Nat
    BY DEF Lines, Made
  <2>6. OfSet(set_of[1] - 1) = {}
    BY <2>4, <2>5 DEF OfSet
  <2>7. Depends(text[1]) \in Seq(Nat) /\ Range(Depends(text[1])) = {}
    BY <2>4, <2>6 DEF Lines, Made
  <2>8. Len(Depends(text[1])) = 0
    <3> DEFINE ds == Depends(text[1])
    <3>1. ds \in Seq(Nat) /\ Range(ds) = {}
      BY <2>7
    <3> HIDE DEF ds
    <3>2. Len(ds) \in Nat /\ DOMAIN ds = 1 .. Len(ds)
      BY <3>1
    <3>3. DOMAIN ds = {}
      BY <3>1 DEF Range
    <3>4. Len(ds) = 0
      BY <3>2, <3>3
    <3> QED
      BY <3>4 DEF ds
  <2> QED
    BY <2>4, <2>8, TextAsFile DEF SomethingStarts
<1> QED
  BY <1>1, <1>2

-----------------------------------------------------------------------------
(* The steps.                                                              *)

\* A JSON file is a sequence of sets.
LEMMA SetsOfFile ==
  ASSUME Lines
  PROVE  /\ aaron_sched \in Seq(Range(aaron_sched)) /\ Len(aaron_sched) \in Nat
         /\ DOMAIN aaron_sched = 1 .. Len(aaron_sched) /\ set \in Nat
<1>1. aaron_sched \in Seq(Range(aaron_sched))
  BY ScheduleFileAssumption DEF Lines
<1>2. set \in 0 .. Len(aaron_sched)
  BY DEF Lines
<1> QED
  BY <1>1, <1>2

\* Before the table is filled, and when none of it changes.
LEMMA TableEmpty ==
  ASSUME pc # "running", pc' # "running", Table, UNCHANGED sched_vars
  PROVE  Table'
BY DEF Table, SchedInit, sched_vars

\* Lines stay as they are while no line is written.
LEMMA LinesKept ==
  ASSUME Lines, UNCHANGED <<text, set_of, aaron_sched>>,
         set' \in Nat, set <= set', set' <= Len(aaron_sched)
  PROVE  Lines' /\ \A s : OfSet(s)' = OfSet(s)
<1>1. \A s : OfSet(s)' = OfSet(s)
  BY DEF OfSet
<1>2. set \in Nat /\ Len(aaron_sched) \in Nat
  BY SetsOfFile
<1>3. ASSUME NEW k \in 1 .. Len(text) PROVE Made(k)'
  <2>1. Made(k)
    BY DEF Lines
  <2>2. Sound(aaron_sched)' <=> Sound(aaron_sched)
    BY DEF Sound
  <2>3. OfSet(set_of[k] - 1)' = OfSet(set_of[k] - 1)
    BY DEF OfSet
  <2>4. set_of'[k] \in 1 .. set'
    BY <1>2, <2>1 DEF Made
  <2> QED
    BY <2>1, <2>2, <2>3, <2>4 DEF Made
<1> QED
  BY <1>1, <1>2, <1>3 DEF Lines

\* A file is read: there are no lines yet.
LEMMA ReadJsonInv ==
  ASSUME Init, ReadJson
  PROVE  JsonInv'
<1>1. /\ pc' = "sets" /\ text' = <<>> /\ set' = 0 /\ last_m_id_set' = <<0>>
      /\ set_of' = <<>> /\ aaron_sched' \in JsonFiles /\ SchedInit
      /\ UNCHANGED sched_vars
  BY DEF Init, ReadJson
<1>2. Len(aaron_sched') \in Nat
  BY <1>1, ScheduleFileAssumption
<1>3. Lines'
  BY <1>1, <1>2 DEF Lines
<1>4. Covered'
  BY <1>1 DEF Covered
<1>5. Remembered'
  <2>1. Range(<<0>>) = {0}
    BY DEF Range
  <2>2. OfSet(0)' = {}
    BY <1>1 DEF OfSet
  <2>3. NoRepeats(<<0>>)
    BY DEF NoRepeats
  <2> QED
    BY <1>1, <2>1, <2>2, <2>3 DEF Remembered, NoMeasurement
<1>6. Table'
  BY <1>1 DEF Table, SchedInit, sched_vars
<1> QED
  BY <1>1, <1>3, <1>4, <1>5, <1>6 DEF JsonInv, SoundJsonAccepted

\* A set is begun: it has no lines yet.
LEMMA StartSetInv ==
  ASSUME JsonInv, StartSet
  PROVE  JsonInv'
<1>1. /\ pc = "sets" /\ pc' = "relays" /\ set < Len(aaron_sched) /\ set' = set + 1
      /\ left' = DOMAIN aaron_sched[set'] /\ new_m_id_set' = <<>>
      /\ UNCHANGED <<text, aaron_sched, last_m_id_set, set_of, sched_vars>>
  BY DEF StartSet
<1>2. Lines /\ Covered /\ Remembered /\ Table
  BY DEF JsonInv
<1>3. set \in Nat /\ Len(aaron_sched) \in Nat
  BY <1>2, SetsOfFile
<1>4. Lines' /\ \A s : OfSet(s)' = OfSet(s)
  BY <1>1, <1>2, <1>3, LinesKept
<1>5. Covered'
  <2> SUFFICES ASSUME NEW s \in 1 .. set', DOMAIN aaron_sched[s] # {}
               PROVE  OfSet(s)' # {} \/ (s = set' /\ left' # {})
    BY <1>1 DEF Covered
  <2>1. CASE s = set'
    BY <1>1, <2>1
  <2>2. CASE s # set'
    <3>1. s \in 1 .. set
      BY <1>1, <1>3, <2>2
    <3> QED
      BY <1>1, <1>2, <1>4, <3>1 DEF Covered
  <2> QED
    BY <2>1, <2>2
<1>6. Remembered'
  <2>1. OfSet(set') = {}
    BY <1>1, <1>2, <1>3 DEF OfSet, Lines, Made
  <2>2. Range(<<>>) = {} /\ <<>> \in Seq(Nat \ {0}) /\ NoRepeats(<<>>)
    BY DEF Range, NoRepeats
  <2>3. set' # 0 /\ set' - 1 = set
    BY <1>1, <1>3
  <2> QED
    BY <1>1, <1>2, <1>4, <2>1, <2>2, <2>3 DEF Remembered
<1>7. Table'
  BY <1>1, <1>2, TableEmpty
<1> QED
  BY <1>1, <1>4, <1>5, <1>6, <1>7 DEF JsonInv, SoundJsonAccepted

\* A set is over: each of its relays has its line.
LEMMA SetEndsInv ==
  ASSUME JsonInv, SetEnds
  PROVE  JsonInv'
<1>1. /\ pc = "relays" /\ pc' = "sets" /\ left = {} /\ last_m_id_set' = new_m_id_set
      /\ UNCHANGED <<text, aaron_sched, set, left, new_m_id_set, set_of, sched_vars>>
  BY DEF SetEnds
<1>2. Lines /\ Covered /\ Remembered /\ Table
  BY DEF JsonInv
<1>3. set \in Nat /\ Len(aaron_sched) \in Nat /\ set <= Len(aaron_sched)
  BY <1>2, SetsOfFile DEF Lines
<1>4. Lines' /\ \A s : OfSet(s)' = OfSet(s)
  BY <1>1, <1>2, <1>3, LinesKept
<1>5. Covered'
  BY <1>1, <1>2, <1>4 DEF Covered
<1>6. Remembered'
  <2>1. /\ new_m_id_set \in Seq(Nat \ {0}) /\ Range(new_m_id_set) = OfSet(set)
        /\ NoRepeats(new_m_id_set)
    BY <1>1, <1>2 DEF Remembered
  <2>2. 0 \notin Range(new_m_id_set)
    BY <2>1 DEF Range
  <2> QED
    BY <1>1, <1>4, <2>1, <2>2 DEF Remembered
<1>7. Table'
  BY <1>1, <1>2, TableEmpty
<1> QED
  BY <1>1, <1>4, <1>5, <1>6, <1>7 DEF JsonInv, SoundJsonAccepted

\* The end of the process in a panic, which no sound schedule meets.
LEMMA PanicInv ==
  ASSUME JsonInv, pc # "running", pc' = "panicked", ~ Sound(aaron_sched),
         UNCHANGED <<text, json_vars, sched_vars>>
  PROVE  JsonInv'
<1>1. Lines /\ Table
  BY DEF JsonInv
<1>2. set \in Nat /\ Len(aaron_sched) \in Nat /\ set <= Len(aaron_sched)
  BY <1>1, SetsOfFile DEF Lines
<1>3. Lines'
  BY <1>1, <1>2, LinesKept DEF json_vars
<1>4. Covered' /\ Remembered'
  BY DEF Covered, Remembered
<1>5. Table'
  BY <1>1, TableEmpty
<1>6. SoundJsonAccepted'
  BY DEF SoundJsonAccepted, Sound, json_vars
<1> QED
  BY <1>3, <1>4, <1>5, <1>6 DEF JsonInv

\* From one state of the reader after the last set to another.
LEMMA ReadToTheEnd ==
  ASSUME JsonInv, pc \in {"sets", "advised"}, pc' \in {"advised", "parse"},
         set = Len(aaron_sched), UNCHANGED <<text, json_vars, sched_vars>>
  PROVE  JsonInv'
<1>1. Lines /\ Covered /\ Table
  BY DEF JsonInv
<1>2. set \in Nat /\ Len(aaron_sched) \in Nat /\ set <= Len(aaron_sched)
  BY <1>1, SetsOfFile
<1>3. Lines' /\ \A s : OfSet(s)' = OfSet(s)
  BY <1>1, <1>2, LinesKept DEF json_vars
<1>4. Covered'
  BY <1>1, <1>3 DEF Covered, json_vars
<1>5. Remembered'
  BY DEF Remembered, json_vars
<1>6. Table'
  BY <1>1, TableEmpty
<1> QED
  BY <1>3, <1>4, <1>5, <1>6 DEF JsonInv, SoundJsonAccepted

\* A line joins those of its set; it waits for those of the set before, and
\* its connections suffice.
LEMMA WriteLineInv ==
  ASSUME JsonInv, NEW relay \in left, WriteLine(relay)
  PROVE  JsonInv'
<1> DEFINE rel == aaron_sched[set][relay]
           id == Len(text) + 1
           c == ConnsEach(Cardinality(DOMAIN rel \ {"bg"}))
<1>1. Lines /\ Covered /\ Remembered /\ Table
  BY DEF JsonInv
<1>2. /\ pc = "relays" /\ DOMAIN rel \ {"bg"} # {}
      /\ left' = left \ {relay} /\ set_of' = Append(set_of, set)
      /\ UNCHANGED <<aaron_sched, set, last_m_id_set, sched_vars>>
  BY DEF WriteLine, Measurers
<1>3. PICK classes \in SetToSeqs(DOMAIN rel) :
        LET bws == [k \in DOMAIN classes |-> Bytes(rel[classes[k]])]
            conns == ConnsOf(classes, c)
        IN /\ id \in Msms
           /\ text' = Append(text, <<id, relay, 30, classes, bws, conns>> \o DependWord)
           /\ new_m_id_set' = Append(new_m_id_set, id)
           /\ pc' = IF Total(conns) >= (IF "bg" \in Range(classes) THEN Conns + 1 ELSE Conns)
                      THEN pc ELSE "panicked"
  BY DEF WriteLine, Measurers, Total
<1> DEFINE bws == [k \in DOMAIN classes |-> Bytes(rel[classes[k]])]
           conns == ConnsOf(classes, c)
           line == JsonLine(id, relay, classes, bws, conns, last_m_id_set)
<1>4. /\ aaron_sched \in Seq(Range(aaron_sched)) /\ Len(aaron_sched) \in Nat
      /\ DOMAIN aaron_sched = 1 .. Len(aaron_sched) /\ set \in Nat
  BY <1>1, SetsOfFile
<1>5. /\ set # 0 /\ set \in DOMAIN aaron_sched /\ relay \in DOMAIN aaron_sched[set]
      /\ left \subseteq DOMAIN aaron_sched[set]
  BY <1>1, <1>2, <1>4 DEF Remembered, Lines
<1>6. IsFiniteSet(DOMAIN rel) /\ \A class \in DOMAIN rel : rel[class] \in Nat
  BY <1>1, <1>5, ScheduleFileAssumption DEF Lines
<1>7. text' = Append(text, line)
  BY <1>3 DEF JsonLine, FirstWords, DependWord, DependWords
<1>8. /\ line # <<>> /\ Len(line) <= 7 /\ Id(line) = id
      /\ Word(line, 4, <<>>) = classes /\ Word(line, 5, <<>>) = bws
      /\ Word(line, 6, <<>>) = conns /\ Word(line, 7, <<>>) = last_m_id_set
  <2> HIDE DEF bws, conns, id
  <2> QED
    BY WordsOfLine
<1>9. /\ text' \in Seq(Range(text')) /\ Len(text) \in Nat /\ Len(text') = id
      /\ \A k \in 1 .. Len(text) : text'[k] = text[k]
      /\ text'[id] = line
  <2>1. text \in Seq(Range(text))
    BY <1>1 DEF Lines
  <2> HIDE DEF line
  <2> QED
    BY <1>7, <2>1, AppendAny
<1> HIDE DEF line, bws, conns
<1>10. /\ set_of' \in Seq(Nat) /\ Len(set_of') = id /\ set_of'[id] = set
       /\ \A k \in 1 .. Len(text) : set_of'[k] = set_of[k]
  BY <1>1, <1>2, <1>4, <1>9 DEF Lines
<1> DEFINE OfSetNow(s) == {j \in 1 .. Len(text') : set_of'[j] = s}
<1>11. OfSetNow(set) = OfSet(set) \cup {id} /\ \A s : s # set => OfSetNow(s) = OfSet(s)
  <2>1. 1 .. Len(text') = (1 .. Len(text)) \cup {id} /\ id \notin 1 .. Len(text)
    BY <1>9
  <2>2. \A j \in 1 .. Len(text) : set_of'[j] = set_of[j]
    BY <1>10
  <2> HIDE DEF id
  <2>3. OfSetNow(set) = OfSet(set) \cup {id}
    BY <1>10, <2>1, <2>2 DEF OfSet
  <2>4. ASSUME NEW s, s # set PROVE OfSetNow(s) = OfSet(s)
    BY <1>10, <2>1, <2>2, <2>4 DEF OfSet
  <2> QED
    BY <2>3, <2>4
<1>12. last_m_id_set = NoMeasurement \/ last_m_id_set \in Seq(Nat \ {0})
  BY <1>1, <1>2 DEF Remembered
<1>13. /\ Depends(line) \in Seq(Nat) /\ Range(Depends(line)) = OfSet(set - 1)
       /\ NoRepeats(Depends(line))
  <2>1. Range(last_m_id_set) \ {0} = OfSet(set - 1) /\ NoRepeats(last_m_id_set)
    BY <1>1, <1>2 DEF Remembered
  <2> QED
    BY <1>8, <1>12, <2>1, DependsOfLine
<1>14. id \in Nat /\ id # 0 /\ id \in Msms /\ 1 .. Len(text') = (1 .. Len(text)) \cup {id}
  BY <1>3, <1>9
<1>15. c \in Nat
  <2>1. Cardinality(DOMAIN rel \ {"bg"}) \in Nat \ {0}
    <3>1. IsFiniteSet(DOMAIN rel \ {"bg"})
      BY <1>6, FS_Subset, DOMAIN rel \ {"bg"} \in SUBSET DOMAIN rel
    <3> QED
      BY <1>2, <3>1, FS_EmptySet, FS_CardinalityType
  <2> HIDE DEF rel
  <2>2. \A m \in Nat \ {0} : Conns \div m \in Nat
    BY ScheduleFileAssumption
  <2> QED
    BY <2>1, <2>2 DEF ConnsEach
<1>16. Sound(aaron_sched) => Parsed(line)
  <2> SUFFICES ASSUME Sound(aaron_sched)
               PROVE  Parsed(line)
    OBVIOUS
  <2>1. "bg" \in DOMAIN rel => rel["bg"] \in (8 * BgBw - 4) .. (8 * BgBw + 3)
    BY <1>5 DEF Sound
  <2>2. /\ Word(line, 5, <<>>) = [k \in DOMAIN classes |-> Bytes(rel[classes[k]])]
        /\ Word(line, 6, <<>>) = ConnsOf(classes, c)
    BY <1>8 DEF bws, conns
  <2> HIDE DEF rel, c, id
  <2> QED
    BY <1>3, <1>6, <1>8, <1>14, <1>15, <2>1, <2>2, LineParsed
<1>17. Sound(aaron_sched)' <=> Sound(aaron_sched)
  BY <1>2 DEF Sound
<1> HIDE DEF rel, c, id
<1>18. Lines'
  <2>1. ASSUME NEW k \in 1 .. Len(text) PROVE Made(k)'
    <3>1. Made(k)
      BY <1>1 DEF Lines
    <3>2. 1 \in 1 .. Len(text)
      BY <1>9
    <3>3. set_of'[1] = set_of[1] /\ set_of'[k] = set_of[k] /\ text'[k] = text[k]
      BY <1>9, <1>10, <3>2
    <3>4. set_of[k] - 1 # set
      BY <1>4, <3>1 DEF Made
    <3>5. OfSet(set_of[k] - 1)' = OfSet(set_of[k] - 1)
      BY <1>11, <3>3, <3>4 DEF OfSet
    <3> QED
      BY <1>2, <1>17, <3>1, <3>3, <3>5 DEF Made
  <2>2. ASSUME NEW k, k = id PROVE Made(k)'
    <3>1. set_of'[1] <= set
      <4>1. CASE Len(text) = 0
        BY <1>4, <1>10, <4>1 DEF id
      <4>2. CASE Len(text) # 0
        <5>1. 1 \in 1 .. Len(text)
          BY <1>9, <4>2
        <5>2. set_of[1] \in 1 .. set
          BY <1>1, <5>1 DEF Lines, Made
        <5> QED
          BY <1>4, <1>10, <5>1, <5>2
      <4> QED
        BY <4>1, <4>2
    <3>2. OfSetNow(set - 1) = OfSet(set - 1)
      BY <1>4, <1>11
    <3>3. OfSet(set_of[k] - 1)' = OfSet(set - 1)
      BY <1>10, <2>2, <3>2 DEF OfSet
    <3>4. set_of'[k] \in 1 .. set'
      BY <1>2, <1>4, <1>5, <1>10, <2>2
    <3> QED
      BY <1>8, <1>9, <1>10, <1>13, <1>14, <1>16, <1>17, <2>2, <3>1, <3>3, <3>4 DEF Made
  <2>3. \A k \in 1 .. Len(text') : Made(k)'
    BY <1>14, <2>1, <2>2
  <2> QED
    BY <1>1, <1>2, <1>9, <1>10, <2>3 DEF Lines
<1>19. Covered'
  <2> SUFFICES ASSUME NEW s \in 1 .. set, DOMAIN aaron_sched[s] # {}
               PROVE  OfSetNow(s) # {}
    BY <1>2 DEF Covered, OfSet
  <2>1. CASE s = set
    BY <1>11, <2>1
  <2>2. CASE s # set
    <3>1. OfSet(s) # {}
      BY <1>1, <1>2, <2>2 DEF Covered
    <3> QED
      BY <1>11, <2>2, <3>1
  <2> QED
    BY <2>1, <2>2
<1>20. pc' \in {"relays", "panicked"} /\ (Sound(aaron_sched) => pc' = "relays")
  <2>1. Total(conns) >= IF "bg" \in Range(classes) THEN Conns + 1 ELSE Conns
    BY <1>2, <1>6, ConnsSuffice DEF conns, c
  <2> QED
    BY <1>2, <1>3, <2>1 DEF conns
<1>21. Remembered'
  <2> SUFFICES ASSUME pc' = "relays"
               PROVE  Remembered'
    BY <1>20 DEF Remembered
  <2>1. OfSet(set - 1)' = OfSet(set - 1)
    <3>1. OfSetNow(set - 1) = OfSet(set - 1)
      BY <1>4, <1>11
    <3> QED
      BY <1>2, <3>1 DEF OfSet
  <2>2. Range(last_m_id_set) \ {0} = OfSet(set - 1) /\ NoRepeats(last_m_id_set)
    BY <1>1, <1>2 DEF Remembered
  <2>3. /\ new_m_id_set \in Seq(Nat \ {0}) /\ Range(new_m_id_set) = OfSet(set)
        /\ NoRepeats(new_m_id_set)
    BY <1>1, <1>2 DEF Remembered
  <2>4. new_m_id_set' = Append(new_m_id_set, id)
    BY <1>3
  <2>5. new_m_id_set' \in Seq(Nat \ {0})
    BY <1>14, <2>3, <2>4
  <2>6. Range(new_m_id_set') = Range(new_m_id_set) \cup {id}
    <3>1. new_m_id_set \in Seq(Range(new_m_id_set))
      BY <2>3 DEF Range
    <3> QED
      BY <2>4, <3>1, AppendAny
  <2>7. OfSet(set)' = OfSet(set) \cup {id}
    BY <1>2, <1>11 DEF OfSet
  <2>8. Range(new_m_id_set') = OfSet(set)'
    BY <2>3, <2>6, <2>7
  <2>9. left' \subseteq DOMAIN aaron_sched'[set']
    BY <1>2, <1>5
  <2>10. NoRepeats(new_m_id_set')
    <3>1. id \notin Range(new_m_id_set)
      BY <1>9, <2>3 DEF OfSet, id
    <3>2. \A i \in 1 .. Len(new_m_id_set) : new_m_id_set[i] # id
      BY <2>3, <3>1 DEF Range
    <3>3. /\ Len(new_m_id_set') = Len(new_m_id_set) + 1 /\ Len(new_m_id_set) \in Nat
          /\ \A i \in 1 .. Len(new_m_id_set) : new_m_id_set'[i] = new_m_id_set[i]
          /\ new_m_id_set'[Len(new_m_id_set) + 1] = id
      BY <1>14, <2>3, <2>4
    <3> QED
      BY <2>3, <3>2, <3>3 DEF NoRepeats
  <2> QED
    BY <1>2, <1>5, <1>12, <2>1, <2>2, <2>5, <2>8, <2>9, <2>10 DEF Remembered
<1>22. Table'
  BY <1>1, <1>2, <1>20, TableEmpty
<1> QED
  BY <1>17, <1>18, <1>19, <1>20, <1>21, <1>22 DEF JsonInv, SoundJsonAccepted

-----------------------------------------------------------------------------
(* The table is filled, and worked through.                                *)

\* The lines are parsed, or the process panics before it gives the advice.
LEMMA JsonReadInv ==
  ASSUME JsonInv, JsonRead
  PROVE  JsonInv'
<1>1. /\ pc = "sets" /\ set = Len(aaron_sched)
      /\ pc' = IF Insertable(text) THEN "advised" ELSE "panicked"
      /\ UNCHANGED <<text, json_vars, sched_vars>>
  BY DEF JsonRead
<1>2. CASE Insertable(text)
  BY <1>1, <1>2, ReadToTheEnd
<1>3. CASE ~ Insertable(text)
  <2>1. ~ Sound(aaron_sched)
    BY <1>1, <1>3, TextAccepted DEF JsonInv
  <2> QED
    BY <1>1, <1>3, <2>1, PanicInv
<1> QED
  BY <1>2, <1>3

\* A sound schedule is not refused when it is read as text.
LEMMA RefuseInv ==
  ASSUME JsonInv, Refuse
  PROVE  JsonInv'
<1>1. /\ pc = "parse" /\ pc' = "panicked"
      /\ ~ (Insertable(text) /\ SomethingStarts(File(text)))
      /\ UNCHANGED <<text, json_vars, sched_vars>>
  BY DEF Refuse
<1>2. set = Len(aaron_sched)
  BY <1>1 DEF JsonInv, Remembered
<1>3. ~ Sound(aaron_sched)
  BY <1>1, <1>2, TextAccepted DEF JsonInv
<1> QED
  BY <1>1, <1>3, PanicInv

\* What does not depend on the table while it is worked through.
LEMMA FileKept ==
  ASSUME JsonInv, pc \in {"parse", "running"}, pc' = "running",
         UNCHANGED <<text, json_vars>>
  PROVE  Lines' /\ Covered' /\ Remembered' /\ SoundJsonAccepted'
<1>1. Lines /\ Covered /\ set = Len(aaron_sched)
  BY DEF JsonInv, Remembered
<1>2. set \in Nat /\ Len(aaron_sched) \in Nat /\ set <= Len(aaron_sched)
  BY <1>1, SetsOfFile
<1>3. Lines' /\ \A s : OfSet(s)' = OfSet(s)
  BY <1>1, <1>2, LinesKept DEF json_vars
<1>4. Covered'
  BY <1>1, <1>3 DEF Covered, json_vars
<1>5. Remembered' /\ SoundJsonAccepted'
  BY <1>1 DEF Remembered, SoundJsonAccepted, json_vars
<1> QED
  BY <1>3, <1>4, <1>5

\* The table is that of the lines.
LEMMA LoadTextInv ==
  ASSUME JsonInv, Load
  PROVE  JsonInv'
<1> DEFINE file == File(text)
<1>1. /\ pc = "parse" /\ pc' = "running" /\ Insertable(text)
      /\ SomethingStarts(file) /\ sched_new(file) /\ UNCHANGED <<text, json_vars>>
  BY DEF Load
<1>2. Lines /\ SchedInit
  BY <1>1 DEF JsonInv, Table
<1>3. FileOK(file) /\ Accepts(file)
  BY <1>1, <1>2, TextDepends DEF Accepts
<1>4. /\ DOMAIN file = 1 .. Len(text)
      /\ \A m \in 1 .. Len(text) : file[m] = Depends(text[m])
  BY <1>2, TextAsFile
<1> HIDE DEF file
<1>5. SchedInv /\ sched_finished
  BY <1>2, SchedInitType DEF SchedInit, SchedInv, DependsLoaded, LoadedPresent,
                             OnlyLoadedRuns, FinishedExact, sched_finished
<1>6. SchedTypeOK'
  BY <1>1, <1>3, <1>5, SchedNewType DEF SchedInv
<1>7. SchedInv'
  BY <1>1, <1>3, <1>5, <1>6, LoadInv
<1>8. /\ loaded' = 1 .. Len(text)
      /\ \A m \in 1 .. Len(text) :
           /\ m \in Msms /\ depends'[m] = Depends(text[m])
           /\ msm_state'[m] = "Waiting"
  BY <1>1, <1>3, <1>4 DEF sched_new, Inserted, All, FileOK
<1>9. Table'
  <2>1. text' = text
    BY <1>1
  <2>2. DependsOver'
    BY <1>8 DEF DependsOver
  <2> QED
    BY <1>1, <1>7, <1>8, <2>1, <2>2 DEF Table
<1> QED
  BY <1>1, <1>9, FileKept DEF JsonInv

\* What is handed out has its dependencies behind it,
LEMMA HandOutMsmInv ==
  ASSUME JsonInv, NEW m \in Msms, HandOut(m)
  PROVE  JsonInv'
<1>1. pc = "running" /\ pc' = "running" /\ sched_next(m) /\ UNCHANGED <<text, json_vars>>
  BY DEF HandOut
<1>2. /\ SchedInv /\ loaded = 1 .. Len(text) /\ DependsOver
      /\ \A n \in loaded : depends[n] = Depends(text[n])
  BY <1>1 DEF JsonInv, Table
<1>3. SchedTypeOK /\ SchedTypeOK'
  BY <1>1, <1>2, SchedNextType DEF SchedInv
<1>4. SchedInv'
  BY <1>1, <1>2, <1>3, HandOutInv
<1>5. /\ loaded' = loaded /\ depends' = depends /\ msm_state[m] = "Waiting"
      /\ msm_state' = [msm_state EXCEPT ![m] = "InProgress"]
  BY <1>1 DEF sched_next, Ready
<1>6. DependsOver'
  <2> SUFFICES ASSUME NEW n \in loaded, msm_state'[n] \in {"InProgress", "Complete"},
                      NEW d \in Range(depends[n])
               PROVE  msm_state'[d] = "Complete"
    BY <1>5 DEF DependsOver
  <2>1. msm_state[d] = "Complete"
    <3>1. CASE n = m
      BY <1>1, <1>2, <3>1, ReadyMeansDone DEF sched_next
    <3>2. CASE n # m
      BY <1>2, <1>3, <1>5, <3>2 DEF DependsOver, SchedTypeOK
    <3> QED
      BY <3>1, <3>2
  <2>2. d \in Msms /\ d # m
    BY <1>2, <1>3, <1>5, <2>1 DEF SchedInv, DependsLoaded, SchedTypeOK
  <2> QED
    BY <1>3, <1>5, <2>1, <2>2 DEF SchedTypeOK
<1>7. Table'
  BY <1>1, <1>2, <1>4, <1>5, <1>6 DEF Table
<1> QED
  BY <1>1, <1>7, FileKept DEF JsonInv

\* and what is over stays over.
LEMMA MarkDoneMsmInv ==
  ASSUME JsonInv, NEW m \in Msms, MarkDone(m)
  PROVE  JsonInv'
<1>1. /\ pc = "running" /\ pc' = "running" /\ msm_state[m] = "InProgress"
      /\ sched_mark_done(m) /\ UNCHANGED <<text, json_vars>>
  BY DEF MarkDone
<1>2. /\ SchedInv /\ loaded = 1 .. Len(text) /\ DependsOver
      /\ \A n \in loaded : depends[n] = Depends(text[n])
  BY <1>1 DEF JsonInv, Table
<1>3. SchedTypeOK /\ SchedTypeOK'
  BY <1>1, <1>2, MarkDoneType DEF SchedInv
<1>4. SchedInv'
  BY <1>1, <1>2, <1>3, MarkDoneInv
<1>5. /\ loaded' = loaded /\ depends' = depends
      /\ msm_state' = [msm_state EXCEPT ![m] = "Complete"]
  BY <1>1 DEF sched_mark_done
<1>6. DependsOver'
  <2> SUFFICES ASSUME NEW n \in loaded, msm_state'[n] \in {"InProgress", "Complete"},
                      NEW d \in Range(depends[n])
               PROVE  msm_state'[d] = "Complete"
    BY <1>5 DEF DependsOver
  <2>1. msm_state[n] \in {"InProgress", "Complete"}
    BY <1>1, <1>3, <1>5 DEF SchedTypeOK
  <2>2. msm_state[d] = "Complete" /\ d \in Msms
    BY <1>2, <1>3, <2>1 DEF DependsOver, SchedInv, DependsLoaded, SchedTypeOK
  <2> QED
    BY <1>3, <1>5, <2>2 DEF SchedTypeOK
<1>7. Table'
  BY <1>1, <1>2, <1>4, <1>5, <1>6 DEF Table
<1> QED
  BY <1>1, <1>7, FileKept DEF JsonInv

-----------------------------------------------------------------------------

\* The invariant is inductive.
LEMMA NextInv == Inv /\ [Next]_vars => Inv'
<1> SUFFICES ASSUME Inv, [Next]_vars, aaron_sched' # <<>> \/ pc' = "startup" PROVE Inv'
  BY DEF Inv
<1>1. CASE UNCHANGED vars
  <2>1. UNCHANGED <<pc, text, aaron_sched, set, left, new_m_id_set, last_m_id_set, set_of,
                    loaded, depends, msm_state, finished_depends, overdue>>
    BY <1>1 DEF vars, json_vars, sched_vars
  <2>2. Init => Init'
    BY <2>1 DEF Init, SchedInit
  <2>3. ASSUME JsonInv PROVE JsonInv'
    <3>1. Lines /\ set \in Nat /\ Len(aaron_sched) \in Nat /\ set <= Len(aaron_sched)
      BY <2>3, SetsOfFile DEF JsonInv, Lines
    <3>2. Lines' /\ \A s : OfSet(s)' = OfSet(s)
      BY <2>1, <3>1, LinesKept
    <3>3. Covered'
      BY <2>1, <2>3, <3>2 DEF Covered, JsonInv
    <3>4. Remembered'
      <4>1. OfSet(IF pc = "relays" THEN set - 1 ELSE set)' =
              OfSet(IF pc = "relays" THEN set - 1 ELSE set)
        BY <2>1 DEF OfSet
      <4>2. OfSet(set)' = OfSet(set)
        BY <2>1 DEF OfSet
      <4> QED
        BY <2>1, <2>3, <4>1, <4>2 DEF Remembered, JsonInv
    <3>5. Table'
      BY <2>1, <2>3 DEF JsonInv, Table, SchedInit, SchedInv, SchedTypeOK, DependsLoaded,
                        LoadedPresent, OnlyLoadedRuns, FinishedExact, DependsDone, DependsOver
    <3>6. SoundJsonAccepted'
      BY <2>1, <2>3 DEF JsonInv, SoundJsonAccepted, Sound
    <3> QED
      BY <3>2, <3>3, <3>4, <3>5, <3>6 DEF JsonInv
  <2> QED
    BY <2>1, <2>2, <2>3 DEF Inv
<1>2. CASE ReadText
  BY <1>2 DEF Inv, Init, ReadText, json_vars
<1>3. CASE ReadJson
  <2>1. JsonInv'
    BY <1>3, ReadJsonInv DEF Inv, ReadJson
  <2> QED
    BY <1>3, <2>1 DEF Inv, ReadJson
<1>4. ASSUME Next, ~ ReadText, ~ ReadJson PROVE Inv'
  <2>1. pc' # "startup" /\ aaron_sched' = aaron_sched
    BY <1>4 DEF Next, StartSet, SetEnds, JsonRead, UsePrinted, WriteLine, NoMeasurer,
                Load, Refuse, HandOut, MarkDone, json_vars
  <2>2. JsonInv
    BY <2>1 DEF Inv
  <2>3. ASSUME NEW relay \in left, NoMeasurer(relay) PROVE JsonInv'
    <3>1. pc = "relays" /\ Measurers(relay) = {} /\ pc' = "panicked"
      BY <2>3 DEF NoMeasurer
    <3>2. set \in DOMAIN aaron_sched /\ relay \in DOMAIN aaron_sched[set]
      <4>1. set # 0 /\ left \subseteq DOMAIN aaron_sched[set]
        BY <2>2, <3>1 DEF JsonInv, Remembered
      <4>2. set \in 0 .. Len(aaron_sched) /\ DOMAIN aaron_sched = 1 .. Len(aaron_sched)
        BY <2>2, SetsOfFile DEF JsonInv, Lines
      <4> QED
        BY <4>1, <4>2
    <3>3. ~ Sound(aaron_sched)
      BY <3>1, <3>2 DEF Sound, Measurers
    <3> QED
      BY <2>2, <2>3, <3>1, <3>3, PanicInv DEF NoMeasurer
  <2>4. CASE UsePrinted
    <3>1. set = Len(aaron_sched)
      BY <2>2, <2>4 DEF UsePrinted, JsonInv, Remembered
    <3>2. JsonInv'
      BY <2>2, <2>4, <3>1, ReadToTheEnd DEF UsePrinted
    <3> QED
      BY <2>1, <3>2 DEF Inv
  <2>5. CASE StartSet \/ SetEnds \/ JsonRead \/ Load \/ Refuse
    BY <2>1, <2>2, <2>5, StartSetInv, SetEndsInv, JsonReadInv, LoadTextInv, RefuseInv DEF Inv
  <2>6. CASE \E relay \in left : WriteLine(relay) \/ NoMeasurer(relay)
    BY <2>1, <2>2, <2>3, <2>6, WriteLineInv DEF Inv
  <2>7. CASE \E m \in Msms : HandOut(m) \/ MarkDone(m)
    BY <2>1, <2>2, <2>7, HandOutMsmInv, MarkDoneMsmInv DEF Inv
  <2> QED
    BY <1>4, <2>4, <2>5, <2>6, <2>7 DEF Next
<1> QED
  BY <1>1, <1>2, <1>3, <1>4

\* The inductive invariant: what is made from a JSON file and how it is worked
\* through.
THEOREM ScheduleFileInvariant == Spec => []Inv
<1>1. Init => Inv
  BY DEF Init, Inv
<1> QED
  BY <1>1, NextInv, PTL DEF Spec

\* A sound JSON schedule is never refused, for any number of sets, of relays
\* and of measurers that share the connections.
THEOREM SoundAccepted == Spec => []SoundJsonAccepted
<1>1. Inv => SoundJsonAccepted
  <2> SUFFICES ASSUME Inv, aaron_sched = <<>>
               PROVE  SoundJsonAccepted
    BY DEF Inv, JsonInv
  <2>1. DOMAIN aaron_sched = {}
    OBVIOUS
  <2> QED
    BY <2>1 DEF SoundJsonAccepted, Sound
<1> QED
  BY <1>1, ScheduleFileInvariant, PTL

\* From one set to the next: the set before that of a measurement which is
\* handed out has a line, and all of its lines are over.
LEMMA SetBefore ==
  ASSUME JsonInv, pc = "running", NEW n \in loaded,
         msm_state[n] \in {"InProgress", "Complete"}
  PROVE  \A j \in 1 .. Len(text) : set_of[j] = set_of[n] - 1 => msm_state[j] = "Complete"
<1>1. /\ loaded = 1 .. Len(text) /\ depends[n] = Depends(text[n]) /\ DependsOver
  BY DEF JsonInv, Table
<1>2. Range(depends[n]) = OfSet(set_of[n] - 1)
  BY <1>1 DEF JsonInv, Lines, Made
<1> QED
  BY <1>1, <1>2 DEF DependsOver, OfSet

\* The sets of a JSON file are measured one after the other.
THEOREM SetsAreInOrder == Spec => []SetsInOrder
<1>1. ASSUME Inv, NEW m \in loaded, aaron_sched # <<>>, msm_state[m] # "Complete"
      PROVE  ~ \E n \in loaded :
                 /\ set_of[m] < set_of[n]
                 /\ \A s \in set_of[m] .. set_of[n] : DOMAIN aaron_sched[s] # {}
                 /\ msm_state[n] \in {"InProgress", "Complete"}
  <2> DEFINE Early(n) == /\ n \in loaded /\ set_of[m] < set_of[n]
                         /\ \A s \in set_of[m] .. set_of[n] : DOMAIN aaron_sched[s] # {}
                         /\ msm_state[n] \in {"InProgress", "Complete"}
             W == {set_of[n] : n \in {k \in loaded : Early(k)}}
  <2>1. JsonInv /\ pc = "running"
    BY <1>1 DEF Inv, JsonInv, Table, SchedInit
  <2>2. loaded = 1 .. Len(text)
    BY <2>1 DEF JsonInv, Table
  <2>3. \A n \in loaded : set_of[n] \in 1 .. set /\ set_of[n] \in Nat
    BY <2>1, <2>2 DEF JsonInv, Lines, Made
  <2>4. SUFFICES ASSUME W # {} PROVE FALSE
    OBVIOUS
  <2>5. W \subseteq Nat
    BY <2>3
  <2>6. PICK w \in W : \A l \in W : w <= l
    BY <2>4, <2>5, LeastMember
  <2>7. PICK n \in loaded : Early(n) /\ set_of[n] = w
    OBVIOUS
  <2>8. \A j \in loaded : set_of[j] = w - 1 => msm_state[j] = "Complete"
    BY <2>1, <2>2, <2>7, SetBefore
  <2>9. set_of[m] < w - 1
    BY <1>1, <2>3, <2>7, <2>8
  <2>10. w - 1 \in 1 .. set /\ DOMAIN aaron_sched[w - 1] # {}
    <3>1. set \in Nat
      BY <2>1, SetsOfFile DEF JsonInv
    <3> QED
      BY <2>3, <2>7, <2>9, <3>1
  <2>11. PICK j \in loaded : set_of[j] = w - 1
    <3>1. OfSet(w - 1) # {}
      BY <2>1, <2>10 DEF JsonInv, Covered
    <3> QED
      BY <2>2, <3>1 DEF OfSet
  <2>12. msm_state[j] = "Complete"
    BY <2>8, <2>11
  <2>13. \A s \in set_of[m] .. set_of[j] : DOMAIN aaron_sched[s] # {}
    BY <2>3, <2>7, <2>11
  <2>14. set_of[j] \in W
    BY <2>9, <2>11, <2>12, <2>13
  <2> QED
    BY <2>3, <2>6, <2>7, <2>11, <2>14
<1>2. Inv => SetsInOrder
  BY <1>1 DEF SetsInOrder
<1> QED
  BY <1>2, ScheduleFileInvariant, PTL

-----------------------------------------------------------------------------
(* The round of a JSON schedule ends.                                      *)

\* Nothing that is made from JSON waits for itself in a roundabout way, or for
\* one measurement twice.
LEMMA MadeSatisfiable ==
  ASSUME JsonInv, pc = "running"
  PROVE  ~ Unsatisfiable
<1>1. /\ loaded = 1 .. Len(text)
      /\ \A m \in loaded : depends[m] = Depends(text[m])
  BY DEF JsonInv, Table
<1>2. \A m \in loaded :
        /\ set_of[m] \in Nat /\ depends[m] \in Seq(Nat) /\ NoRepeats(depends[m])
        /\ Range(depends[m]) = OfSet(set_of[m] - 1)
  BY <1>1 DEF JsonInv, Lines, Made
<1>3. ASSUME NEW S \in SUBSET loaded, S # {}, \A m \in S : Range(depends[m]) \cap S # {}
      PROVE  FALSE
  <2> DEFINE W == {set_of[m] : m \in S}
  <2>1. W \subseteq Nat /\ W # {}
    BY <1>2, <1>3
  <2>2. PICK w \in W : \A l \in W : w <= l
    BY <2>1, LeastMember
  <2>3. PICK m \in S : set_of[m] = w
    OBVIOUS
  <2>4. PICK d \in S : d \in Range(depends[m])
    BY <1>3
  <2>5. set_of[d] = w - 1
    BY <1>2, <2>3, <2>4 DEF OfSet
  <2>6. w \in Nat /\ w - 1 \in W
    BY <2>1, <2>5
  <2>7. w <= w - 1
    BY <2>2, <2>6
  <2> QED
    BY <2>6, <2>7
<1>4. \A m \in loaded : Len(depends[m]) = Cardinality(Range(depends[m]))
  BY <1>2, NoRepeatsCount
<1> QED
  BY <1>3, <1>4 DEF Unsatisfiable

\* While the round of a JSON schedule is not over something can be handed out or
\* is under way.
NeverStuck ==
  pc = "running" /\ aaron_sched # <<>> /\ ~ sched_finished =>
    \E m \in Msms : Ready(m) \/ msm_state[m] = "InProgress"

\* The scheduler never gets stuck on a table that was made from JSON: what
\* MadeScheduleFinishes needs besides fairness.
THEOREM MadeNeverStuck == Spec => []NeverStuck
<1>1. Inv => NeverStuck
  <2> SUFFICES ASSUME Inv, pc = "running", aaron_sched # <<>>, ~ sched_finished,
                      \A m \in Msms : ~ Ready(m) /\ msm_state[m] # "InProgress"
               PROVE  FALSE
    BY DEF NeverStuck
  <2>1. JsonInv /\ SchedInv
    BY DEF Inv, JsonInv, Table
  <2>2. Unsatisfiable
    BY <2>1, WaitingForEachOther
  <2> QED
    BY <2>1, <2>2, MadeSatisfiable
<1> QED
  BY <1>1, ScheduleFileInvariant, PTL
=============================================================================
