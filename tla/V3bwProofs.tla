----------------------------- MODULE V3bwProofs -----------------------------
(***************************************************************************)
(* For any relays, clients, seconds and bandwidths, any window and any     *)
(* number of lines: the table built from the results is exact.             *)
(***************************************************************************)
EXTENDS V3bw, SequenceTheorems, FiniteSetTheorems, TLAPS

LineSet == [fp : Fps, words : Seq(Words), reading : {NoReading} \cup (Nat \X Nat)]

\* The reader takes from a line the reading it tells, or nothing if it tells
\* none or is about a relay without a proper fingerprint.
LineOK(line) ==
  /\ line \in LineSet
  /\ Accepted(line) <=> line.reading # NoReading /\ line.fp \in HexFps
  /\ Accepted(line) => line.reading = <<line.words[3].value, line.words[4].value>>

LinesInv ==
  /\ file \in Seq(LineSet)
  /\ \A k \in DOMAIN file : LineOK(file[k])
  /\ DOMAIN rest = Clients
  /\ \A c \in Clients : rest[c] # <<>> =>
       rest[c] \in Seq(LineSet) /\ Len(rest[c]) = 1 /\ LineOK(rest[c][1])

Inv == TypeOK /\ LinesInv /\ WindowExact

-----------------------------------------------------------------------------
(* The lines of the file.                                                  *)

\* Five words are a sequence of words.
LEMMA FiveWords ==
  ASSUME NEW S, NEW a \in S, NEW b \in S, NEW c \in S, NEW d \in S, NEW e \in S
  PROVE  LET s == <<a, b, c, d, e>>
         IN /\ s \in Seq(S) /\ Len(s) = 5
            /\ s[1] = a /\ s[2] = b /\ s[3] = c /\ s[4] = d /\ s[5] = e
OBVIOUS

\* So are three.
LEMMA ThreeWords ==
  ASSUME NEW S, NEW a \in S, NEW b \in S, NEW c \in S
  PROVE  <<a, b, c>> \in Seq(S) /\ Len(<<a, b, c>>) = 3
OBVIOUS

\* The words of a line of results.
LEMMA ResultWordsType ==
  ASSUME NEW ts \in Nat, NEW bw \in Nat
  PROVE  LET words == ResultWords(ts, bw)
         IN /\ words \in Seq(Words) /\ Len(words) = 5
            /\ words[1].kind = "650" /\ words[2].kind = "SPEEDTESTING"
            /\ words[3].kind = "number" /\ words[3].value = ts
            /\ words[4].kind = "number" /\ words[4].value = bw
<1>1. /\ Word("650") \in Words /\ Word("SPEEDTESTING") \in Words
      /\ Number(ts) \in Words /\ Number(bw) \in Words
  BY DEF Word, Number, Words, Kinds
<1>2. /\ Word("650").kind = "650" /\ Word("SPEEDTESTING").kind = "SPEEDTESTING"
      /\ Number(ts).kind = "number" /\ Number(ts).value = ts
      /\ Number(bw).kind = "number" /\ Number(bw).value = bw
  BY DEF Word, Number
<1> QED
  BY <1>1, <1>2, FiveWords DEF ResultWords

\* A line is read by its words.
LEMMA LineFields ==
  ASSUME NEW fp, NEW words, NEW reading
  PROVE  LET line == Line(fp, words, reading)
         IN /\ line.fp = fp /\ line.words = words /\ line.reading = reading
            /\ fp \in Fps /\ words \in Seq(Words)
               /\ reading \in {NoReading} \cup (Nat \X Nat) => line \in LineSet
BY DEF Line, LineSet

\* A reading is not "no reading".
LEMMA ReadingIsOne ==
  ASSUME NEW a, NEW b
  PROVE  <<a, b>> # NoReading
<1>1. Len(<<a, b>>) = 2 /\ Len(<<>>) = 0
  OBVIOUS
<1> QED
  BY <1>1 DEF NoReading

\* A line that is written whole is read as what it says.
LEMMA WholeLineOK ==
  ASSUME NEW fp \in Fps, NEW ts \in Nat, NEW bw \in Nat
  PROVE  LineOK(Line(fp, ResultWords(ts, bw), <<ts, bw>>))
<1> DEFINE words == ResultWords(ts, bw)
           line == Line(fp, words, <<ts, bw>>)
<1>1. line.fp = fp /\ line.words = words /\ line.reading = <<ts, bw>>
  BY LineFields
<1>2. line \in LineSet
  BY ResultWordsType, LineFields
<1>3. /\ Len(words) = 5
      /\ words[1].kind = "650" /\ words[2].kind = "SPEEDTESTING"
      /\ words[3].kind = "number" /\ words[3].value = ts
      /\ words[4].kind = "number" /\ words[4].value = bw
  BY ResultWordsType
<1>4. line.reading # NoReading
  BY <1>1, ReadingIsOne
<1> HIDE DEF words, line
<1>5. Accepted(line) <=> fp \in HexFps
  BY <1>1, <1>3 DEF Accepted
<1>6. line.reading = <<line.words[3].value, line.words[4].value>>
  BY <1>1, <1>3
<1>7. LineOK(line)
  BY <1>1, <1>2, <1>4, <1>5, <1>6 DEF LineOK
<1> QED
  BY <1>7 DEF line, words

\* BEGIN and END are read as nothing.
LEMMA MarkerOK ==
  ASSUME NEW fp \in Fps
  PROVE  LineOK(Line(fp, MarkerWords, NoReading))
<1>1. MarkerWords \in Seq(Words) /\ Len(MarkerWords) = 3
  <2>1. \A kind \in Kinds : Word(kind) \in Words
    BY DEF Word, Words
  <2> QED
    BY <2>1, ThreeWords DEF MarkerWords, Kinds
<1>2. ~ Accepted(Line(fp, MarkerWords, NoReading))
  BY <1>1, LineFields DEF Accepted
<1> QED
  BY <1>1, <1>2, LineFields DEF LineOK

\* The two pieces of a word are words, and neither is a word of its kind
\* unless it is the whole of it or both are numbers.
LEMMA HalvesType ==
  ASSUME NEW w \in Words, NEW halves \in Halves(w)
  PROVE  /\ halves[1] \in Words /\ halves[2] \in Words
         /\ halves[2].kind = "650" => halves[2] = w /\ halves[1] = Empty
<1>1. /\ Empty \in Words /\ Word("text") \in Words
      /\ Empty.kind = "empty" /\ Word("text").kind = "text"
  BY DEF Empty, Word, Words, Kinds
<1>2. CASE halves = <<Empty, w>>
  BY <1>1, <1>2
<1>3. CASE halves = <<w, Empty>>
  BY <1>1, <1>3
<1>4. CASE halves = <<Word("text"), Word("text")>>
  BY <1>1, <1>4
<1>5. CASE halves = <<Number(w.value \div 10), Number(w.value % 10)>>
  <2>1. w.value \div 10 \in Nat /\ w.value % 10 \in Nat
    BY SMT DEF Words
  <2>2. \A n \in Nat : Number(n) \in Words /\ Number(n).kind = "number"
    BY DEF Number, Words, Kinds
  <2> QED
    BY <1>5, <2>1, <2>2
<1> QED
  BY <1>2, <1>3, <1>4, <1>5, Zenon DEF Halves


\* A member of a sequence.
LEMMA SeqMember ==
  ASSUME NEW S, NEW s \in Seq(S), Len(s) = 5, NEW k \in 1 .. 5
  PROVE  s[k] \in S /\ k \in 1 .. Len(s)
<1>1. k \in 1 .. Len(s)
  OBVIOUS
<1> QED
  BY <1>1, ElementOfSeq

\* The head of a cut line: the words before the cut and a piece of one.
LEMMA HeadOfType ==
  ASSUME NEW words \in Seq(Words), NEW k \in 1 .. Len(words),
         NEW halves, halves[1] \in Words
  PROVE  LET head == HeadOf(words, k, halves)
         IN /\ head \in Seq(Words) /\ Len(head) = k
            /\ \A j \in 1 .. (k - 1) : head[j] = words[j]
            /\ head[k] = halves[1]
<1> DEFINE before == SubSeq(words, 1, k - 1)
<1>1. /\ before \in Seq(Words) /\ Len(before) = k - 1
      /\ \A j \in 1 .. (k - 1) : before[j] = words[j]
  OBVIOUS
<1>2. <<halves[1]>> \in Seq(Words) /\ Len(<<halves[1]>>) = 1 /\ <<halves[1]>>[1] = halves[1]
  OBVIOUS
<1> HIDE DEF before
<1>3. LET head == before \o <<halves[1]>>
      IN /\ head \in Seq(Words) /\ Len(head) = k
         /\ \A j \in 1 .. (k - 1) : head[j] = words[j]
         /\ head[k] = halves[1]
  BY <1>1, <1>2
<1> QED
  BY <1>3 DEF HeadOf, before

\* The rest of it: the other piece and the words after the cut.
LEMMA RestOfType ==
  ASSUME NEW words \in Seq(Words), NEW k \in 1 .. Len(words),
         NEW halves, halves[2] \in Words
  PROVE  LET after == RestOf(words, k, halves)
         IN /\ after \in Seq(Words) /\ Len(after) = Len(words) - k + 1
            /\ after[1] = halves[2]
<1> DEFINE behind == SubSeq(words, k + 1, Len(words))
<1>1. behind \in Seq(Words) /\ Len(behind) = Len(words) - k
  OBVIOUS
<1>2. <<halves[2]>> \in Seq(Words) /\ Len(<<halves[2]>>) = 1 /\ <<halves[2]>>[1] = halves[2]
  OBVIOUS
<1> HIDE DEF behind
<1>3. LET after == <<halves[2]>> \o behind
      IN /\ after \in Seq(Words) /\ Len(after) = Len(words) - k + 1
         /\ after[1] = halves[2]
  BY <1>1, <1>2
<1> QED
  BY <1>3 DEF RestOf, behind

\* Of a line that was cut nothing is read but what was told in full: the head
\* has its nine words only if the cut is in the last one, and the rest has
\* them only if the cut is in the first, which then is not a 650 any more.
LEMMA CutWords ==
  ASSUME NEW fp \in Fps, NEW ts \in Nat, NEW bw \in Nat, NEW k \in 1 .. 5,
         NEW words \in Seq(Words), Len(words) = 5,
         words[1].kind = "650", words[2].kind = "SPEEDTESTING",
         words[3].kind = "number", words[3].value = ts,
         words[4].kind = "number", words[4].value = bw,
         NEW halves \in Halves(words[k]), HeadOf(words, k, halves) # <<Empty>>
  PROVE  /\ LineOK(Line(fp, HeadOf(words, k, halves),
                        IF k = Len(words) THEN <<ts, bw>> ELSE NoReading))
         /\ LineOK(Line(fp, RestOf(words, k, halves), NoReading))
<1> DEFINE head == HeadOf(words, k, halves)
           after == RestOf(words, k, halves)
           reading == IF k = Len(words) THEN <<ts, bw>> ELSE NoReading
<1>1. words[k] \in Words /\ k \in 1 .. Len(words)
  BY SeqMember, Zenon
<1>2. /\ halves[1] \in Words /\ halves[2] \in Words
      /\ halves[2].kind = "650" => halves[1] = Empty
  BY <1>1, HalvesType
<1>3. /\ head \in Seq(Words) /\ Len(head) = k
      /\ \A j \in 1 .. (k - 1) : head[j] = words[j]
      /\ head[k] = halves[1]
  BY <1>1, <1>2, HeadOfType, Zenon
<1>4. /\ after \in Seq(Words) /\ Len(after) = 6 - k
      /\ after[1] = halves[2]
  <2>1. /\ after \in Seq(Words) /\ Len(after) = Len(words) - k + 1
        /\ after[1] = halves[2]
    BY <1>1, <1>2, RestOfType, Zenon
  <2> HIDE DEF after
  <2>2. Len(words) - k + 1 = 6 - k
    OBVIOUS
  <2> QED
    BY <2>1, <2>2
<1>5. k = 1 => halves[1] # Empty
  <2> SUFFICES ASSUME k = 1, halves[1] = Empty PROVE FALSE
    OBVIOUS
  <2>1. head \in Seq(Words) /\ Len(head) = 1 /\ head[1] = Empty
    BY <1>3
  <2> HIDE DEF head
  <2>2. head = <<Empty>>
    BY <2>1
  <2> QED
    BY <2>2 DEF head
<1>6. reading \in {NoReading} \cup (Nat \X Nat) /\ (reading # NoReading <=> k = 5)
  <2>1. <<ts, bw>> # NoReading /\ <<ts, bw>> \in Nat \X Nat
    BY ReadingIsOne
  <2> QED
    BY <2>1
<1> HIDE DEF head, after
<1>7. LineOK(Line(fp, head, reading))
  <2> DEFINE line == Line(fp, head, reading)
  <2>1. line.fp = fp /\ line.words = head /\ line.reading = reading /\ line \in LineSet
    BY <1>3, <1>6, LineFields
  <2> HIDE DEF line, reading
  <2>2. CASE k = 5
    <3>1. /\ head[1].kind = "650" /\ head[2].kind = "SPEEDTESTING"
          /\ head[3].kind = "number" /\ head[3].value = ts
          /\ head[4].kind = "number" /\ head[4].value = bw
      BY <1>3, <2>2
    <3>2. reading = <<ts, bw>>
      BY <2>2 DEF reading
    <3>3. Accepted(line) <=> fp \in HexFps
      BY <2>1, <2>2, <3>1, <1>3 DEF Accepted
    <3>4. reading = <<line.words[3].value, line.words[4].value>>
      BY <2>1, <3>1, <3>2
    <3>5. LineOK(line)
      BY <1>6, <2>1, <2>2, <3>3, <3>4 DEF LineOK
    <3> QED
      BY <3>5 DEF line
  <2>3. CASE k # 5
    <3>1. ~ Accepted(line)
      BY <1>3, <2>1, <2>3 DEF Accepted
    <3>2. LineOK(line)
      BY <3>1, <1>6, <2>1, <2>3 DEF LineOK
    <3> QED
      BY <3>2 DEF line
  <2> QED
    BY <2>2, <2>3
<1>8. LineOK(Line(fp, after, NoReading))
  <2> DEFINE line == Line(fp, after, NoReading)
  <2>1. line.fp = fp /\ line.words = after /\ line.reading = NoReading /\ line \in LineSet
    BY <1>4, LineFields
  <2> HIDE DEF line
  <2>2. ~ Accepted(line)
    BY <1>2, <1>4, <1>5, <2>1 DEF Accepted
  <2>3. LineOK(line)
    BY <2>1, <2>2 DEF LineOK
  <2> QED
    BY <2>3 DEF line
<1> QED
  BY <1>7, <1>8 DEF head, after, reading

\* (That of a line of results.)
LEMMA CutLineOK ==
  ASSUME NEW fp \in Fps, NEW ts \in Nat, NEW bw \in Nat, NEW k \in 1 .. 5,
         NEW halves \in Halves(ResultWords(ts, bw)[k]),
         HeadOf(ResultWords(ts, bw), k, halves) # <<Empty>>
  PROVE  /\ LineOK(Line(fp, HeadOf(ResultWords(ts, bw), k, halves),
                        IF k = Len(ResultWords(ts, bw)) THEN <<ts, bw>> ELSE NoReading))
         /\ LineOK(Line(fp, RestOf(ResultWords(ts, bw), k, halves), NoReading))
<1> DEFINE words == ResultWords(ts, bw)
<1>1. /\ words \in Seq(Words) /\ Len(words) = 5
      /\ words[1].kind = "650" /\ words[2].kind = "SPEEDTESTING"
      /\ words[3].kind = "number" /\ words[3].value = ts
      /\ words[4].kind = "number" /\ words[4].value = bw
  BY ONLY ResultWordsType, ts \in Nat, bw \in Nat
<1> HIDE DEF words
<1>2. halves \in Halves(words[k]) /\ HeadOf(words, k, halves) # <<Empty>>
  BY DEF words
<1>3. /\ LineOK(Line(fp, HeadOf(words, k, halves),
                      IF k = Len(words) THEN <<ts, bw>> ELSE NoReading))
      /\ LineOK(Line(fp, RestOf(words, k, halves), NoReading))
  BY <1>1, <1>2, CutWords, Zenon
<1> QED
  BY <1>3 DEF words

-----------------------------------------------------------------------------
(* The table.                                                              *)

\* What is heard of a relay is a sum for each second.
IsSums(f) == f \in [DOMAIN f -> Nat] /\ DOMAIN f \subseteq Nat

LEMMA CreditedType ==
  ASSUME NEW sums, IsSums(sums), NEW ts \in Nat, NEW bw \in Nat
  PROVE  /\ IsSums(Credited(sums, ts, bw))
         /\ DOMAIN Credited(sums, ts, bw) = DOMAIN sums \cup {ts}
<1> DEFINE new == Credited(sums, ts, bw)
<1>1. DOMAIN new = DOMAIN sums \cup {ts} /\ DOMAIN new \subseteq Nat
  BY DEF Credited, IsSums
<1>2. \A t \in DOMAIN new :
        new[t] = IF t # ts THEN sums[t] ELSE IF ts \in DOMAIN sums THEN sums[ts] + bw ELSE bw
  BY DEF Credited
<1>3. \A t \in DOMAIN sums : sums[t] \in Nat
  BY DEF IsSums
<1>4. \A t \in DOMAIN new : new[t] \in Nat
  BY <1>1, <1>2, <1>3
<1>5. new = [t \in DOMAIN new |-> new[t]]
  BY DEF Credited
<1> HIDE DEF new
<1>6. IsSums(new)
  BY <1>1, <1>4, <1>5 DEF IsSums
<1> QED
  BY <1>1, <1>2, <1>6 DEF new

\* A relay's first reading opens its window.
LEMMA InitExact ==
  ASSUME NEW sums, DOMAIN sums = {}, NEW ts \in Nat, NEW bw \in Nat
  PROVE  /\ msm_info_init(ts, bw) \in MsmInfo
         /\ RelayExact(msm_info_init(ts, bw), Credited(sums, ts, bw))
BY V3bwAssumption DEF msm_info_init, MsmInfo, RelayExact, Credited

\* A later one is added to its second, if that is in the window.
LEMMA AddExact ==
  ASSUME NEW m \in MsmInfo, NEW sums, IsSums(sums), RelayExact(m, sums),
         NEW ts \in Nat, NEW bw \in Nat
  PROVE  /\ msm_info_add(m, ts, bw) \in MsmInfo
         /\ RelayExact(msm_info_add(m, ts, bw), Credited(sums, ts, bw))
<1> DEFINE new == msm_info_add(m, ts, bw)
           after == Credited(sums, ts, bw)
<1>1. /\ m.first \in Nat /\ m.msms \in [0 .. (Window - 1) -> Nat]
      /\ m.used \in 1 .. Window /\ Window \in Nat
  BY V3bwAssumption DEF MsmInfo
<1>4. /\ DOMAIN after = DOMAIN sums \cup {ts}
      /\ \A t : t # ts /\ t \in DOMAIN sums => after[t] = sums[t]
      /\ after[ts] = IF ts \in DOMAIN sums THEN sums[ts] + bw ELSE bw
  <2>1. DOMAIN after = DOMAIN sums \cup {ts}
    BY CreditedType
  <2>2. \A t : t # ts /\ t \in DOMAIN sums => after[t] = sums[t]
    BY DEF Credited
  <2>3. after[ts] = IF ts \in DOMAIN sums THEN sums[ts] + bw ELSE bw
    BY DEF Credited
  <2> QED
    BY <2>1, <2>2, <2>3
<1>2. CASE ts \notin m.first .. (m.first + Window - 1)
  <2>1. new = m
    BY <1>2 DEF msm_info_add
  <2>2. \A o \in 0 .. (Window - 1) : m.first + o # ts
    BY <1>1, <1>2
  <2>3. m.first # ts /\ m.first + m.used - 1 # ts
    BY <1>1, <1>2
  <2>4. RelayExact(m, after)
    BY <1>1, <2>2, <2>3 DEF RelayExact, Credited, IsSums
  <2> QED
    BY <2>1, <2>4
<1>3. CASE ts \in m.first .. (m.first + Window - 1)
  <2> DEFINE at == ts - m.first
             used == IF at >= m.used THEN at + 1 ELSE m.used
             msms == [m.msms EXCEPT ![at] = @ + bw]
  <2>1. at \in 0 .. (Window - 1) /\ m.first + at = ts
    BY <1>1, <1>3
  <2>2. new.first = m.first /\ new.msms = msms /\ new.used = used
    BY <1>3 DEF msm_info_add, MsmInfo
  <2>3. msms \in [0 .. (Window - 1) -> Nat] /\ used \in 1 .. Window
    <3>1. m.msms[at] + bw \in Nat
      <4> HIDE DEF at
      <4>1. m.msms[at] \in Nat
        BY <1>1, <2>1
      <4> QED
        BY <4>1
    <3>2. msms \in [0 .. (Window - 1) -> Nat]
      BY <1>1, <2>1, <3>1
    <3>3. used \in 1 .. Window
      BY <1>1, <2>1
    <3> QED
      BY <3>2, <3>3
  <2>4. new \in MsmInfo
    BY <1>3, <2>1, <2>3 DEF msm_info_add, MsmInfo
  <2>5. \A o \in 0 .. (Window - 1) :
          msms[o] = IF m.first + o \in DOMAIN after THEN after[m.first + o] ELSE 0
    <3> SUFFICES ASSUME NEW o \in 0 .. (Window - 1)
                 PROVE  msms[o] = IF m.first + o \in DOMAIN after
                                    THEN after[m.first + o] ELSE 0
      OBVIOUS
    <3>1. m.msms[o] = IF m.first + o \in DOMAIN sums THEN sums[m.first + o] ELSE 0
      BY DEF RelayExact
    <3>2. CASE o = at
      <4>1. msms[o] = m.msms[at] + bw
        BY <1>1, <2>1, <3>2
      <4> HIDE DEF msms, after, at
      <4> QED
        BY <1>4, <2>1, <3>1, <3>2, <4>1
    <3>3. CASE o # at
      <4>1. m.first + o # ts
        BY <1>1, <2>1, <3>3
      <4>2. msms[o] = m.msms[o]
        BY <1>1, <2>1, <3>3
      <4> HIDE DEF msms, after, at
      <4> QED
        BY <1>4, <3>1, <4>1, <4>2
    <3> QED
      BY <3>2, <3>3
  <2>6. m.first \in DOMAIN after /\ m.first + used - 1 \in DOMAIN after
    BY <1>1, <2>1 DEF Credited, RelayExact
  <2>7. \A o \in used .. (Window - 1) : m.first + o \notin DOMAIN after
    <3> SUFFICES ASSUME NEW o \in used .. (Window - 1)
                 PROVE  m.first + o \notin DOMAIN after
      OBVIOUS
    <3>1. o \in m.used .. (Window - 1) /\ m.first + o # ts
      BY <1>1, <2>1, <2>3
    <3>2. m.first + o \notin DOMAIN sums
      BY <3>1 DEF RelayExact
    <3> HIDE DEF after
    <3> QED
      BY <1>4, <3>1, <3>2
  <2>8. RelayExact(new, after)
    <3> HIDE DEF after, msms, used
    <3> QED
      BY <2>2, <2>5, <2>6, <2>7 DEF RelayExact
  <2> QED
    BY <2>4, <2>8
<1> QED
  BY <1>2, <1>3

\* The window stays exact while the lines are read,
LEMMA ReadLineInv ==
  ASSUME Inv, ReadLine
  PROVE  Inv'
<1> DEFINE line == Head(file)
           reading == line.reading
<1>1. /\ file # <<>> /\ file' = Tail(file) /\ file \in Seq(LineSet)
      /\ UNCHANGED <<phase, rest, v3bw>>
  BY DEF ReadLine, Inv, LinesInv
<1>2. line = file[1] /\ 1 \in DOMAIN file
  BY <1>1
<1>3. LineOK(line)
  BY <1>2 DEF Inv, LinesInv
<1>4. LinesInv'
  <2>1. file' \in Seq(LineSet) /\ \A k \in DOMAIN file' : k + 1 \in DOMAIN file /\ file'[k] = file[k + 1]
    BY <1>1
  <2>2. \A k \in DOMAIN file' : LineOK(file[k + 1])
    BY <2>1 DEF Inv, LinesInv
  <2>3. \A k \in DOMAIN file' : LineOK(file'[k])
    BY <2>1, <2>2
  <2> QED
    BY <1>1, <2>1, <2>3 DEF Inv, LinesInv
<1>5. /\ line.fp \in Fps
      /\ \A fp \in Fps : IsSums(heard[fp])
      /\ DOMAIN heard = Fps /\ DOMAIN ht \subseteq HexFps
      /\ \A fp \in DOMAIN ht : ht[fp] \in MsmInfo /\ RelayExact(ht[fp], heard[fp])
      /\ DOMAIN ht = {fp \in HexFps : DOMAIN heard[fp] # {}}
      /\ HexFps \subseteq Fps
  BY <1>3, V3bwAssumption DEF Inv, TypeOK, WindowExact, IsSums, LineOK, LineSet
<1>6. SUFFICES /\ DOMAIN ht' \subseteq HexFps /\ \A fp \in DOMAIN ht' : ht'[fp] \in MsmInfo
               /\ DOMAIN heard' = Fps /\ \A fp \in Fps : IsSums(heard'[fp])
               /\ DOMAIN ht' = {fp \in HexFps : DOMAIN heard'[fp] # {}}
               /\ \A fp \in DOMAIN ht' : RelayExact(ht'[fp], heard'[fp])
  <2>1. \A k \in DOMAIN file' : file'[k].fp \in Fps
    BY <1>4 DEF LinesInv, LineOK, LineSet
  <2> QED
    BY <1>1, <1>4, <2>1 DEF Inv, TypeOK, WindowExact, IsSums
<1> HIDE DEF line
<1>7. CASE reading = NoReading
  <2>1. ~ Accepted(line)
    BY <1>3, <1>7 DEF LineOK
  <2>2. ht' = ht /\ heard' = heard
    BY <1>7, <2>1 DEF ReadLine, line
  <2> QED
    BY <1>5, <2>2
<1>8. CASE reading # NoReading
  <2> DEFINE fp == line.fp
  <2>1. PICK ts \in Nat, bw \in Nat : reading = <<ts, bw>>
    BY <1>3, <1>8 DEF LineOK, LineSet
  <2>2. heard' = [heard EXCEPT ![fp] = Credited(heard[fp], ts, bw)]
    <3>1. heard' = [heard EXCEPT ![fp] = Credited(@, reading[1], reading[2])]
      BY <1>8 DEF ReadLine, line
    <3>2. reading[1] = ts /\ reading[2] = bw
      BY <2>1
    <3> QED
      BY <3>1, <3>2
  <2>3. /\ IsSums(Credited(heard[fp], ts, bw))
        /\ DOMAIN Credited(heard[fp], ts, bw) = DOMAIN heard[fp] \cup {ts}
    BY <1>5, CreditedType
  <2>4. /\ DOMAIN heard' = Fps /\ heard'[fp] = Credited(heard[fp], ts, bw)
        /\ \A f \in Fps : f # fp => heard'[f] = heard[f]
    BY <1>5, <2>2
  <2>5. \A f \in Fps : IsSums(heard'[f])
    BY <1>5, <2>3, <2>4
  <2>6. CASE fp \notin HexFps
    <3>1. ht' = ht
      BY <1>3, <2>6 DEF ReadLine, line, LineOK
    <3> QED
      BY <1>5, <2>4, <2>5, <2>6, <3>1
  <2>7. CASE fp \in HexFps
    <3>1. ht' = Entered(fp, ts, bw)
      <4>1. Accepted(line) /\ <<ts, bw>> = <<line.words[3].value, line.words[4].value>>
        BY <1>3, <1>8, <2>1, <2>7 DEF LineOK
      <4>2. ts = line.words[3].value /\ bw = line.words[4].value
        BY <4>1
      <4> QED
        BY <4>1, <4>2 DEF ReadLine, line
    <3>2. /\ DOMAIN ht' = DOMAIN ht \cup {fp}
          /\ \A f \in DOMAIN ht : f # fp => ht'[f] = ht[f]
          /\ ht'[fp] = IF fp \in DOMAIN ht THEN msm_info_add(ht[fp], ts, bw)
                                            ELSE msm_info_init(ts, bw)
      BY <3>1 DEF Entered
    <3>3. ht'[fp] \in MsmInfo /\ RelayExact(ht'[fp], heard'[fp])
      <4>1. CASE fp \in DOMAIN ht
        <5>1. ht[fp] \in MsmInfo /\ RelayExact(ht[fp], heard[fp]) /\ IsSums(heard[fp])
          BY <1>5, <4>1
        <5>2. /\ msm_info_add(ht[fp], ts, bw) \in MsmInfo
              /\ RelayExact(msm_info_add(ht[fp], ts, bw), Credited(heard[fp], ts, bw))
          BY <5>1, AddExact
        <5> QED
          BY <2>4, <3>2, <4>1, <5>2
      <4>2. CASE fp \notin DOMAIN ht
        <5>1. DOMAIN heard[fp] = {}
          BY <1>5, <2>7, <4>2
        <5>2. /\ msm_info_init(ts, bw) \in MsmInfo
              /\ RelayExact(msm_info_init(ts, bw), Credited(heard[fp], ts, bw))
          BY <5>1, InitExact
        <5> QED
          BY <2>4, <3>2, <4>2, <5>2
      <4> QED
        BY <4>1, <4>2
    <3>4. DOMAIN ht' = {f \in HexFps : DOMAIN heard'[f] # {}}
      BY <1>5, <2>3, <2>4, <2>7, <3>2
    <3> QED
      BY <1>5, <2>4, <2>5, <2>7, <3>2, <3>3, <3>4
  <2> QED
    BY <2>6, <2>7
<1> QED
  BY <1>7, <1>8

\* and there is nothing to read before the round is over.
LEMMA InitInv == Init => Inv
<1> SUFFICES ASSUME Init PROVE Inv
  OBVIOUS
<1>1. DOMAIN <<>> = {} /\ <<>> \in [{} -> Nat]
  OBVIOUS
<1>2. TypeOK
  BY <1>1 DEF Init, TypeOK
<1>3. LinesInv
  BY DEF Init, LinesInv
<1>4. WindowExact
  BY <1>1, V3bwAssumption DEF Init, WindowExact
<1> QED
  BY <1>2, <1>3, <1>4 DEF Inv

\* A line that is appended must be one that is read as it is meant.
LEMMA OutputInv ==
  ASSUME Inv, NEW line, LineOK(line), Output(line),
         DOMAIN rest' = Clients,
         \A c \in Clients : rest'[c] # rest[c] => 
           \/ rest'[c] = <<>>
           \/ rest'[c] \in Seq(LineSet) /\ Len(rest'[c]) = 1 /\ LineOK(rest'[c][1])
  PROVE  Inv'
<1>1. /\ file' = Append(file, line) /\ UNCHANGED <<phase, ht, heard, v3bw>>
      /\ file \in Seq(LineSet) /\ line \in LineSet
  BY DEF Output, Inv, LinesInv, LineOK
<1>2. file' \in Seq(LineSet) /\ \A k \in DOMAIN file' : LineOK(file'[k])
  <2>1. /\ file' \in Seq(LineSet)
        /\ \A k \in DOMAIN file' : file'[k] = line \/ (k \in DOMAIN file /\ file'[k] = file[k])
    BY <1>1
  <2> QED
    BY <2>1 DEF Inv, LinesInv
<1>3. LinesInv'
  BY <1>2 DEF Inv, LinesInv
<1>4. \A k \in DOMAIN file' : file'[k].fp \in Fps
  BY <1>2 DEF LineOK, LineSet
<1> QED
  BY <1>1, <1>3, <1>4 DEF Inv, TypeOK, WindowExact

\* Every step keeps the invariant.
LEMMA NextInv == Inv /\ [Next]_vars => Inv'
<1> SUFFICES ASSUME Inv, [Next]_vars PROVE Inv'
  OBVIOUS
<1>1. /\ DOMAIN rest = Clients
      /\ \A c \in Clients : rest[c] # <<>> =>
           rest[c] \in Seq(LineSet) /\ Len(rest[c]) = 1 /\ LineOK(rest[c][1])
  BY DEF Inv, LinesInv
<1>2. ASSUME NEW c \in Clients, NEW fp \in Fps, NEW ts \in Seconds, NEW bw \in Bws,
             WholeLine(c, fp, ts, bw)
      PROVE  Inv'
  <2>1. ts \in Nat /\ bw \in Nat
    BY V3bwAssumption
  <2> QED
    BY <1>1, <1>2, <2>1, WholeLineOK, OutputInv DEF WholeLine
<1>3. ASSUME NEW c \in Clients, NEW fp \in Fps, NEW ts \in Seconds, NEW bw \in Bws,
             NEW k \in 1 .. 5, CutLine(c, fp, ts, bw, k)
      PROVE  Inv'
  <2>1. ts \in Nat /\ bw \in Nat
    BY V3bwAssumption
  <2> DEFINE words == ResultWords(ts, bw)
  <2>2. PICK halves \in Halves(words[k]) :
          /\ HeadOf(words, k, halves) # <<Empty>>
          /\ Output(Line(fp, HeadOf(words, k, halves),
                         IF k = Len(words) THEN <<ts, bw>> ELSE NoReading))
          /\ rest' = [rest EXCEPT ![c] = <<Line(fp, RestOf(words, k, halves), NoReading)>>]
    BY <1>3 DEF CutLine
  <2> DEFINE line == Line(fp, HeadOf(words, k, halves),
                          IF k = Len(words) THEN <<ts, bw>> ELSE NoReading)
             after == Line(fp, RestOf(words, k, halves), NoReading)
  <2>3. LineOK(line) /\ LineOK(after)
    BY <2>1, <2>2, CutLineOK
  <2>4. Output(line) /\ rest' = [rest EXCEPT ![c] = <<after>>]
    BY <2>2
  <2> HIDE DEF line, after
  <2>5. after \in LineSet
    BY <2>3 DEF LineOK
  <2>6. <<after>> \in Seq(LineSet) /\ Len(<<after>>) = 1 /\ LineOK(<<after>>[1])
    BY <2>3, <2>5
  <2> QED
    BY <1>1, <2>3, <2>4, <2>6, OutputInv
<1>4. ASSUME NEW c \in Clients, NEW fp \in Fps, Marker(c, fp) PROVE Inv'
  BY <1>1, <1>4, MarkerOK, OutputInv DEF Marker
<1>5. ASSUME NEW c \in Clients, RestArrives(c) PROVE Inv'
  <2>1. LineOK(Head(rest[c])) /\ Output(Head(rest[c])) /\ rest' = [rest EXCEPT ![c] = <<>>]
    BY <1>1, <1>5 DEF RestArrives
  <2> QED
    BY <1>1, <2>1, OutputInv
<1>6. CASE Close
  BY <1>6 DEF Close, Inv, TypeOK, LinesInv, WindowExact
<1>7. CASE Generate
  <2>1. DOMAIN v3bw' \subseteq HexFps
    BY <1>7 DEF Generate, Inv, TypeOK
  <2> QED
    BY <1>7, <2>1 DEF Generate, Inv, TypeOK, LinesInv, WindowExact
<1>8. CASE NextRound
  <2>1. Init'
    BY <1>8 DEF NextRound, Init
  <2>2. DOMAIN <<>> = {} /\ <<>> \in [{} -> Nat]
    OBVIOUS
  <2>3. TypeOK'
    BY <2>1, <2>2 DEF Init, TypeOK
  <2>4. LinesInv'
    BY <2>1 DEF Init, LinesInv
  <2>5. WindowExact'
    BY <2>1, <2>2, V3bwAssumption DEF Init, WindowExact
  <2> QED
    BY <2>3, <2>4, <2>5 DEF Inv
<1>9. CASE UNCHANGED vars
  BY <1>9 DEF vars, Inv, TypeOK, LinesInv, WindowExact
<1> QED
  BY <1>2, <1>3, <1>4, <1>5, <1>6, <1>7, <1>8, <1>9, ReadLineInv DEF Next, Write

\* The inductive invariant.
THEOREM V3bwInvariant == Spec => []Inv
BY InitInv, NextInv, PTL DEF Spec

\* The types of the results, the table and the file.
THEOREM V3bwTypes == Spec => []TypeOK
BY V3bwInvariant, PTL DEF Inv

\* For every window, however results are cut and mixed with others on their way,
\* the table of read_input_to_ht() is exactly what was told in full.
THEOREM WindowsExact == Spec => []WindowExact
BY V3bwInvariant, PTL DEF Inv

-----------------------------------------------------------------------------
(* The median.                                                             *)

Places(n) == 0 .. (n - 1)

\* The places up to a bound are as many as it says.
LEMMA PlacesSize ==
  ASSUME NEW n \in Nat
  PROVE  IsFiniteSet(Places(n)) /\ Cardinality(Places(n)) = n
<1>1. 0 \in Int /\ n - 1 \in Int
  OBVIOUS
<1>2. /\ IsFiniteSet(0 .. (n - 1))
      /\ Cardinality(0 .. (n - 1)) = IF 0 > n - 1 THEN 0 ELSE n - 1 - 0 + 1
  BY <1>1, FS_Interval
<1> QED
  BY <1>2 DEF Places

\* What qsort() does is possible: there is an order of the values that it can
\* leave them in.
LEMMA SortingExists ==
  ASSUME NEW n \in Nat, NEW a, \A o \in Places(n) : a[o] \in Nat
  PROVE  \E q \in Bijection(Places(n), Places(n)) :
           \A j, k \in Places(n) : j < k => a[q[j]] <= a[q[k]]
<1> DEFINE P == Places(n)
           Before(k) == {j \in P : a[j] < a[k] \/ (a[j] = a[k] /\ j < k)}
           pos == [k \in P |-> Cardinality(Before(k))]
           q == [v \in P |-> CHOOSE k \in P : pos[k] = v]
<1>1. /\ P \subseteq Nat /\ IsFiniteSet(P) /\ Cardinality(P) = n
      /\ \A j \in P : a[j] \in Nat
  BY PlacesSize DEF Places
<1> HIDE DEF P
<1>2. \A k \in P : /\ Before(k) \subseteq P /\ k \notin Before(k)
                   /\ IsFiniteSet(Before(k)) /\ Cardinality(Before(k)) \in Nat
  <2> SUFFICES ASSUME NEW k \in P
               PROVE  /\ Before(k) \subseteq P /\ k \notin Before(k)
                      /\ IsFiniteSet(Before(k)) /\ Cardinality(Before(k)) \in Nat
    OBVIOUS
  <2>1. Before(k) \in SUBSET P /\ k \notin Before(k)
    BY <1>1
  <2>2. IsFiniteSet(Before(k))
    BY <1>1, <2>1, FS_Subset
  <2> QED
    BY <2>1, <2>2, FS_CardinalityType
<1>3. ASSUME NEW j \in P, NEW k \in P, j # k PROVE j \in Before(k) \/ k \in Before(j)
  BY <1>1, <1>3
<1>4. ASSUME NEW k \in P, NEW j \in Before(k)
      PROVE  Cardinality(Before(j)) < Cardinality(Before(k))
  <2>1. j \in P /\ j \in Before(k) /\ j \notin Before(j)
    BY <1>2, <1>4
  <2>2. ASSUME NEW l \in Before(j) PROVE l \in Before(k)
    <3>1. l \in P /\ a[l] \in Nat /\ a[j] \in Nat /\ a[k] \in Nat /\ l \in Nat /\ j \in Nat
          /\ k \in Nat
      BY <1>1, <2>1
    <3>2. /\ a[l] < a[j] \/ (a[l] = a[j] /\ l < j)
          /\ a[j] < a[k] \/ (a[j] = a[k] /\ j < k)
      BY <1>4
    <3> QED
      BY <3>1, <3>2
  <2> HIDE DEF Before
  <2>3. Before(j) \in SUBSET Before(k) /\ Before(j) # Before(k)
    BY <2>1, <2>2
  <2>4. /\ Cardinality(Before(j)) <= Cardinality(Before(k))
        /\ Cardinality(Before(k)) # Cardinality(Before(j))
    BY <1>2, <2>3, FS_Subset
  <2> QED
    BY <1>2, <2>1, <2>4
<1> HIDE DEF Before
<1>5. pos \in [P -> P]
  <2> SUFFICES ASSUME NEW k \in P PROVE Cardinality(Before(k)) \in P
    OBVIOUS
  <2>1. /\ Cardinality(Before(k)) <= Cardinality(P)
        /\ Cardinality(P) = Cardinality(Before(k)) => P = Before(k)
    BY <1>1, <1>2, FS_Subset
  <2>2. Cardinality(Before(k)) \in Nat /\ Cardinality(Before(k)) < n
    BY <1>1, <1>2, <2>1
  <2> QED
    BY <2>2 DEF P, Places
<1>6. \A j, k \in P : pos[j] = pos[k] => j = k
  <2> SUFFICES ASSUME NEW j \in P, NEW k \in P, pos[j] = pos[k], j # k PROVE FALSE
    OBVIOUS
  <2>1. pos[j] \in Nat /\ pos[k] \in Nat
    BY <1>2
  <2>2. pos[j] < pos[k] \/ pos[k] < pos[j]
    BY <1>3, <1>4
  <2> QED
    BY <2>1, <2>2
<1>7. ASSUME NEW k \in P, NEW j \in Before(k) PROVE pos[j] < pos[k]
  BY <1>2, <1>4, <1>7
<1> HIDE DEF pos
<1>8. pos \in Injection(P, P)
  BY <1>5, <1>6 DEF Injection, IsInjective
<1>9. \A v \in P : \E k \in P : pos[k] = v
  BY <1>1, <1>8, FS_Injection DEF Surjection
<1>10. \A v \in P : q[v] \in P /\ pos[q[v]] = v
  BY <1>9
<1>11. q \in [P -> P]
  BY <1>10
<1> HIDE DEF q
<1>12. q \in Bijection(P, P)
  <2>1. \A j, k \in P : q[j] = q[k] => j = k
    BY <1>10
  <2>2. \A k \in P : q[pos[k]] = k /\ pos[k] \in P
    BY <1>5, <1>6, <1>10
  <2> QED
    BY <1>11, <2>1, <2>2 DEF Bijection, Injection, IsInjective, Surjection
<1>13. ASSUME NEW j \in P, NEW k \in P, j < k PROVE a[q[j]] <= a[q[k]]
  <2>1. /\ q[j] \in P /\ q[k] \in P /\ pos[q[j]] = j /\ pos[q[k]] = k
        /\ j \in Nat /\ k \in Nat /\ a[q[j]] \in Nat /\ a[q[k]] \in Nat
    BY <1>1, <1>10
  <2>2. q[k] \notin Before(q[j])
    <3> SUFFICES ASSUME q[k] \in Before(q[j]) PROVE FALSE
      OBVIOUS
    <3>1. pos[q[k]] < pos[q[j]]
      BY <1>7, <2>1
    <3>2. k < j
      BY <2>1, <3>1
    <3> QED
      BY <1>13, <2>1, <3>2
  <2>3. ~ a[q[k]] < a[q[j]]
    BY <2>1, <2>2 DEF Before
  <2> QED
    BY <2>1, <2>3
<1> QED
  BY <1>12, <1>13 DEF P

\* In an order without descents, half of the values or fewer are less than the
\* one in the middle, and more than half are no greater.
LEMMA MiddleIsMedian ==
  ASSUME NEW n \in Nat \ {0}, NEW a, \A o \in Places(n) : a[o] \in Nat,
         NEW q \in Bijection(Places(n), Places(n)),
         \A j, k \in Places(n) : j < k => a[q[j]] <= a[q[k]]
  PROVE  LET v == a[q[n \div 2]]
         IN /\ q[n \div 2] \in Places(n)
            /\ 2 * Cardinality({o \in Places(n) : a[o] < v}) <= n
            /\ 2 * Cardinality({o \in Places(n) : a[o] <= v}) > n
<1> DEFINE P == Places(n)
           h == n \div 2
           v == a[q[h]]
           L == {o \in P : a[o] < v}
           U == {o \in P : a[o] <= v}
           back == [o \in L |-> CHOOSE j \in P : q[j] = o]
           low == [j \in Places(h + 1) |-> q[j]]
<1>1. h \in Nat /\ h < n /\ 2 * h <= n /\ 2 * (h + 1) > n
  OBVIOUS
<1> HIDE DEF h
<1>2. /\ P \subseteq Nat /\ IsFiniteSet(P) /\ h \in P
      /\ Places(h) \subseteq P /\ Places(h + 1) \subseteq P
      /\ \A o \in P : a[o] \in Nat
  BY <1>1, PlacesSize DEF Places
<1>3. /\ \A j \in P : q[j] \in P
      /\ \A j, k \in P : q[j] = q[k] => j = k
      /\ \A o \in P : \E j \in P : q[j] = o
  BY DEF Bijection, Injection, IsInjective, Surjection
<1> HIDE DEF P
<1>4. v \in Nat
  BY <1>2, <1>3
<1>5. \A j \in P : j < h => a[q[j]] <= v
  BY <1>2 DEF P
<1>6. \A j \in P : ~ j < h => ~ a[q[j]] < v
  <2> SUFFICES ASSUME NEW j \in P, ~ j < h PROVE ~ a[q[j]] < v
    OBVIOUS
  <2>1. j \in Nat /\ h \in Nat /\ a[q[j]] \in Nat
    BY <1>2, <1>3
  <2>2. CASE j = h
    BY <1>4, <2>2
  <2>3. CASE h < j
    <3>1. v <= a[q[j]]
      BY <1>2, <2>3 DEF P
    <3> QED
      BY <1>4, <2>1, <3>1
  <2> QED
    BY <2>1, <2>2, <2>3
<1>7. IsFiniteSet(L) /\ IsFiniteSet(U) /\ Cardinality(L) \in Nat /\ Cardinality(U) \in Nat
  <2>1. L \in SUBSET P /\ U \in SUBSET P
    OBVIOUS
  <2>2. IsFiniteSet(L) /\ IsFiniteSet(U)
    BY <1>2, <2>1, FS_Subset
  <2> QED
    BY <2>2, FS_CardinalityType
<1>8. Cardinality(L) <= h
  <2>1. \A o \in L : back[o] \in P /\ q[back[o]] = o
    BY <1>3
  <2>2. \A o \in L : back[o] \in Places(h)
    <3> SUFFICES ASSUME NEW o \in L PROVE back[o] \in Places(h)
      OBVIOUS
    <3>1. back[o] \in P /\ a[q[back[o]]] < v
      BY <2>1
    <3> HIDE DEF back, L, v
    <3>2. back[o] < h /\ back[o] \in Nat
      BY <1>2, <1>6, <3>1 DEF v
    <3> QED
      BY <1>1, <3>2 DEF Places
  <2>3. \A o, m \in L : back[o] = back[m] => o = m
    BY <2>1
  <2>4. DOMAIN back = L /\ back \in [L -> Places(h)]
    BY <2>2
  <2> HIDE DEF back, L
  <2>5. back \in Injection(L, Places(h))
    BY <2>3, <2>4 DEF Injection, IsInjective
  <2> QED
    BY <1>1, <2>5, PlacesSize, FS_Injection
<1>9. h + 1 <= Cardinality(U)
  <2>1. \A j \in Places(h + 1) : q[j] \in U
    <3> SUFFICES ASSUME NEW j \in Places(h + 1) PROVE q[j] \in P /\ a[q[j]] <= v
      OBVIOUS
    <3>1. j \in P /\ (j = h \/ j < h)
      BY <1>1, <1>2 DEF Places
    <3> QED
      BY <1>3, <1>4, <1>5, <3>1
  <2>2. low \in [Places(h + 1) -> U]
    BY <2>1
  <2>3. \A j, k \in Places(h + 1) : low[j] = low[k] => j = k
    BY <1>2, <1>3
  <2> HIDE DEF low, U
  <2>4. low \in Injection(Places(h + 1), U)
    BY <2>2, <2>3 DEF Injection, IsInjective
  <2> QED
    BY <1>1, <1>7, <2>4, PlacesSize, FS_Injection
<1>10. 2 * Cardinality(L) <= n /\ 2 * Cardinality(U) > n
  <2> HIDE DEF L, U
  <2> QED
    BY <1>1, <1>7, <1>8, <1>9
<1>11. q[h] \in P
  BY <1>2, <1>3
<1> QED
  BY <1>10, <1>11 DEF P, h

\* calc_median() returns one of the values, and that one.
LEMMA MedianIsOfValues ==
  ASSUME NEW m \in MsmInfo
  PROVE  LET n == m.used
             v == calc_median(m)
         IN /\ \E o \in Places(n) : m.msms[o] = v
            /\ 2 * Cardinality({o \in Places(n) : m.msms[o] < v}) <= n
            /\ 2 * Cardinality({o \in Places(n) : m.msms[o] <= v}) > n
<1> DEFINE n == m.used
           a == m.msms
           Sorts(q) == \A j, k \in Places(n) : j < k => a[q[j]] <= a[q[k]]
           p == CHOOSE q \in Bijection(Places(n), Places(n)) : Sorts(q)
<1>1. n \in Nat \ {0} /\ \A o \in Places(n) : a[o] \in Nat
  BY V3bwAssumption DEF MsmInfo, Places
<1>2. \E q \in Bijection(Places(n), Places(n)) : Sorts(q)
  BY <1>1, SortingExists
<1>3. p \in Bijection(Places(n), Places(n)) /\ Sorts(p)
  BY <1>2
<1>4. n \div 2 \in Places(n)
  BY <1>1 DEF Places
<1>5. calc_median(m) = a[p[n \div 2]]
  BY <1>4 DEF calc_median, Sorted, Places
<1> HIDE DEF n, a, p
<1>6. LET v == a[p[n \div 2]]
      IN /\ p[n \div 2] \in Places(n)
         /\ 2 * Cardinality({o \in Places(n) : a[o] < v}) <= n
         /\ 2 * Cardinality({o \in Places(n) : a[o] <= v}) > n
  BY <1>1, <1>3, MiddleIsMedian
<1> QED
  BY <1>5, <1>6 DEF n, a

\* Seconds counted from a first one are as many as their distances from it.
LEMMA ShiftSize ==
  ASSUME NEW first \in Nat, NEW S, S \subseteq Nat, IsFiniteSet(S),
         NEW T, T \subseteq Nat, \A o \in S : first + o \in T,
         \A t \in T : t - first \in S
  PROVE  IsFiniteSet(T) /\ Cardinality(T) = Cardinality(S)
<1> DEFINE f == [o \in S |-> first + o]
<1>1. f \in [S -> T]
  OBVIOUS
<1>2. \A o, m \in S : f[o] = f[m] => o = m
  OBVIOUS
<1>3. \A t \in T : \E o \in S : f[o] = t
  <2> SUFFICES ASSUME NEW t \in T PROVE \E o \in S : f[o] = t
    OBVIOUS
  <2>1. t - first \in S /\ f[t - first] = t
    OBVIOUS
  <2> QED
    BY <2>1
<1> HIDE DEF f
<1>4. f \in Bijection(S, T)
  BY <1>1, <1>2, <1>3 DEF Bijection, Injection, IsInjective, Surjection
<1> QED
  BY <1>4, FS_Bijection DEF ExistsBijection

\* The seconds of a relay's span are those its window is used for, and what was
\* heard in each is what the window holds.
LEMMA SpanIsUsed ==
  ASSUME Inv, NEW fp \in DOMAIN ht
  PROVE  LET m == ht[fp]
         IN /\ m \in MsmInfo /\ Span(fp) \subseteq Nat
            /\ \A t \in Span(fp) : t - m.first \in Places(m.used)
            /\ \A o \in Places(m.used) :
                 m.first + o \in Span(fp) /\ BwAt(fp, m.first + o) = m.msms[o]
<1> DEFINE m == ht[fp]
           sums == heard[fp]
           first == m.first
           n == m.used
<1>1. /\ m \in MsmInfo /\ RelayExact(m, sums) /\ DOMAIN sums \subseteq Nat
  BY V3bwAssumption DEF Inv, TypeOK, WindowExact
<1>2. first \in Nat /\ n \in 1 .. Window /\ Window \in Nat
  BY <1>1, V3bwAssumption DEF MsmInfo
<1>3. Span(fp) = {t \in first .. (first + Window - 1) :
                    \E u \in DOMAIN sums : t <= u /\ u < first + Window}
  BY DEF Span
<1>4. /\ first + n - 1 \in DOMAIN sums
      /\ \A o \in n .. (Window - 1) : first + o \notin DOMAIN sums
      /\ \A o \in 0 .. (Window - 1) :
           m.msms[o] = IF first + o \in DOMAIN sums THEN sums[first + o] ELSE 0
  BY <1>1 DEF RelayExact
<1> HIDE DEF m, sums, first, n
<1>5. Span(fp) \subseteq Nat
  BY <1>2, <1>3
<1>6. ASSUME NEW t \in Span(fp) PROVE t - first \in Places(n)
  <2>1. t \in Nat /\ first <= t /\ t < first + Window
    BY <1>2, <1>3
  <2>2. PICK u \in DOMAIN sums : t <= u /\ u < first + Window
    BY <1>3
  <2>3. u \in Nat
    BY <1>1
  <2>4. u - first \notin n .. (Window - 1)
    <3>1. first + (u - first) = u
      BY <1>2, <2>3
    <3> QED
      BY <1>4, <2>2, <3>1
  <2> QED
    BY <1>2, <2>1, <2>2, <2>3, <2>4 DEF Places
<1>7. ASSUME NEW o \in Places(n)
      PROVE  first + o \in Span(fp) /\ BwAt(fp, first + o) = m.msms[o]
  <2>1. o \in Nat /\ o < n /\ o \in 0 .. (Window - 1)
    BY <1>2 DEF Places
  <2>2. first + o <= first + n - 1 /\ first + n - 1 < first + Window
    BY <1>2, <2>1
  <2>3. first + o \in Span(fp)
    BY <1>2, <1>3, <1>4, <2>1, <2>2
  <2>4. BwAt(fp, first + o) = m.msms[o]
    BY <1>4, <2>1 DEF BwAt, sums
  <2> QED
    BY <2>3, <2>4
<1> QED
  BY <1>1, <1>5, <1>6, <1>7 DEF m, first, n

\* The bandwidth that is written for a relay is the median of its span.
LEMMA SpanMedian ==
  ASSUME Inv, NEW fp \in DOMAIN ht
  PROVE  LET n == Cardinality(Span(fp))
             v == calc_median(ht[fp])
         IN /\ n = ht[fp].used
            /\ \E t \in Span(fp) : BwAt(fp, t) = v
            /\ 2 * Cardinality({t \in Span(fp) : BwAt(fp, t) < v}) <= n
            /\ 2 * Cardinality({t \in Span(fp) : BwAt(fp, t) <= v}) > n
<1> DEFINE m == ht[fp]
           v == calc_median(m)
           first == m.first
           P == Places(m.used)
<1>1. /\ m \in MsmInfo /\ Span(fp) \subseteq Nat
      /\ \A t \in Span(fp) : t - first \in P
      /\ \A o \in P : first + o \in Span(fp) /\ BwAt(fp, first + o) = m.msms[o]
  BY SpanIsUsed
<1>2. first \in Nat /\ m.used \in Nat /\ P \subseteq Nat
  BY <1>1, V3bwAssumption DEF MsmInfo, Places
<1>3. IsFiniteSet(P) /\ Cardinality(P) = m.used
  BY <1>2, PlacesSize
<1> HIDE DEF m, v, first, P
<1>4. \A t \in Span(fp) : first + (t - first) = t
  BY <1>1, <1>2
<1>5. \A t \in Span(fp) : BwAt(fp, t) = m.msms[t - first]
  BY <1>1, <1>4
<1>6. Cardinality(Span(fp)) = m.used
  BY <1>1, <1>2, <1>3, ShiftSize
<1>7. ASSUME NEW S, S \in SUBSET P, NEW T, T \in SUBSET Span(fp),
             \A o \in S : first + o \in T, \A t \in T : t - first \in S
      PROVE  Cardinality(T) = Cardinality(S)
  <2>1. IsFiniteSet(S) /\ S \subseteq Nat /\ T \subseteq Nat
    BY <1>1, <1>2, <1>3, <1>7, FS_Subset
  <2> QED
    BY <1>2, <1>7, <2>1, ShiftSize
<1>8. Cardinality({t \in Span(fp) : BwAt(fp, t) < v}) = Cardinality({o \in P : m.msms[o] < v})
  <2> DEFINE S == {o \in P : m.msms[o] < v}
             T == {t \in Span(fp) : BwAt(fp, t) < v}
  <2>1. S \in SUBSET P /\ T \in SUBSET Span(fp)
    OBVIOUS
  <2>2. (\A o \in S : first + o \in T) /\ (\A t \in T : t - first \in S)
    BY <1>1, <1>5
  <2> HIDE DEF S, T
  <2>3. Cardinality(T) = Cardinality(S)
    BY <1>7, <2>1, <2>2
  <2> QED
    BY <2>3 DEF S, T
<1>9. Cardinality({t \in Span(fp) : BwAt(fp, t) <= v}) = Cardinality({o \in P : m.msms[o] <= v})
  <2> DEFINE S == {o \in P : m.msms[o] <= v}
             T == {t \in Span(fp) : BwAt(fp, t) <= v}
  <2>1. S \in SUBSET P /\ T \in SUBSET Span(fp)
    OBVIOUS
  <2>2. (\A o \in S : first + o \in T) /\ (\A t \in T : t - first \in S)
    BY <1>1, <1>5
  <2> HIDE DEF S, T
  <2>3. Cardinality(T) = Cardinality(S)
    BY <1>7, <2>1, <2>2
  <2> QED
    BY <2>3 DEF S, T
<1>10. /\ \E o \in P : m.msms[o] = v
       /\ 2 * Cardinality({o \in P : m.msms[o] < v}) <= m.used
       /\ 2 * Cardinality({o \in P : m.msms[o] <= v}) > m.used
  BY <1>1, MedianIsOfValues DEF P, v
<1>11. \E t \in Span(fp) : BwAt(fp, t) = v
  BY <1>1, <1>10
<1> QED
  BY <1>6, <1>8, <1>9, <1>10, <1>11 DEF m, v

\* What was written is what the table, which stays until the next round, gives.
Written ==
  phase = "written" =>
    v3bw = [fp \in DOMAIN ht |-> IF ht[fp].used < SecsRequired THEN MinBw
                                                             ELSE calc_median(ht[fp])]

\* The bandwidth file names for each relay the upper median of what was heard of
\* it in the seconds of its span, or the minimum when the span is too short.
THEOREM WrittenIsMedian == Spec => []OutputIsMedian
<1>1. Init => Written
  BY DEF Init, Written
<1>2. Written /\ [Next]_vars => Written'
  <2> SUFFICES ASSUME Written, [Next]_vars, phase' = "written" PROVE Written'
    BY DEF Written
  <2>1. CASE Generate
    BY <2>1 DEF Generate, Written
  <2>2. CASE UNCHANGED vars
    BY <2>2 DEF vars, Written
  <2>3. ~ (Close \/ ReadLine \/ NextRound)
    BY DEF Close, ReadLine, NextRound
  <2>4. \A c \in Clients : ~ Write(c)
    <3> SUFFICES ASSUME NEW c \in Clients, Write(c) PROVE FALSE
      OBVIOUS
    <3>1. ASSUME NEW line, Output(line) PROVE phase' = phase
      BY <3>1 DEF Output
    <3>2. ASSUME NEW fp, NEW ts, NEW bw, WholeLine(c, fp, ts, bw)
          PROVE  phase = "measuring" /\ phase' = phase
      BY <3>1, <3>2 DEF WholeLine, Writing
    <3>3. ASSUME NEW fp, NEW ts, NEW bw, NEW k, CutLine(c, fp, ts, bw, k)
          PROVE  phase = "measuring" /\ phase' = phase
      BY <3>1, <3>3 DEF CutLine, Writing
    <3>4. ASSUME NEW fp, Marker(c, fp)
          PROVE  phase = "measuring" /\ phase' = phase
      BY <3>1, <3>4 DEF Marker, Writing
    <3>5. ASSUME RestArrives(c)
          PROVE  phase = "measuring" /\ phase' = phase
      BY <3>1, <3>5 DEF RestArrives
    <3>6. phase = "measuring" /\ phase' = phase
      BY <3>2, <3>3, <3>4, <3>5 DEF Write
    <3> QED
      BY <3>6
  <2> QED
    BY <2>1, <2>2, <2>3, <2>4 DEF Next
<1>3. Inv /\ Written => OutputIsMedian
  BY SpanMedian DEF Written, OutputIsMedian
<1> QED
  BY <1>1, <1>2, <1>3, V3bwInvariant, PTL DEF Spec
=============================================================================
