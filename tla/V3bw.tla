-------------------------------- MODULE V3bw --------------------------------
(***************************************************************************)
(* The bandwidth file of a round, v3bw.c: the per-second results that      *)
(* tc_output_result() wrote are read back line by line, added up for each  *)
(* relay and second, and summed up in one number for each relay.           *)
(*                                                                         *)
(* What a client writes arrives in pieces: tc_output_result() writes each  *)
(* piece of a line that one recv() returns as a line of its own.  A line   *)
(* of the file is represented by its words after the four that the         *)
(* coordinator puts before them (time, measurement, relay, client), and by *)
(* the relay.  A word is a number or one of a few kinds of text.           *)
(***************************************************************************)
EXTENDS Integers, Sequences, FiniteSets, Functions

CONSTANTS
  Fps,           \* relays, as the schedule names them
  HexFps,        \* those among them is_fp() accepts
  Clients,
  Seconds,       \* timestamps the clients write, in decimal
  Bws,           \* bandwidths the clients write, in decimal
  Window,        \* NUM_MSMS_IN_MSM_INFO
  SecsRequired,  \* SECS_REQUIRED
  MinBw,         \* MIN_BW
  MaxLines       \* bound on the lines written in a round

ASSUME V3bwAssumption ==
  /\ HexFps \subseteq Fps
  /\ IsFiniteSet(Clients) /\ Seconds \subseteq Nat /\ Bws \subseteq Nat
  /\ Window \in Nat \ {0} /\ SecsRequired \in Nat /\ MinBw \in Nat
  /\ MaxLines \in Nat

VARIABLES
  phase,   \* "measuring", "reading" the results back, or "written"
  file,    \* the lines of the results that are still to be read
  rest,    \* what is still to arrive of the line a client is writing
  ht,      \* the hash table: a msm_info for each relay read so far
  heard,   \* history: for each relay, the sum of the readings for each second
  v3bw     \* the generated file

vars == <<phase, file, rest, ht, heard, v3bw>>

Kinds == {"650", "SPEEDTESTING", "BEGIN or END", "number", "text", "empty"}
Words == [kind : Kinds, value : Nat]

Word(kind) == [kind |-> kind, value |-> 0]
Number(n) == [kind |-> "number", value |-> n]
Empty == Word("empty")

\* A line of results: time, bandwidth down and up (which is never looked at).
ResultWords(ts, bw) ==
  <<Word("650"), Word("SPEEDTESTING"), Number(ts), Number(bw), Number(bw)>>
MarkerWords == <<Word("650"), Word("SPEEDTESTING"), Word("BEGIN or END")>>

\* A line of the file: its relay, its words, and the reading it tells, if any.
Line(fp, words, reading) == [fp |-> fp, words |-> words, reading |-> reading]
NoReading == <<>>

\* Ways to cut a word in two, between two digits of a number for instance.
Halves(w) ==
  {<<Empty, w>>, <<w, Empty>>} \cup
    IF w.kind # "number" THEN {<<Word("text"), Word("text")>>}
    ELSE IF w.value < 10 THEN {}
    ELSE {<<Number(w.value \div 10), Number(w.value % 10)>>}

HeadOf(words, k, halves) == SubSeq(words, 1, k - 1) \o <<halves[1]>>
RestOf(words, k, halves) == <<halves[2]>> \o SubSeq(words, k + 1, Len(words))

MsmInfo == [first : Nat, msms : [0 .. (Window - 1) -> Nat], used : 1 .. Window]

TypeOK ==
  /\ phase \in {"measuring", "reading", "written"}
  /\ \A k \in DOMAIN file : file[k].fp \in Fps
  /\ DOMAIN rest = Clients
  /\ DOMAIN ht \subseteq HexFps /\ \A fp \in DOMAIN ht : ht[fp] \in MsmInfo
  /\ DOMAIN heard = Fps
  /\ \A fp \in Fps : heard[fp] \in [DOMAIN heard[fp] -> Nat] /\ DOMAIN heard[fp] \subseteq Nat
  /\ DOMAIN v3bw \subseteq HexFps

Init ==
  /\ phase = "measuring" /\ file = <<>>
  /\ rest = [c \in Clients |-> <<>>]
  /\ ht = <<>> /\ heard = [fp \in Fps |-> <<>>] /\ v3bw = <<>>

-----------------------------------------------------------------------------
(* tc_output_result().                                                     *)

\* The client may write something that becomes n lines of the file (MaxLines is
\* the bound of the model).
Writing(c, n) ==
  /\ phase = "measuring" /\ rest[c] = <<>>
  /\ Len(file) + Cardinality({d \in Clients : rest[d] # <<>>}) + n <= MaxLines

Output(line) == file' = Append(file, line) /\ UNCHANGED <<phase, ht, heard, v3bw>>

WholeLine(c, fp, ts, bw) ==
  /\ Writing(c, 1)
  /\ Output(Line(fp, ResultWords(ts, bw), <<ts, bw>>))
  /\ UNCHANGED rest

Marker(c, fp) ==
  /\ Writing(c, 1)
  /\ Output(Line(fp, MarkerWords, NoReading))
  /\ UNCHANGED rest

\* A recv() ends within the k-th word of a line, or at a space beside it.
\* Empty pieces are skipped, so a cut at an end of the line is none.
CutLine(c, fp, ts, bw, k) ==
  /\ Writing(c, 2)
  /\ LET words == ResultWords(ts, bw) IN
       \E halves \in Halves(words[k]) :
         /\ HeadOf(words, k, halves) # <<Empty>>
         /\ RestOf(words, k, halves) # <<Empty>>
         /\ Output(Line(fp, HeadOf(words, k, halves),
                        IF k = Len(words) THEN <<ts, bw>> ELSE NoReading))
         /\ rest' = [rest EXCEPT ![c] = <<Line(fp, RestOf(words, k, halves), NoReading)>>]

\* The rest of the line arrives, after whatever others wrote meanwhile.
RestArrives(c) ==
  /\ phase = "measuring" /\ rest[c] # <<>>
  /\ Output(Head(rest[c]))
  /\ rest' = [rest EXCEPT ![c] = <<>>]

\* The round ends; what has not arrived by then never will.
Close ==
  /\ phase = "measuring"
  /\ phase' = "reading"
  /\ rest' = [c \in Clients |-> <<>>]
  /\ UNCHANGED <<file, ht, heard, v3bw>>

-----------------------------------------------------------------------------
(* read_input_to_ht().                                                     *)

\* (Mutant: the word after the bandwidth is not asked for.)
EightWords(line) ==
  /\ Len(line.words) >= 4
  /\ line.words[1].kind = "650" /\ line.words[2].kind = "SPEEDTESTING"
  /\ line.words[3].kind = "number" /\ line.words[4].kind = "number"
  /\ line.fp \in HexFps

\* The line has nine words with the four before it, the right ones among them,
\* and as_nonnegative_long() reads the two numbers.
Accepted(line) ==
  /\ Len(line.words) >= 5
  /\ line.words[1].kind = "650" /\ line.words[2].kind = "SPEEDTESTING"
  /\ line.words[3].kind = "number" /\ line.words[4].kind = "number"
  /\ line.fp \in HexFps

msm_info_init(ts, bw) ==
  [first |-> ts, used |-> 1,
   msms |-> [o \in 0 .. (Window - 1) |-> IF o = 0 THEN bw ELSE 0]]

\* (Mutants: a window of one second too many; the array is taken to be used up to the last
\* second added.)
AddLate(m, ts, bw) ==
  IF ts \notin m.first .. (m.first + Window) THEN m
  ELSE [m EXCEPT !.msms[ts - m.first] = @ + bw,
                 !.used = IF ts - m.first >= @ THEN ts - m.first + 1 ELSE @]
AddLast(m, ts, bw) ==
  IF ts \notin m.first .. (m.first + Window - 1) THEN m
  ELSE [m EXCEPT !.msms[ts - m.first] = @ + bw, !.used = ts - m.first + 1]

\* Results from before the first second of the relay that was read, or from
\* after the window, are ignored.
msm_info_add(m, ts, bw) ==
  IF ts \notin m.first .. (m.first + Window - 1) THEN m
  ELSE [m EXCEPT !.msms[ts - m.first] = @ + bw,
                 !.used = IF ts - m.first >= @ THEN ts - m.first + 1 ELSE @]

Entered(fp, ts, bw) ==
  [f \in DOMAIN ht \cup {fp} |->
     IF f # fp THEN ht[f]
     ELSE IF fp \in DOMAIN ht THEN msm_info_add(ht[fp], ts, bw)
     ELSE msm_info_init(ts, bw)]

Credited(sums, ts, bw) ==
  [t \in DOMAIN sums \cup {ts} |->
     IF t # ts THEN sums[t] ELSE IF ts \in DOMAIN sums THEN sums[ts] + bw ELSE bw]

ReadLine ==
  /\ phase = "reading" /\ file # <<>>
  /\ file' = Tail(file)
  /\ LET line == Head(file) IN
       /\ ht' = IF Accepted(line)
                  THEN Entered(line.fp, line.words[3].value, line.words[4].value)
                  ELSE ht
       /\ heard' = IF line.reading = NoReading THEN heard
                     ELSE [heard EXCEPT ![line.fp] =
                             Credited(@, line.reading[1], line.reading[2])]
  /\ UNCHANGED <<phase, rest, v3bw>>

-----------------------------------------------------------------------------
(* _v3bw_generate().                                                       *)

\* qsort() of the values up to the last second that was heard of.
Sorted(m) ==
  LET places == 0 .. (m.used - 1)
      p == CHOOSE q \in Bijection(places, places) :
             \A j, k \in places : j < k => m.msms[q[j]] <= m.msms[q[k]]
  IN [k \in places |-> m.msms[p[k]]]

\* (Mutant: of an even number of values the lower one of the middle.)
LowerMedian(m) == Sorted(m)[(m.used - 1) \div 2]

calc_median(m) == Sorted(m)[m.used \div 2]

Generate ==
  /\ phase = "reading" /\ file = <<>>
  /\ v3bw' = [fp \in DOMAIN ht |-> IF ht[fp].used < SecsRequired THEN MinBw
                                                                 ELSE calc_median(ht[fp])]
  /\ phase' = "written"
  /\ UNCHANGED <<file, rest, ht, heard>>

\* main() goes on with the next round; the table was freed with this one.
NextRound ==
  /\ phase = "written"
  /\ phase' = "measuring" /\ file' = <<>>
  /\ rest' = [c \in Clients |-> <<>>]
  /\ ht' = <<>> /\ heard' = [fp \in Fps |-> <<>>] /\ v3bw' = <<>>

Write(c) ==
  \/ \E fp \in Fps, ts \in Seconds, bw \in Bws :
       \/ WholeLine(c, fp, ts, bw)
       \/ \E k \in 1 .. 5 : CutLine(c, fp, ts, bw, k)
  \/ \E fp \in Fps : Marker(c, fp)
  \/ RestArrives(c)

Next == (\E c \in Clients : Write(c)) \/ Close \/ ReadLine \/ Generate \/ NextRound

Spec == Init /\ [][Next]_vars

-----------------------------------------------------------------------------
(* What the generated file must be.                                        *)

\* The window of a relay holds, for each of its seconds, the sum of what was
\* heard of that second, and is used up to the last one that was heard of.
RelayExact(m, sums) ==
  /\ m.first \in DOMAIN sums
  /\ \A o \in 0 .. (Window - 1) :
       m.msms[o] = IF m.first + o \in DOMAIN sums THEN sums[m.first + o] ELSE 0
  /\ m.first + m.used - 1 \in DOMAIN sums
  /\ \A o \in m.used .. (Window - 1) : m.first + o \notin DOMAIN sums

\* Whatever the pieces results arrived in, and whatever other lines stand
\* between them, the table holds for each relay with a proper fingerprint, and
\* for each second of its window, exactly the sum of the readings that were
\* told in full: nothing of a line that was cut is taken for a number, nothing
\* is counted twice or for another second, and used ends with the last of them.
WindowExact ==
  /\ DOMAIN ht = {fp \in HexFps : DOMAIN heard[fp] # {}}
  /\ \A fp \in DOMAIN ht : RelayExact(ht[fp], heard[fp])

\* The seconds from the first reading of a relay to the last in its window.
Span(fp) ==
  LET first == ht[fp].first
  IN {t \in first .. (first + Window - 1) :
        \E u \in DOMAIN heard[fp] : t <= u /\ u < first + Window}

\* What a relay was heard to do in a second.
BwAt(fp, t) == IF t \in DOMAIN heard[fp] THEN heard[fp][t] ELSE 0

\* The bandwidth in the file is the upper median of what was heard in the
\* seconds of the span, those of silence included: at most half of them had
\* less, and more than half had no more.  A shorter span gets MinBw.
OutputIsMedian ==
  phase = "written" =>
    \A fp \in DOMAIN v3bw :
      IF Cardinality(Span(fp)) < SecsRequired THEN v3bw[fp] = MinBw
      ELSE LET n == Cardinality(Span(fp))
           IN /\ \E t \in Span(fp) : BwAt(fp, t) = v3bw[fp]
              /\ 2 * Cardinality({t \in Span(fp) : BwAt(fp, t) < v3bw[fp]}) <= n
              /\ 2 * Cardinality({t \in Span(fp) : BwAt(fp, t) <= v3bw[fp]}) > n

\* A relay with data for fewer seconds than are required gets MinBw: the message
\* "saw only %lus of data, so outputting min bw" of _v3bw_generate().
LittleDataGetsMinBw ==
  phase = "written" =>
    \A fp \in DOMAIN v3bw :
      Cardinality(DOMAIN heard[fp] \cap Span(fp)) < SecsRequired => v3bw[fp] = MinBw
=============================================================================
