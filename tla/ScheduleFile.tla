---------------------------- MODULE ScheduleFile ----------------------------
(***************************************************************************)
(* How a schedule gets from a file into the scheduler's table: the lines   *)
(* of text the parser takes apart, and the reader of JSON schedules, which *)
(* writes such lines, prints them and then panics with the advice to use   *)
(* what it printed as the input instead.  The advice is followed here: the *)
(* printed lines are the file of the next start, and are worked through.   *)
(*                                                                         *)
(* A line of text is the sequence of its words, <<>> when it is blank or a *)
(* comment; a word with commas is a sequence.  Numbers in the text are     *)
(* numbers (others are refused, too).  A JSON file is a sequence of sets,  *)
(* a set gives each of its relays the bits per second of each class, whole *)
(* numbers that fit in a u32.  Names hold neither blanks nor commas.       *)
(***************************************************************************)
EXTENDS Sched, SequencesExt

CONSTANTS
  TextFiles,  \* the schedules in text that may be given
  JsonFiles,  \* the schedules in JSON that may be given
  Conns,      \* the connections a measurement needs, 160
  BgBw        \* the bytes per second of background traffic, 125000

ASSUME ScheduleFileAssumption ==
  /\ Conns \in Nat \ {0} /\ BgBw \in Nat
  /\ \A json \in JsonFiles :
       /\ json \in Seq(Range(json))
       /\ \A s \in DOMAIN json : \A relay \in DOMAIN json[s] :
            /\ IsFiniteSet(DOMAIN json[s][relay])
            /\ \A class \in DOMAIN json[s][relay] : json[s][relay][class] \in Nat

VARIABLES
  pc,
  text,           \* the lines: of the file given, or m_strings
  aaron_sched,    \* the JSON file, <<>> when text was given
  set,            \* index of the current set in it, 0 before the first
  left,           \* the relays of the current set that are still to come
  new_m_id_set,
  last_m_id_set,  \* what last_m_id_set_str lists
  set_of          \* history: for each line made from JSON, which set it is of

json_vars == <<aaron_sched, set, left, new_m_id_set, last_m_id_set, set_of>>
vars == <<pc, text, json_vars, sched_vars>>

Init ==
  /\ pc = "startup" /\ text = <<>> /\ aaron_sched = <<>> /\ set = 0 /\ left = {}
  /\ new_m_id_set = <<>> /\ last_m_id_set = <<0>> /\ set_of = <<>>
  /\ SchedInit

-----------------------------------------------------------------------------
(* The lines.                                                              *)

\* The k-th word of a line, or what the variable was initialised with.
Word(line, k, default) == IF k <= Len(line) THEN line[k] ELSE default

Id(line) == Word(line, 1, 0)

\* The numbers above 0 of a list, in their order.
Positive(ds) ==
  LET kept[k \in 0 .. Len(ds)] ==
        IF k = 0 THEN <<>>
        ELSE IF ds[k] > 0 THEN Append(kept[k - 1], ds[k]) ELSE kept[k - 1]
  IN kept[Len(ds)]
Depends(line) == Positive(Word(line, 7, <<>>))

\* What new_from_string() takes for a measurement; that it does not depend on
\* itself is part of Sched's Accepts.
Parsed(line) ==
  LET class == Word(line, 4, <<>>)
      bw    == Word(line, 5, <<>>)
      conn  == Word(line, 6, <<>>)
      bg    == {k \in DOMAIN class : class[k] = "bg"}
  IN /\ Len(line) <= 7
     /\ Id(line) # 0
     /\ Len(class) = Len(bw) /\ Len(class) = Len(conn)
     /\ \A k \in bg : conn[k] = 1 /\ bw[k] = BgBw
     /\ Cardinality(bg) <= 1

\* The lines that are measurements.
Listed(lines) == {k \in DOMAIN lines : lines[k] # <<>>}

UniqueIds(lines) ==
  \A j, k \in Listed(lines) : Id(lines[j]) = Id(lines[k]) => j = k

\* The schedule as Sched knows it, once its lines are parsed and their ids differ.
File(lines) ==
  [m \in {Id(lines[k]) : k \in Listed(lines)} |->
     Depends(lines[CHOOSE k \in Listed(lines) : Id(lines[k]) = m])]

\* new_from_string() of every line, then check_and_insert_measurements().
Insertable(lines) ==
  /\ \A k \in Listed(lines) : Parsed(lines[k])
  /\ UniqueIds(lines)
  /\ NoSelfDepend(File(lines)) /\ DependsListed(File(lines))

-----------------------------------------------------------------------------
(* The reader of JSON.                                                     *)

\* (bw / 8.0).round()
Bytes(bits) == (bits + 4) \div 8

\* (Mutant: the connections are not rounded up.)
ConnsBelow(measurers) == Conns \div measurers

ConnsEach(measurers) ==
  LET conn == Conns \div measurers
  IN IF conn * measurers < Conns THEN conn + 1 ELSE conn

\* The connections written for each class, in the order of the classes.
ConnsOf(classes, conn) ==
  [k \in DOMAIN classes |-> IF classes[k] = "bg" THEN 1 ELSE conn]

\* (Mutant: a measurement waits for one of the set before only.)
LastDepend == IF last_m_id_set = <<>> THEN <<>> ELSE <<<<Last(last_m_id_set)>>>>

\* The seventh word, which is missing when the set before was empty.
DependWord == IF last_m_id_set = <<>> THEN <<>> ELSE <<last_m_id_set>>

Measurers(relay) == DOMAIN aaron_sched[set][relay] \ {"bg"}

ReadText ==
  /\ pc = "startup"
  /\ text' \in TextFiles
  /\ pc' = "parse"
  /\ UNCHANGED <<json_vars, sched_vars>>

ReadJson ==
  /\ pc = "startup"
  /\ aaron_sched' \in JsonFiles
  /\ pc' = "sets"
  /\ UNCHANGED <<text, set, left, new_m_id_set, last_m_id_set, set_of, sched_vars>>

StartSet ==
  /\ pc = "sets"
  /\ set < Len(aaron_sched)
  /\ set' = set + 1
  /\ left' = DOMAIN aaron_sched[set']
  /\ new_m_id_set' = <<>>
  /\ pc' = "relays"
  /\ UNCHANGED <<text, aaron_sched, last_m_id_set, set_of, sched_vars>>

\* A relay of the set, its classes in any order: both are keys of hash maps.
\* (Bound: no more lines than Msms has ids for.)
WriteLine(relay) ==
  /\ pc = "relays"
  /\ relay \in left
  /\ Measurers(relay) # {}
  /\ \E classes \in SetToSeqs(DOMAIN aaron_sched[set][relay]) :
       LET next_msm_id == Len(text) + 1
           bws == [k \in DOMAIN classes |-> Bytes(aaron_sched[set][relay][classes[k]])]
           conns == ConnsOf(classes, ConnsEach(Cardinality(Measurers(relay))))
           needed == IF "bg" \in Range(classes) THEN Conns + 1 ELSE Conns
       IN /\ next_msm_id \in Msms
          /\ text' = Append(text, <<next_msm_id, relay, 30, classes, bws, conns>> \o DependWord)
          /\ new_m_id_set' = Append(new_m_id_set, next_msm_id)
          /\ pc' = IF FoldSeq(+, 0, conns) >= needed THEN pc ELSE "panicked"
  /\ left' = left \ {relay}
  /\ set_of' = Append(set_of, set)
  /\ UNCHANGED <<aaron_sched, set, last_m_id_set, sched_vars>>

\* With no class but bg the connections are divided by zero.
NoMeasurer(relay) ==
  /\ pc = "relays"
  /\ relay \in left
  /\ Measurers(relay) = {}
  /\ pc' = "panicked"
  /\ UNCHANGED <<text, json_vars, sched_vars>>

SetEnds ==
  /\ pc = "relays"
  /\ left = {}
  /\ last_m_id_set' = new_m_id_set
  /\ pc' = "sets"
  /\ UNCHANGED <<text, aaron_sched, set, left, new_m_id_set, set_of, sched_vars>>

\* The lines are parsed and inserted, for the panic that ends the process all
\* the same; one that comes before does not give the advice.
JsonRead ==
  /\ pc = "sets"
  /\ set = Len(aaron_sched)
  /\ pc' = IF Insertable(text) THEN "advised" ELSE "panicked"
  /\ UNCHANGED <<text, json_vars, sched_vars>>

\* The coordinator is started with what was printed.
UsePrinted ==
  /\ pc = "advised"
  /\ pc' = "parse"
  /\ UNCHANGED <<text, json_vars, sched_vars>>

-----------------------------------------------------------------------------
(* The table is filled, and worked through.                                *)

Load ==
  /\ pc = "parse"
  /\ Insertable(text)
  /\ SomethingStarts(File(text))
  /\ sched_new(File(text))
  /\ pc' = "running"
  /\ UNCHANGED <<text, json_vars>>

Refuse ==
  /\ pc = "parse"
  /\ ~ (Insertable(text) /\ SomethingStarts(File(text)))
  /\ pc' = "panicked"
  /\ UNCHANGED <<text, json_vars, sched_vars>>

HandOut(m) ==
  /\ pc = "running"
  /\ sched_next(m)
  /\ UNCHANGED <<pc, text, json_vars>>

MarkDone(m) ==
  /\ pc = "running"
  /\ msm_state[m] = "InProgress"
  /\ sched_mark_done(m)
  /\ UNCHANGED <<pc, text, json_vars>>

Next ==
  \/ ReadText \/ ReadJson \/ StartSet \/ SetEnds \/ JsonRead \/ UsePrinted
  \/ \E relay \in left : WriteLine(relay) \/ NoMeasurer(relay)
  \/ Load \/ Refuse
  \/ \E m \in Msms : HandOut(m) \/ MarkDone(m)

\* As in SchedCaller; nobody need take the advice.
Fairness ==
  /\ WF_vars(\E m \in Msms : HandOut(m))
  /\ \A m \in Msms : WF_vars(MarkDone(m))

Spec == Init /\ [][Next]_vars /\ Fairness

-----------------------------------------------------------------------------

\* A JSON schedule that measures something, with a measurer for each relay and
\* 1 Mbit/s, to the bit that rounding allows, wherever there is background
\* traffic.
Sound(json) ==
  /\ \E s \in DOMAIN json : DOMAIN json[s] # {}
  /\ \A s \in DOMAIN json : \A relay \in DOMAIN json[s] :
       /\ DOMAIN json[s][relay] \ {"bg"} # {}
       /\ "bg" \in DOMAIN json[s][relay] =>
            json[s][relay]["bg"] \in (8 * BgBw - 4) .. (8 * BgBw + 3)

\* A sound JSON schedule is never refused, neither while it is made into text,
\* with its connections rounded and its bandwidths, nor when the text is read
\* back as the reader advises.
SoundJsonAccepted == Sound(aaron_sched) => pc # "panicked"

\* The measurements of one set of a JSON file are all over before one of the
\* next set is handed out, and so on from set to set, in whichever order the
\* hash maps listed them.  An empty set breaks the chain: what comes after it
\* does not wait for what comes before.
SetsInOrder ==
  \A m, n \in loaded :
    /\ aaron_sched # <<>>
    /\ set_of[m] < set_of[n]
    /\ \A s \in set_of[m] .. set_of[n] : DOMAIN aaron_sched[s] # {}
    /\ msm_state[n] \in {"InProgress", "Complete"}
    => msm_state[m] = "Complete"

\* What is made from a JSON file can be satisfied: nothing waits for itself in
\* a roundabout way or for one measurement twice, so the round ends.
MadeScheduleFinishes == (pc = "running" /\ aaron_sched # <<>>) ~> sched_finished
=============================================================================
