---------------------------- MODULE OutputProofs ----------------------------
(***************************************************************************)
(* For any number of file names and whichever calls may fail: what readers *)
(* of the two symlinks can rely on.                                        *)
(***************************************************************************)
EXTENDS Output, TLAPS

\* rotate_fd: a file that is being written is the one it holds, and while it
\* is used it holds one unless fopen() failed in this round.
HandleInv ==
  /\ fd => /\ pc \in {"write", "unlink", "symlink", "fclose", "down"}
           /\ fname \in DOMAIN files[base]
           /\ files[base][fname] = [fresh |-> TRUE, is |-> "writing", from |-> source]
  /\ \A b \in Base : \A n \in DOMAIN files[b] :
       files[b][n].is = "writing" => fd /\ b = base /\ n = fname
  /\ pc \in {"write", "unlink", "symlink", "fclose"} /\ ~fd => "fopen" \in failed

\* The files of this round: of the output that is being written only the one
\* that was opened, and none yet of the bandwidths while there are only results.
FreshInv ==
  /\ \A n \in DOMAIN files[base] :
       files[base][n].fresh => n = fname /\ pc # "open"
  /\ base = "msm" => \A n \in DOMAIN files["v3bw"] : ~files["v3bw"][n].fresh

\* What v3bw_generate() read is what it should have been, or a call failed.
SourceInv ==
  /\ base = "msm" => source = "this"
  /\ source = "earlier" => "unlink" \in failed
  /\ source = "torn" => "fclose" \in failed

\* The symlink of the output that is being written.
LinkInv ==
  /\ pc = "symlink" => link[base] = None \/ "unlink" \in failed
  /\ pc \in {"fclose", "read"} =>
       link[base] \in {None, fname} \/ "unlink" \in failed
  /\ pc = "fclose" /\ failed = {} => link[base] = fname /\ ~blind[base]
  /\ pc = "read" =>
       /\ base = "msm" /\ fname \in DOMAIN files["msm"] /\ files["msm"][fname].fresh
       /\ files["msm"][fname].is = "whole" \/ "fclose" \in failed
       /\ failed = {} => Published("msm")
  /\ base = "v3bw" /\ failed = {} => Published("msm") /\ source = "this"

Inv ==
  /\ TypeOK /\ HandleInv /\ FreshInv /\ SourceInv /\ LinkInv
  /\ LinkNamesFinished /\ FromThisRound /\ RoundPublished

-----------------------------------------------------------------------------
(* The steps.                                                              *)

\* Most steps leave the files and the rotate_fd alone.
Quiet ==
  \/ TooMany \/ Write \/ WriteCrashes \/ WriteNothing
  \/ Unlink \/ UnlinkFails \/ Symlink \/ SymlinkFails
  \/ FcloseCrashes \/ ReadFails \/ Crash

LEMMA QuietInv ==
  ASSUME Inv, Quiet
  PROVE  Inv'
<1> USE DEF Inv, Quiet, Resolves, Published, Base, None, Names, TooMany, Write,
            WriteCrashes, WriteNothing, Unlink, UnlinkFails, Symlink, SymlinkFails,
            FcloseCrashes, ReadFails, Crash, RemoveLink
<1>1. /\ UNCHANGED <<base, fname, fd, source, files>>
      /\ pc' \in {"write", "unlink", "symlink", "fclose"} =>
           pc \in {"write", "unlink", "symlink", "fclose"} /\ failed \subseteq failed'
      /\ fd => pc' \in {"write", "unlink", "symlink", "fclose", "down"}
  BY DEF HandleInv
<1>2. TypeOK'
  <2>1. pc' \in Label /\ failed' \subseteq {"fopen", "unlink", "symlink", "fclose", "too many"}
    BY DEF TypeOK, Label
  <2>2. link' \in [Base -> Names \cup {None}]
    BY DEF TypeOK
  <2>3. blind' \in [Base -> BOOLEAN]
    <3>1. blind \in [Base -> BOOLEAN]
      BY DEF TypeOK
    <3>2. \/ blind' = blind \/ blind' = [blind EXCEPT ![base] = FALSE]
          \/ blind' = [blind EXCEPT ![base] = ~fd]
      OBVIOUS
    <3> QED
      BY ONLY <3>1, <3>2, Zenon
  <2> QED
    BY <1>1, <2>1, <2>2, <2>3 DEF TypeOK
<1>3. HandleInv'
  <2>1. HandleInv
    OBVIOUS
  <2> QED
    BY ONLY <1>1, <2>1 DEF HandleInv
<1>4. FreshInv'
  BY DEF FreshInv, Label
<1>5. SourceInv'
  BY DEF SourceInv
<1>6. LinkInv'
  BY DEF TypeOK, HandleInv, LinkInv
<1>7. LinkNamesFinished'
  BY DEF TypeOK, HandleInv, LinkNamesFinished
<1>8. FromThisRound'
  BY DEF FromThisRound
<1>9. RoundPublished'
  BY DEF TypeOK, HandleInv, LinkInv, RoundPublished
<1> QED
  BY <1>2, <1>3, <1>4, <1>5, <1>6, <1>7, <1>8, <1>9

\* A file is opened under a name that no file had.
LEMMA OpenInv ==
  ASSUME Inv, NEW n \in Tried, Open(n)
  PROVE  Inv'
<1> DEFINE new == [fresh |-> TRUE, is |-> "writing", from |-> source]
<1>1. /\ pc = "open" /\ pc' = "write" /\ fname' = n /\ fd' = TRUE
      /\ UNCHANGED <<base, source, link, blind, failed>>
      /\ n \in Names /\ n \notin DOMAIN files[base] /\ base \in Base
      /\ DOMAIN files = Base /\ ~fd
  BY DEF Open, IsNext, FreeNames, Tried, Names, Inv, TypeOK, HandleInv
<1>2. /\ DOMAIN files' = Base
      /\ DOMAIN files'[base] = DOMAIN files[base] \cup {n}
      /\ files'[base][n] = new
      /\ \A k \in DOMAIN files[base] : files'[base][k] = files[base][k]
      /\ \A b \in Base : b # base => files'[b] = files[b]
  BY <1>1 DEF Open, WithFile, ByNow
<1>3. new \in File /\ new.fresh = TRUE /\ new.is = "writing" /\ new.from = source
  BY DEF File, Inv, TypeOK
<1> HIDE DEF new
<1> USE DEF Inv, Base
<1>4. TypeOK'
  BY <1>1, <1>2, <1>3 DEF TypeOK, Label
<1>5. HandleInv'
  BY <1>1, <1>2, <1>3 DEF HandleInv, new
<1>6. FreshInv'
  BY <1>1, <1>2, <1>3 DEF FreshInv
<1>7. SourceInv'
  BY <1>1 DEF SourceInv
<1>8. LinkInv'
  BY <1>1, <1>2, <1>3 DEF LinkInv, Published, Resolves
<1>9. LinkNamesFinished'
  BY <1>1, <1>2, <1>3 DEF LinkNamesFinished, Resolves
<1>10. FromThisRound'
  BY <1>1, <1>2, <1>3 DEF FromThisRound, SourceInv, FreshInv
<1>11. RoundPublished'
  BY <1>1 DEF RoundPublished
<1> QED
  BY <1>4, <1>5, <1>6, <1>7, <1>8, <1>9, <1>10, <1>11

\* Without a file nothing but the name and the failure is noted.
LEMMA OpenFailsInv ==
  ASSUME Inv, NEW n \in Tried, OpenFails(n)
  PROVE  Inv'
<1> USE DEF Inv, OpenFails, IsNext, FreeNames, Tried, Base, Names
<1>1. TypeOK'
  BY DEF TypeOK, Label
<1>2. HandleInv'
  BY DEF HandleInv
<1>3. FreshInv'
  BY DEF FreshInv
<1>4. SourceInv'
  BY DEF SourceInv
<1>5. LinkInv'
  BY DEF LinkInv
<1>6. LinkNamesFinished'
  BY DEF LinkNamesFinished, Resolves, HandleInv
<1>7. FromThisRound'
  BY DEF FromThisRound
<1>8. RoundPublished'
  BY DEF RoundPublished
<1> QED
  BY <1>1, <1>2, <1>3, <1>4, <1>5, <1>6, <1>7, <1>8

\* A file is closed, well or badly.
LEMMA CloseInv ==
  ASSUME Inv, Fclose \/ FcloseFails
  PROVE  Inv'
<1> PICK is \in {"whole", "torn"} :
      /\ Becomes(is)
      /\ is = "whole" => failed' = failed
      /\ is = "torn" => failed' = failed \cup {"fclose"}
  BY DEF Fclose, FcloseFails
<1>1. /\ pc = "fclose" /\ fd /\ fd' = FALSE
      /\ pc' = IF base = "msm" THEN "read" ELSE "finished"
      /\ UNCHANGED <<base, fname, source, link, blind>>
      /\ fname \in DOMAIN files[base] /\ base \in Base /\ DOMAIN files = Base
      /\ files[base][fname] = [fresh |-> TRUE, is |-> "writing", from |-> source]
  BY DEF Fclose, FcloseFails, AfterClose, Inv, TypeOK, HandleInv
<1>2. /\ DOMAIN files' = Base
      /\ \A b \in Base : DOMAIN files'[b] = DOMAIN files[b]
      /\ files'[base][fname] = [fresh |-> TRUE, is |-> is, from |-> source]
      /\ \A b \in Base : \A k \in DOMAIN files[b] :
           b # base \/ k # fname => files'[b][k] = files[b][k]
  <2> DEFINE closed == [fresh |-> TRUE, is |-> is, from |-> source]
  <2>1. files' = [files EXCEPT ![base] = [files[base] EXCEPT ![fname] = closed]]
    BY Zenon DEF Becomes, ByNow
  <2>2. /\ DOMAIN files' = Base
        /\ files'[base] = [files[base] EXCEPT ![fname] = closed]
        /\ \A b \in Base : b # base => files'[b] = files[b]
    BY ONLY <1>1, <2>1
  <2> QED
    BY ONLY <1>1, <2>2
<1>3. files'[base][fname] \in File
  <2>1. source \in Source
    BY DEF Inv, TypeOK
  <2> QED
    BY <1>2, <2>1 DEF File
<1> USE DEF Inv, Base
<1>4. TypeOK'
  BY <1>1, <1>2, <1>3 DEF TypeOK, Label
<1>5. HandleInv'
  BY <1>1, <1>2 DEF HandleInv
<1>6. FreshInv'
  BY <1>1, <1>2 DEF FreshInv
<1>7. SourceInv'
  BY <1>1 DEF SourceInv
<1>8. LinkInv'
  <2>1. CASE base = "msm"
    <3>1. /\ base' = "msm" /\ pc' = "read"
          /\ fname' \in DOMAIN files'["msm"] /\ files'["msm"][fname'].fresh
          /\ files'["msm"][fname'].is = "whole" \/ "fclose" \in failed'
      BY <1>1, <1>2, <2>1
    <3>2. link'[base'] \in {None, fname'} \/ "unlink" \in failed'
      BY <1>1, <2>1 DEF LinkInv
    <3>3. failed' = {} => Published("msm")'
      BY <1>1, <1>2, <2>1 DEF LinkInv, SourceInv, Published, Resolves
    <3> QED
      BY <3>1, <3>2, <3>3 DEF LinkInv
  <2>2. CASE base = "v3bw"
    <3>1. failed' = {} => Published("msm")' /\ source' = "this"
      BY <1>1, <1>2, <2>2 DEF LinkInv, Published, Resolves
    <3> QED
      BY <1>1, <2>2, <3>1 DEF LinkInv
  <2> QED
    BY <1>1, <2>1, <2>2
<1>9. LinkNamesFinished'
  BY <1>1, <1>2 DEF LinkNamesFinished, Resolves
<1>10. FromThisRound'
  BY <1>1, <1>2 DEF FromThisRound
<1>11. RoundPublished'
  BY <1>1, <1>2 DEF RoundPublished, LinkInv, Published, Resolves
<1> QED
  BY <1>4, <1>5, <1>6, <1>7, <1>8, <1>9, <1>10, <1>11

\* The results are read by the name of the symlink.
LEMMA ReadInv ==
  ASSUME Inv, Read
  PROVE  Inv'
<1> DEFINE f == files["msm"][link["msm"]]
<1>1. /\ pc = "read" /\ pc' = "open" /\ base = "msm" /\ base' = "v3bw"
      /\ UNCHANGED <<fname, fd, files, link, blind, failed>>
      /\ ~fd /\ link["msm"] \in DOMAIN files["msm"]
      /\ fname \in DOMAIN files["msm"]
  BY DEF Read, Inv, LinkInv, HandleInv, Resolves
<1>2. /\ f.is # "writing" /\ f.is \in {"writing", "whole", "torn"}
      /\ \A n \in DOMAIN files["msm"] : files["msm"][n].fresh => n = fname
  BY <1>1 DEF Inv, TypeOK, HandleInv, FreshInv, File, Base
<1>3. /\ source' \in Source
      /\ source' = "earlier" => "unlink" \in failed
      /\ source' = "torn" => "fclose" \in failed
      /\ failed = {} => source' = "this"
  <2>1. source' = IF ~f.fresh THEN "earlier" ELSE IF f.is = "whole" THEN "this" ELSE "torn"
    BY DEF Read, SourceOf
  <2>2. /\ link["msm"] \in {None, fname} \/ "unlink" \in failed
        /\ files["msm"][fname].is = "whole" \/ "fclose" \in failed
        /\ failed = {} => f = [fresh |-> TRUE, is |-> "whole", from |-> "this"]
    BY <1>1 DEF Inv, LinkInv, Published
  <2>3. None \notin DOMAIN files["msm"]
    <3>1. DOMAIN files["msm"] \subseteq Names
      BY DEF Inv, TypeOK, Base
    <3> QED
      BY <3>1, OutputAssumption DEF None, Names
  <2>4. CASE ~f.fresh
    <3>1. link["msm"] # fname
      BY <1>1, <2>4 DEF Inv, LinkInv
    <3> QED
      BY <1>1, <2>1, <2>2, <2>3, <2>4, <3>1 DEF Source
  <2>5. CASE f.fresh
    BY <1>1, <1>2, <2>1, <2>2, <2>5 DEF Source
  <2> QED
    BY <2>4, <2>5
<1> USE DEF Inv, Base
<1>4. TypeOK'
  BY <1>1, <1>3 DEF TypeOK, Label
<1>5. HandleInv'
  BY <1>1 DEF HandleInv
<1>6. FreshInv'
  BY <1>1 DEF FreshInv
<1>7. SourceInv'
  BY <1>1, <1>3 DEF SourceInv
<1>8. LinkInv'
  BY <1>1, <1>3 DEF LinkInv, Published, Resolves
<1>9. LinkNamesFinished'
  BY <1>1 DEF LinkNamesFinished, Resolves
<1>10. FromThisRound'
  BY <1>1 DEF FromThisRound
<1>11. RoundPublished'
  BY <1>1 DEF RoundPublished
<1> QED
  BY <1>4, <1>5, <1>6, <1>7, <1>8, <1>9, <1>10, <1>11

\* With the next round the files grow old, and one that was never closed torn.
LEMMA NextRoundInv ==
  ASSUME Inv, NextRound
  PROVE  Inv'
<1>1. /\ pc' = "open" /\ base' = "msm" /\ fd' = FALSE /\ source' = "this" /\ failed' = {}
      /\ UNCHANGED <<fname, link, blind>>
      /\ DOMAIN files' = Base
      /\ \A b \in Base : DOMAIN files'[b] = DOMAIN files[b]
      /\ \A b \in Base : \A n \in DOMAIN files[b] : files'[b][n] = Aged(files[b][n])
  BY DEF NextRound
<1>2. \A f \in File : Aged(f) \in File /\ ~Aged(f).fresh /\ Aged(f).is # "writing"
  BY DEF File, Aged
<1>3. /\ TypeOK
      /\ \A b \in Base : \A n \in DOMAIN files[b] : files[b][n] \in File
  BY DEF Inv, TypeOK
<1>4. \A b \in Base : \A n \in DOMAIN files'[b] :
        files'[b][n] \in File /\ ~files'[b][n].fresh /\ files'[b][n].is # "writing"
  BY <1>1, <1>2, <1>3
<1>5. TypeOK'
  BY <1>1, <1>3, <1>4 DEF TypeOK, Label, Source, Base
<1>6. HandleInv'
  BY <1>1, <1>4 DEF HandleInv
<1>7. FreshInv'
  BY <1>1, <1>4 DEF FreshInv, Base
<1>8. SourceInv'
  BY <1>1 DEF SourceInv
<1>9. LinkInv'
  BY <1>1 DEF LinkInv
<1>10. LinkNamesFinished'
  BY <1>1, <1>4 DEF LinkNamesFinished, Resolves, Inv
<1>11. FromThisRound'
  BY <1>1, <1>4 DEF FromThisRound, Base
<1>12. RoundPublished'
  BY <1>1 DEF RoundPublished
<1> QED
  BY <1>5, <1>6, <1>7, <1>8, <1>9, <1>10, <1>11, <1>12 DEF Inv

\* What is removed is neither of this round nor named by the symlink.
LEMMA RemoveInv ==
  ASSUME Inv, NEW b \in Base, NEW n \in Names, Remove(b, n)
  PROVE  Inv'
<1>1. /\ UNCHANGED <<pc, base, fname, fd, source, link, blind, failed>>
      /\ ~files[b][n].fresh /\ link[b] # n /\ n \in DOMAIN files[b]
      /\ DOMAIN files = Base /\ DOMAIN files' = Base
      /\ DOMAIN files'[b] = DOMAIN files[b] \ {n}
      /\ \A k \in DOMAIN files'[b] : files'[b][k] = files[b][k]
      /\ \A c \in Base : c # b => files'[c] = files[c]
  BY DEF Remove, Inv, TypeOK
<1>2. /\ \A c \in Base : DOMAIN files'[c] \subseteq DOMAIN files[c]
      /\ \A c \in Base : \A k \in DOMAIN files'[c] : files'[c][k] = files[c][k]
      /\ \A c \in Base : \A k \in DOMAIN files[c] :
           files[c][k].fresh \/ link[c] = k => k \in DOMAIN files'[c]
  BY <1>1
<1> USE DEF Inv, Base
<1>3. TypeOK'
  BY <1>1, <1>2 DEF TypeOK
<1>4. HandleInv'
  <2>1. base \in Base /\ HandleInv
    BY DEF TypeOK
  <2> QED
    BY ONLY <1>1, <1>2, <2>1 DEF HandleInv
<1>5. FreshInv'
  <2>1. base \in Base /\ "v3bw" \in Base /\ FreshInv
    BY DEF TypeOK
  <2> QED
    BY ONLY <1>1, <1>2, <2>1 DEF FreshInv
<1>6. SourceInv'
  BY <1>1 DEF SourceInv
<1>7. LinkInv'
  BY <1>1, <1>2 DEF LinkInv, Published, Resolves
<1>8. LinkNamesFinished'
  BY <1>1, <1>2 DEF LinkNamesFinished, Resolves
<1>9. FromThisRound'
  BY <1>1, <1>2 DEF FromThisRound
<1>10. RoundPublished'
  BY <1>1, <1>2 DEF RoundPublished, Published, Resolves
<1> QED
  BY <1>3, <1>4, <1>5, <1>6, <1>7, <1>8, <1>9, <1>10

\* There are no files at first.
LEMMA InitInv == Init => Inv
<1> SUFFICES ASSUME Init PROVE Inv
  OBVIOUS
<1>1. \A b \in Base : DOMAIN files[b] = {}
  BY DEF Init
<1>2. TypeOK
  <2>1. 0 \in Names
    BY OutputAssumption DEF Names
  <2>2. /\ DOMAIN files = Base /\ link \in [Base -> Names \cup {None}]
        /\ blind \in [Base -> BOOLEAN]
    BY DEF Init
  <2>3. /\ pc \in Label /\ base \in Base /\ fname \in Names /\ fd \in BOOLEAN
        /\ source \in Source
        /\ failed \subseteq {"fopen", "unlink", "symlink", "fclose", "too many"}
    BY <2>1 DEF Init, Label, Base, Source
  <2> QED
    BY <1>1, <2>2, <2>3 DEF TypeOK
<1> QED
  BY <1>1, <1>2 DEF Init, Inv, Base, HandleInv, FreshInv, SourceInv, LinkInv,
                    LinkNamesFinished, FromThisRound, RoundPublished

\* Every step keeps the invariant.
LEMMA NextInv == Inv /\ [Next]_vars => Inv'
<1> SUFFICES ASSUME Inv, [Next]_vars PROVE Inv'
  OBVIOUS
<1>1. CASE Quiet
  BY <1>1, QuietInv
<1>2. CASE \E n \in Tried : Open(n) \/ OpenFails(n)
  BY <1>2, OpenInv, OpenFailsInv
<1>3. CASE Fclose \/ FcloseFails
  BY <1>3, CloseInv
<1>4. CASE Read
  BY <1>4, ReadInv
<1>5. CASE NextRound
  BY <1>5, NextRoundInv
<1>6. CASE \E b \in Base, n \in Names : Remove(b, n)
  BY <1>6, RemoveInv
<1>7. CASE UNCHANGED vars
  <2> USE <1>7 DEF vars, Inv
  <2>1. TypeOK'
    BY DEF TypeOK
  <2>2. HandleInv'
    BY DEF HandleInv
  <2>3. FreshInv' /\ SourceInv'
    BY DEF FreshInv, SourceInv
  <2>4. LinkInv'
    BY DEF LinkInv, Published, Resolves
  <2>5. LinkNamesFinished' /\ FromThisRound'
    BY DEF LinkNamesFinished, FromThisRound, Resolves
  <2>6. RoundPublished'
    BY DEF RoundPublished, Published, Resolves
  <2> QED
    BY <2>1, <2>2, <2>3, <2>4, <2>5, <2>6
<1> QED
  BY <1>1, <1>2, <1>3, <1>4, <1>5, <1>6, <1>7 DEF Next, Step, Quiet

\* The inductive invariant of the two outputs.
THEOREM OutputInvariant == Spec => []Inv
BY InitInv, NextInv, PTL DEF Spec

\* Types of the output's state.
THEOREM OutputTypes == Spec => []TypeOK
BY OutputInvariant, PTL DEF Inv

\* Whichever calls fail and wherever the process ends, a symlink of rfd_close()
\* never names a file that the program is still writing results to.
THEOREM LinksNameFinished == Spec => []LinkNamesFinished
BY OutputInvariant, PTL DEF Inv

\* v3bw_generate() reads the results of its own round unless unlink() failed.
THEOREM GeneratedFromThisRound == Spec => []FromThisRound
BY OutputInvariant, PTL DEF Inv

\* A round without a failing call publishes both of its files.
THEOREM RoundsPublish == Spec => []RoundPublished
BY OutputInvariant, PTL DEF Inv
=============================================================================
