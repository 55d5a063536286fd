------------------------------- MODULE Output -------------------------------
(***************************************************************************)
(* The two outputs of a round: rotatefd.c, v3bw_generate() of v3bw.c and   *)
(* what main_loop_once() and main() do with them.  Each round writes its   *)
(* results to the first free name of msm.0, msm.1, ... and makes the       *)
(* symlink msm point to it, then generates the bandwidth file from the     *)
(* file that symlink names, and publishes it in the same way as v3bw.      *)
(*                                                                         *)
(* Failures covered: fopen(), unlink(), symlink() and fclose() may fail,   *)
(* the process may end between any two calls and be started again, and     *)
(* somebody may remove old files.  An fprintf() that fails is not covered. *)
(***************************************************************************)
EXTENDS Naturals

CONSTANTS
  MaxFiles,   \* file names for each output, 1000 in rfd_open()
  Failing     \* the calls that may fail

ASSUME OutputAssumption ==
  /\ MaxFiles \in Nat \ {0}
  /\ Failing \subseteq {"fopen", "unlink", "symlink", "fclose"}

VARIABLES
  pc,       \* place in the round, "down" when the process is not running
  base,     \* the output that is being written
  fname,    \* rotate_fd.fname, by its number
  fd,       \* rotate_fd.fd is a file
  source,   \* the results read by v3bw_generate(): "this" round's, ...
  files,    \* for each output, the files there are
  link,     \* for each output, the file its symlink names
  blind,    \* history: the symlink was made although no file had been opened
  failed    \* history: the calls that failed in this round

vars == <<pc, base, fname, fd, source, files, link, blind, failed>>

Base == {"msm", "v3bw"}
Names == 0 .. (MaxFiles - 1)
None == MaxFiles
Label == {"open", "write", "unlink", "symlink", "fclose", "read", "finished", "down"}

\* Where the contents of a file come from: the results of the round in which
\* it is written, results of an earlier one, or results that are not complete.
Source == {"this", "earlier", "torn"}

\* A file: it is of this round, how far it has come, what it was made from.
File == [fresh : BOOLEAN, is : {"writing", "whole", "torn"}, from : Source]

TypeOK ==
  /\ pc \in Label /\ base \in Base /\ fname \in Names /\ fd \in BOOLEAN
  /\ source \in Source
  /\ DOMAIN files = Base
  /\ \A b \in Base : /\ DOMAIN files[b] \subseteq Names
                     /\ \A n \in DOMAIN files[b] : files[b][n] \in File
  /\ link \in [Base -> Names \cup {None}]
  /\ blind \in [Base -> BOOLEAN]
  /\ failed \subseteq {"fopen", "unlink", "symlink", "fclose", "too many"}

\* No file of either name is there when FlashFlow is first run.
Init ==
  /\ pc = "open" /\ base = "msm" /\ fname = 0 /\ fd = FALSE /\ source = "this"
  /\ files = [b \in Base |-> <<>>]
  /\ link = [b \in Base |-> None]
  /\ blind = [b \in Base |-> FALSE]
  /\ failed = {}

-----------------------------------------------------------------------------
(* rfd_open().                                                             *)

\* The names that are tried.  (Mutant: one too many.)
OneMore == 0 .. MaxFiles
Tried == 0 .. (MaxFiles - 1)

\* (Mutant: they are not looked up.)
AnyName == Tried
FreeNames == Tried \ DOMAIN files[base]

IsNext(n) == n \in FreeNames /\ \A k \in FreeNames : n <= k

\* The file of the rotate_fd, when it is as far as that.
ByNow(is) == [fresh |-> TRUE, is |-> is, from |-> source]

\* The file f is there as well.
WithFile(n, f) ==
  files' = [files EXCEPT ![base] =
              [k \in DOMAIN @ \cup {n} |-> IF k = n THEN f ELSE @[k]]]

Open(n) ==
  /\ pc = "open" /\ IsNext(n)
  /\ WithFile(n, ByNow("writing"))
  /\ fname' = n /\ fd' = TRUE
  /\ pc' = "write"
  /\ UNCHANGED <<base, source, link, blind, failed>>

\* fopen() fails, and rfd_open() returns a rotate_fd without a file.
OpenFails(n) ==
  /\ pc = "open" /\ IsNext(n)
  /\ "fopen" \in Failing
  /\ fname' = n /\ fd' = FALSE
  /\ failed' = failed \cup {"fopen"}
  /\ pc' = "write"
  /\ UNCHANGED <<base, source, files, link, blind>>

\* With no name left rfd_open() returns NULL: main_loop_once() dereferences it,
\* v3bw_generate() gives up.
TooMany ==
  /\ pc = "open" /\ FreeNames = {}
  /\ pc' = IF base = "msm" THEN "down" ELSE "finished"
  /\ failed' = failed \cup {"too many"}
  /\ UNCHANGED <<base, fname, fd, source, files, link, blind>>

-----------------------------------------------------------------------------

\* The results of a round, or the bandwidths, are written.
Write ==
  /\ pc = "write" /\ fd
  /\ pc' = "unlink"
  /\ UNCHANGED <<base, fname, fd, source, files, link, blind, failed>>

\* Without a file the first fprintf() ends the process.  There is always one
\* to the bandwidth file, and one to the results unless there are none.
WriteCrashes ==
  /\ pc = "write" /\ ~fd
  /\ pc' = "down"
  /\ UNCHANGED <<base, fname, fd, source, files, link, blind, failed>>

WriteNothing ==
  /\ pc = "write" /\ ~fd /\ base = "msm"
  /\ pc' = "unlink"
  /\ UNCHANGED <<base, fname, fd, source, files, link, blind, failed>>

-----------------------------------------------------------------------------
(* rfd_close(), whose test for a file compares a pointer with 0.           *)

\* (Mutant: the old symlink is left.)
LeaveLink == UNCHANGED <<link, blind>>
RemoveLink ==
  /\ link' = [link EXCEPT ![base] = None]
  /\ blind' = [blind EXCEPT ![base] = FALSE]

Unlink ==
  /\ pc = "unlink"
  /\ RemoveLink
  /\ pc' = "symlink"
  /\ UNCHANGED <<base, fname, fd, source, files, failed>>

UnlinkFails ==
  /\ pc = "unlink" /\ link[base] # None
  /\ "unlink" \in Failing
  /\ failed' = failed \cup {"unlink"}
  /\ pc' = "symlink"
  /\ UNCHANGED <<base, fname, fd, source, files, link, blind>>

Symlink ==
  /\ pc = "symlink" /\ link[base] = None
  /\ link' = [link EXCEPT ![base] = fname]
  /\ blind' = [blind EXCEPT ![base] = ~fd]
  /\ pc' = "fclose"
  /\ UNCHANGED <<base, fname, fd, source, files, failed>>

\* symlink() fails of itself when there is one already.
SymlinkFails ==
  /\ pc = "symlink"
  /\ link[base] # None \/ "symlink" \in Failing
  /\ failed' = IF link[base] = None THEN failed \cup {"symlink"} ELSE failed
  /\ pc' = "fclose"
  /\ UNCHANGED <<base, fname, fd, source, files, link, blind>>

\* The results are followed by the bandwidth file, and that by the next round.
AfterClose == pc' = IF base = "msm" THEN "read" ELSE "finished"

Becomes(is) == files' = [files EXCEPT ![base][fname] = ByNow(is)]

\* What has been written is in the file now.
Fclose ==
  /\ pc = "fclose" /\ fd
  /\ Becomes("whole")
  /\ fd' = FALSE
  /\ AfterClose
  /\ UNCHANGED <<base, fname, source, link, blind, failed>>

FcloseFails ==
  /\ pc = "fclose" /\ fd
  /\ "fclose" \in Failing
  /\ Becomes("torn")
  /\ fd' = FALSE
  /\ failed' = failed \cup {"fclose"}
  /\ AfterClose
  /\ UNCHANGED <<base, fname, source, link, blind>>

FcloseCrashes ==
  /\ pc = "fclose" /\ ~fd
  /\ pc' = "down"
  /\ UNCHANGED <<base, fname, fd, source, files, link, blind, failed>>

-----------------------------------------------------------------------------
(* v3bw_generate(), and the next round.                                    *)

Resolves(b) == link[b] \in DOMAIN files[b]

SourceOf(f) == IF ~f.fresh THEN "earlier" ELSE IF f.is = "whole" THEN "this" ELSE "torn"

\* The results are read by the name of the symlink.
Read ==
  /\ pc = "read" /\ Resolves("msm")
  /\ base' = "v3bw"
  /\ source' = SourceOf(files["msm"][link["msm"]])
  /\ pc' = "open"
  /\ UNCHANGED <<fname, fd, files, link, blind, failed>>

ReadFails ==
  /\ pc = "read"
  /\ ~Resolves("msm") \/ "fopen" \in Failing
  /\ failed' = IF Resolves("msm") THEN failed \cup {"fopen"} ELSE failed
  /\ pc' = "finished"
  /\ UNCHANGED <<base, fname, fd, source, files, link, blind>>

\* The files that are there when a round begins are not of that round, and
\* one that was still being written when the process ended is torn.
Aged(f) == [f EXCEPT !.fresh = FALSE, !.is = IF @ = "writing" THEN "torn" ELSE @]

\* main() goes on with the next round, whatever became of this one.  (Where it
\* ended with no name left to open, the process is started again.)
NextRound ==
  /\ pc \in {"finished", "down"}
  /\ pc' = "open" /\ base' = "msm" /\ fd' = FALSE /\ source' = "this"
  /\ files' = [b \in Base |-> [n \in DOMAIN files[b] |-> Aged(files[b][n])]]
  /\ failed' = {}
  /\ UNCHANGED <<fname, link, blind>>

-----------------------------------------------------------------------------
(* What happens around the program.                                        *)

Crash ==
  /\ pc # "down"
  /\ pc' = "down"
  /\ UNCHANGED <<base, fname, fd, source, files, link, blind, failed>>

\* Somebody removes a file of an earlier round that the symlink does not name.
Remove(b, n) ==
  /\ n \in DOMAIN files[b] /\ ~files[b][n].fresh /\ link[b] # n
  /\ files' = [files EXCEPT ![b] = [k \in DOMAIN @ \ {n} |-> @[k]]]
  /\ UNCHANGED <<pc, base, fname, fd, source, link, blind, failed>>

Step ==
  \/ \E n \in Tried : Open(n) \/ OpenFails(n)
  \/ TooMany
  \/ Write \/ WriteCrashes \/ WriteNothing
  \/ Unlink \/ UnlinkFails \/ Symlink \/ SymlinkFails
  \/ Fclose \/ FcloseFails \/ FcloseCrashes
  \/ Read \/ ReadFails
  \/ NextRound

Next == Step \/ Crash \/ \E b \in Base, n \in Names : Remove(b, n)

\* The program goes on, and is started again when it has ended.
Spec == Init /\ [][Next]_vars /\ WF_vars(Step)

-----------------------------------------------------------------------------
(* What readers of the two symlinks can rely on.                           *)

\* A symlink names a file that is there and has all been written, with three
\* exceptions: the moment before it is closed, a file whose closing failed or
\* never came because the process ended, and a symlink to a file that had not
\* been opened in the first place.
LinkNamesFinished ==
  \A b \in Base : link[b] # None /\ ~blind[b] =>
    /\ Resolves(b)
    /\ files[b][link[b]].is = "writing" =>
         fd /\ base = b /\ fname = link[b] /\ pc \in {"fclose", "down"}

\* Bandwidths are never generated from the results of another round, unless
\* the old symlink could not be removed, nor from incomplete ones, unless
\* closing them failed: failures that are logged and then ignored.
FromThisRound ==
  \A n \in DOMAIN files["v3bw"] :
    files["v3bw"][n].fresh =>
      /\ files["v3bw"][n].from = "earlier" => "unlink" \in failed
      /\ files["v3bw"][n].from = "torn" => "fclose" \in failed

Published(b) ==
  /\ Resolves(b) /\ ~blind[b]
  /\ files[b][link[b]] = [fresh |-> TRUE, is |-> "whole", from |-> "this"]

\* A round in which no call failed and names were left has published both of
\* its files, whatever earlier rounds, crashes and removals left behind.
RoundPublished == pc = "finished" /\ failed = {} => Published("msm") /\ Published("v3bw")

\* Once calls do not fail any more, names are left and the process is not
\* stopped, a bandwidth file is published again and again.
Trouble == failed' # {} \/ (pc' = "down" /\ pc # "down")
Recovers == <>[][~Trouble]_vars => []<>(pc = "finished" /\ Published("v3bw"))
=============================================================================
