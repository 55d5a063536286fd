----------------------------- MODULE TorClient ------------------------------
(***************************************************************************)
(* The coordinator's side of its connections to Tor clients, torclient.c:  *)
(* one ctrl_sock_meta per line of the client file, the state machine that  *)
(* tc_change_state() guards, the commands sent and the answers read.       *)
(*                                                                         *)
(* What a client writes matters only as the coordinator will read it:      *)
(*   "good"   bytes after which the buffer begins with the reply that is   *)
(*            waited for, or, once the measurement runs, the END marker;   *)
(*   "other"  any other bytes: a wrong reply, or per-second results;       *)
(*   "eof"    the client closed the connection: recv() returns 0;          *)
(*   "err"    recv() returns -1.                                           *)
(* The host slot a command was built from stands for its number of         *)
(* connections and its bandwidth.                                          *)
(***************************************************************************)
EXTENDS Naturals, Sequences, FiniteSets

CONSTANTS
  NumMetas,    \* tor clients read from the client file
  Class,       \* the class of each of them
  BgClasses    \* the classes tc_client_file_read() takes for background ones

Metas == 1 .. NumMetas

ASSUME TorClientAssumption ==
  /\ NumMetas \in Nat \ {0}     \* with no client main_loop_once() gives up
  /\ DOMAIN Class = Metas

VARIABLES
  state,          \* ctrl_sock_meta.state
  current_m_id,   \* ctrl_sock_meta.current_m_id, 0 when it is free
  inbox,          \* what the next recv() on its socket returns
  nconn_of,       \* host slot its TESTSPEED <fp> <conns> was built from, or 0
  bw_of,          \* host slot its RESETCONF was built from, or 0
  buf             \* the good reply that buf[] on the stack may still begin with

tc_vars == <<state, current_m_id, inbox, nconn_of, bw_of, buf>>

CsmState == {"invalid", "connected", "authing", "authed", "told_connect_target",
             "connected_target", "setting_bw", "bw_set", "measuring", "done",
             "failed"}

\* The states in which a client owes an answer of the handshake, and those in
\* which the main loop polls its socket.
Answering == {"authing", "told_connect_target", "setting_bw"}
\* The reply each of them waits for.
good_resp == [st \in Answering |->
                IF st = "told_connect_target" THEN "250 SPEEDTESTING" ELSE "250 OK"]
Replies == {"none", "250 OK", "250 SPEEDTESTING"}

\* (Mutant: results are not waited for.)
AwaitedAnswers == Answering
Awaited == Answering \cup {"measuring"}

\* (Mutant: a client that is done cannot be marked failed.)
MayFailUnlessDone == CsmState \ {"invalid", "failed", "done"}
MayFail == CsmState \ {"invalid", "failed"}

\* The state changes tc_change_state_() lets through.
GoodStateChanges ==
  {<<"invalid", "connected">>, <<"connected", "authing">>, <<"authing", "authed">>,
   <<"authed", "told_connect_target">>, <<"told_connect_target", "connected_target">>,
   <<"connected_target", "setting_bw">>, <<"setting_bw", "bw_set">>,
   <<"bw_set", "measuring">>, <<"measuring", "done">>,
   <<"done", "invalid">>, <<"failed", "invalid">>}
    \cup {<<st, "failed">> : st \in MayFail}

TorClientTypeOK ==
  /\ state \in [Metas -> CsmState]
  /\ current_m_id \in [Metas -> Nat]
  /\ inbox \in [Metas -> {"none", "good", "other", "eof", "err"}]
  /\ nconn_of \in [Metas -> Nat]
  /\ bw_of \in [Metas -> Nat]
  /\ buf \in Replies

TorClientInit ==
  /\ state = [c \in Metas |-> "invalid"]
  /\ current_m_id = [c \in Metas |-> 0]
  /\ inbox = [c \in Metas |-> "none"]
  /\ nconn_of = [c \in Metas |-> 0]
  /\ bw_of = [c \in Metas |-> 0]
  /\ buf = "none"

-----------------------------------------------------------------------------

IsBg(c) == Class[c] \in BgClasses

Crew(m) == {c \in Metas : current_m_id[c] = m}

\* f with the value v at every client of S.
Update(f, S, v) == [c \in Metas |-> IF c \in S THEN v ELSE f[c]]

\* The assertion of tc_change_state() for every client of S.
MayChange(S, st) == \A c \in S : <<state[c], st>> \in GoodStateChanges

\* tc_client_file_read(): every client is described and none is connected.
tc_client_file_read ==
  /\ state' = [c \in Metas |-> "invalid"]
  /\ current_m_id' = [c \in Metas |-> 0]
  /\ inbox' = [c \in Metas |-> "none"]
  /\ nconn_of' = [c \in Metas |-> 0]
  /\ bw_of' = [c \in Metas |-> 0]
  /\ UNCHANGED buf

\* (Mutant: the class is not compared.)
AvailableOfAnyClass(class) == {c \in Metas : current_m_id[c] = 0}

\* The clients tc_next_available() considers for a class.
Available(class) == {c \in Metas : Class[c] = class /\ current_m_id[c] = 0}

\* tc_next_available() returns c, and its caller gives c to measurement m.  It
\* takes the first one that can be connected to, so it may return any of them.
tc_next_available(c, class, m) ==
  /\ c \in Available(class)
  /\ state' = [state EXCEPT ![c] = "connected"]
  /\ current_m_id' = [current_m_id EXCEPT ![c] = m]
  /\ UNCHANGED <<inbox, nconn_of, bw_of, buf>>

\* A command is sent to every client of S.
Sent(S, st) ==
  /\ state' = Update(state, S, st)
  /\ UNCHANGED <<current_m_id, inbox, nconn_of, bw_of, buf>>

tc_auth_socket(S) == Sent(S, "authing")
tc_start_measurement(S) == Sent(S, "measuring")

\* (Mutant: the loop over the clients ends with the first one.)
TellFirst(S, slot) ==
  /\ state' = [c \in Metas |-> IF c \in S /\ \A d \in S : c <= d
                                THEN "told_connect_target" ELSE state[c]]
  /\ nconn_of' = [c \in Metas |-> IF c \in S THEN slot[c] ELSE nconn_of[c]]
  /\ UNCHANGED <<current_m_id, inbox, bw_of, buf>>

\* tc_tell_connect() and tc_set_bw_rate(): the command sent to c carries the
\* parameters of host slot[c].
tc_tell_connect(S, slot) ==
  /\ state' = Update(state, S, "told_connect_target")
  /\ nconn_of' = [c \in Metas |-> IF c \in S THEN slot[c] ELSE nconn_of[c]]
  /\ UNCHANGED <<current_m_id, inbox, bw_of, buf>>

tc_set_bw_rate(S, slot) ==
  /\ state' = Update(state, S, "setting_bw")
  /\ bw_of' = [c \in Metas |-> IF c \in S THEN slot[c] ELSE bw_of[c]]
  /\ UNCHANGED <<current_m_id, inbox, nconn_of, buf>>

\* tc_finished_with_meta(): the socket is closed, with what it still held.
tc_finished_with_meta(S) ==
  /\ state' = Update(state, S, "invalid")
  /\ current_m_id' = Update(current_m_id, S, 0)
  /\ inbox' = Update(inbox, S, "none")
  /\ nconn_of' = Update(nconn_of, S, 0)
  /\ bw_of' = Update(bw_of, S, 0)

-----------------------------------------------------------------------------

\* recv() takes what has arrived; a closed or broken connection stays so.
Received(c) ==
  IF inbox[c] \in {"eof", "err"} THEN inbox ELSE [inbox EXCEPT ![c] = "none"]

\* The answers of the handshake are read into buf[], which is not initialised:
\* at the end of the stream, what is compared with the good reply is what the
\* same place on the stack held before.  That is an earlier good reply, of
\* whichever client, unless other calls have used the place since.
AnswersWell(c) ==
  inbox[c] = "good" \/ (inbox[c] = "eof" /\ buf = good_resp[state[c]])
AnswersBadly(c) == inbox[c] \in {"other", "eof", "err"}

\* An answer that is not the good reply is ended with a '\0' and printed.
BadAnswerRead(c) == buf' = IF inbox[c] = "err" THEN buf ELSE "none"

Answers(c, from, to) ==
  /\ state[c] = from
  /\ AnswersWell(c)
  /\ state' = [state EXCEPT ![c] = to]
  /\ inbox' = Received(c)
  /\ buf' = good_resp[from]
  /\ UNCHANGED <<current_m_id, nconn_of, bw_of>>

tc_authed_socket(c) == Answers(c, "authing", "authed")
tc_connected_socket(c) == Answers(c, "told_connect_target", "connected_target")
tc_did_set_bw_rate(c) == Answers(c, "setting_bw", "bw_set")

\* tc_output_result(): the results are written out, and the client is done
\* when they contain the END marker or the connection was closed.  Its buffer
\* lies over that of the answers, but begins 16 bytes below it: a piece of
\* results may be too short to reach the reply, the END marker is not.
tc_output_result(c) ==
  /\ state[c] = "measuring"
  /\ inbox[c] \in {"good", "other", "eof"}
  /\ state' = [state EXCEPT ![c] =
                 IF inbox[c] = "other" THEN "measuring" ELSE "done"]
  /\ inbox' = Received(c)
  /\ buf' = IF inbox[c] = "good" THEN "none" ELSE buf
  /\ UNCHANGED <<current_m_id, nconn_of, bw_of>>

\* A connected client writes something, or its connection ends.
Arrive(c, x) ==
  /\ state[c] # "invalid"
  /\ inbox[c] = "none"
  /\ inbox' = [inbox EXCEPT ![c] = x]
  /\ UNCHANGED <<state, current_m_id, nconn_of, bw_of, buf>>
=============================================================================
