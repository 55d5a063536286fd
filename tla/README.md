# Verification of the FlashFlow coordinator

FlashFlow measures the capacity of Tor relays. A *coordinator* reads a list of
Tor clients and a schedule of measurements, tells the clients over their control
ports to connect to a relay, to limit their bandwidth and to send traffic, writes
the per-second results to a file, and turns them into a bandwidth file (v3bw).
This directory models the coordinator in TLA+, checks the model with TLC and
proves theorems about it with TLAPS.

## The system

| part | source | state | operations |
|---|---|---|---|
| main loop | `src/flashflow.c` | `known_m_ids` (measurements under way, an array), `loops_without_progress`, lists of descriptors for epoll, counts | start of a round, watchdog, failsafe, start one measurement, advance each measurement, poll, handle events, end of a round |
| client connections | `src/torclient.c` | one `ctrl_sock_meta` per client: `fd`, `state`, `class`, `is_bg`, `current_m_id` | read the client file, find and connect a free client, the commands (AUTHENTICATE, TESTSPEED, RESETCONF, TESTSPEED), the answers, mark failed, release |
| scheduler | `src/sched/src/lib.rs` | schedule files in text and JSON, and the process-wide table `MSMS`: `state`, `depends`, `finished_depends`, `failsafe_stop` of each measurement | `sched_new`, `sched_next`, `sched_mark_done`, `sched_reset_failsafe_stop`, `sched_finished`, getters |
| bandwidth file | `src/v3bw.c` | a hash table of relays, each with a window of 60 seconds | read result lines, add up per second, median |
| rotating files | `src/rotatefd.c` | numbered files and a symlink to the last | `rfd_open`, `rfd_close` |
| logging | `src/common.c` | none | names of states, descriptions of clients |

The program is one thread. `main()` calls `main_loop_once()` for ever; each call
is a *round*: it reads the client file and the schedule file, loops until
`sched_finished()`, closes the results and generates the v3bw file. The loop
calls the scheduler (Rust, by C calls) and the client connections; the clients
answer over TCP when they like. What makes it hard:

* one loop drives many measurements, each a handshake with several clients in
  lockstep, and removes measurements from the array it is looping over;
* a measurement can fail at every point - no client free, connection refused, a
  send that fails halfway through its clients, a wrong answer, a closed
  connection, a silent client, the failsafe - and everything it holds must be
  released whatever state it was in;
* the events of one `epoll_wait()` concern clients whose sockets an earlier event
  of the same batch may have closed;
* two ways to give up (the watchdog on loops without progress, the failsafe on
  the clock) race with late answers;
* the scheduler compares a length with a counter, keeps its table from round to
  round, and does not look for cycles;
* results arrive cut at any byte, from several clients at once, and are put
  together again from the file they were written to;
* the two outputs of a round are published by a symlink each, in several calls
  any of which may fail without the program stopping, and the second output is made
  from what the first symlink names;
* descriptors are small numbers that are used again at once, and some are lost.

## Modules

| module | role |
|---|---|
| `Sched` | the scheduler's table and each of its operations |
| `SchedProperties` | what must be true of the table, and `Call`: the contract of its callers |
| `SchedCaller` | the scheduler under any caller that keeps the contract |
| `SchedProofs`, `SchedCallerProofs` | theorems about the table under the contract, and about `SchedCaller` |
| `ScheduleFile`, `ScheduleFileProofs` | how a schedule in text or JSON gets into the table, composed with `Sched`; theorems |
| `TorClient` | the client connections: state machine, commands, answers, what arrives |
| `Coordinator` | the main loop, composed with `Sched` and `TorClient` |
| `CoordinatorProperties` | its properties and the refinement mapping to `Campaign` |
| `CoordinatorProofs` | theorems about the main loop's bookkeeping, and what each operation on clients keeps |
| `CrewProofs` | theorems about the clients of a measurement: crews, handshake, slots, assertions; and that the coordinator implements `Campaign` |
| `Campaign` | the abstract specification: what the coordinator promises |
| `Descriptors`, `DescriptorsProofs` | `Coordinator` with descriptors, the lists given to epoll, and the client of an event; theorems |
| `V3bw`, `V3bwProofs` | the results of a round, written in pieces and read back, and the median; theorems |
| `Output`, `OutputProofs` | the files and symlinks of a round, with failures, crashes and restarts; theorems |
| `MCSched`, `MCScheduleFile`, `MCCoordinator`, `MCDescriptors`, `MCV3bw` | constants for TLC |

`Descriptors` composes `Coordinator` (hence `Sched` and `TorClient`) with the kernel's
table. `V3bw` and `Output` stand for themselves: they share with the others only the
moments when a line is written and when a round ends, and what they say holds whatever
the main loop does between these.

Definitions named "Mutant" in a comment are plausible mistakes in the code,
written down beside the definition they would replace; nothing uses them. They
show that each property can fail: with the mutant in place, TLC refutes it.

### Sched

A schedule file is a function from the measurements it lists to the sequence of
their dependencies; everything else a line says (relay, duration, hosts) belongs
to the coordinator's constants. `msm_state` is `Measurement.state`, with
`"Absent"` for ids that have no entry; `finished_depends` is the *length* of
`Measurement.finished_depends`, the only thing the code reads of it.
`failsafe_stop` is represented by the set `overdue` of running measurements whose
deadline has passed; `Expire` is the clock passing it. `sched_next(m)` may hand
out any ready measurement, since the order of the Rust hash map is random.
`Accepts` is the conjunction of the parser's panics that concern dependencies.
The table is never cleared: `sched_new` overwrites what the file lists and leaves
the rest.

### ScheduleFile

A line is the sequence of its words, as many as it has: missing words leave the
defaults of `new_from_string()`, and a word with commas is a sequence. `Parsed` holds the parser's
refusals that concern words and hosts, `Insertable` those of
`check_and_insert_measurements()`, and `Accepts` of `Sched` is used for the dependencies. The JSON reader is followed
set by set (`StartSet`, `SetEnds`) and relay by relay (`WriteLine`, in any order and with the
classes in any order, as a hash map gives them); `NoMeasurer` is its division by zero. It
always ends in a panic, which after a good file advises to use what was
printed as the input: `UsePrinted` is a new start that does so, then `Load` fills `Sched`'s table,
which is worked through. `Msms` bounds the lines that are written. `set_of` is history. `SetsInOrder` states the order exactly: an
empty set writes an empty last word, so that the set after it waits for nothing. That a
number in a line may not be one, saturation at the largest `u32` and names with blanks or
commas are not represented.

### TorClient

`state` and `current_m_id` are the fields of `ctrl_sock_meta`. `inbox` is what
the next `recv()` returns: `good` (bytes after which the buffer begins with the reply
that is waited for, or with the END marker in them once the measurement runs), `other`,
`eof`, `err`, or nothing. An
ended connection stays ended. `buf` is the good reply that the buffer of the answers may
still begin with. The functions that read answers are called from `main_loop_once()`
and have frames of the same size (as built by the Makefile, without optimisation), so
their buffers are one place on the stack, which nothing initialises. At the end of the
stream `recv()` returns 0, which the code does not test, and what is compared is what
that place held: `AnswersWell` takes an `eof` for a good answer only if the last good reply
read into it, by whichever client, is the one that is waited for. It may count as a
bad one then, too (`AnswersBadly`), because other calls use the same stack
in between. A bad answer is ended with a `'\0'`, and results overwrite the place unless
the piece is shorter than the 16 bytes their buffer begins below it. `nconn_of` and `bw_of` record which host slot of
the measurement a client was sent the connections and the bandwidth of.
`GoodStateChanges` is the table of `tc_change_state_()`; an action that would
break it leads to the label `aborted`. The state `failed` is never seen between
steps, because `tc_mark_failed()` is always followed by `tc_finished_with_meta()`.

### Coordinator

`pc` is the place in the loop; each action is one turn at that place:

| label | code | actions |
|---|---|---|
| `startup`, `finished` | 255-295, 606-613 | `Startup` |
| `top` | 296-304, 591-604 | `EnterLoop`, `Finish` |
| `watchdog` | 305-313 | `WatchdogFails`, `WatchdogDone` |
| `failsafe` | 314-327 | `FailsafeFails`, `FailsafePasses`, `FailsafeDone` |
| `start`, `connect`, `auth` | 328-369, 65-99 | `StartNext`, `StartNone`, `Connect`, `ConnectFails`, `ConnectDone`, `SendAuth`, `SendAuthFails` |
| `advance` | 370-478 | `TellConnect`, `SetBw`, `StartMeasuring` and their failures, `MeasurementDone`, `NothingToDo`, `AdvanceDone` |
| `poll` | 515-527 | `PollFails`, `PollReturns` |
| `events` | 528-581 | `Answered`, `ResultRead`, `AnswerFails`, `ResultFails`, `EventsDone` |

Connecting is one step per client, since it blocks and another may fail after it.
Sending one command to the clients of a measurement is one step: between two
sends the thread does nothing else, and what arrives meanwhile is not read. So a crew
that has been sent a command by half is not a state between two steps of the model. When
one of the sends fails, `HalfSent` is that state: the assertions on the way through
`measurement_failed()` are evaluated in it, for each client that may be the one (`SendFails`,
`SendAuthFails`), and then all the clients are released.
`HostFor` gives the slot that the code's nested loops over clients and slots give.
`Goto(ok, label)` goes on to `label` if the assertions on the way hold and to
`aborted` if not; from `aborted`, and from `panicked` after a refused schedule file,
there is only `Exited`.

The clients (`ClientWrites`) and the clock (`TimePasses`) act between any two
steps. A client file and the hosts of a measurement are the same in every round;
the schedule file may be another one each time.

Not represented: SIGPIPE (a send to a connection the peer has reset returns an error here,
where the default action of the signal would end the process), failing `malloc`
or `gettimeofday`. Descriptors are in `Descriptors`, the text of results in `V3bw`.

### Campaign

A measurement is waiting, recruiting, running or over. It begins when its
dependencies are over, recruits free clients of the classes it needs, runs once
its crew is complete, and succeeds when every client of the crew has reported; it may
fail at any time. The coordinator implements it under the mapping in
`CoordinatorProperties`: the crew is the set of clients whose `current_m_id` it
is, and it runs when one of them is measuring or done.

### Descriptors

Every step is one of `Coordinator`'s together with what it does to descriptors, or a step
`Coordinator` does not see: `TryFails(c)`, a client that `tc_next_available()` could not
connect to. `peer` is the kernel's table: which descriptors are open, and to which
client each is connected; a new one gets the lowest number that is free. `fd_of`,
`epoll_fd`, `out_fd` are variables of the program, `interesting` its four lists,
`registered` what epoll watches, `reported` what is left of the events returned.
`CloseReleased` closes the sockets of the clients that the step of `Coordinator`
releases; `Deleted` is `main_loop_end`, which every way back to the top goes through.
The client of an event is found from its descriptor (`meta_with_fd`), as in the code,
and `EventsReachTheirClient` says that it is the one `Coordinator` handles. Three
descriptors are opened at the start of a round (epoll, client file, schedule; the results
reuse the third), two at the end of it. The two branches for a descriptor that is not found
(`src/flashflow.c:530-533` and `578-580`) are not actions: the invariant shows that they
are never taken. `FdsIn` is one of the four lists, built by comparing the states of the clients.

### V3bw

A line of results is the relay it is about and the words after the four that the coordinator
puts before them. A client's line arrives whole (`WholeLine`, `Marker`) or in two pieces
(`CutLine`, `RestArrives`), cut within any word or beside any space, with lines
of other clients in between; `tc_output_result()` writes each piece as a line
of its own. A number is cut between its last two digits. `Accepted` are the tests of
`read_input_to_ht()` for the number of words, the two fixed words, the fingerprint and the two
numbers; `msm_info_init` and `msm_info_add` are the functions of these names, with
`Window` for 60. `heard` is history: the sums of the readings that were told in full,
a reading being told when both of its numbers are in one piece, together with what makes
the piece a line of nine words. Sums are natural numbers, the overflow of a `long` is not
modelled; nor are negative numbers or text that `strtol()` takes for a number.

### Output

`pc` is the place in the round, `base` the output (`msm`, then `v3bw`) that is being
written. A file has three properties: that it is of this round, how far it has come
(being written, whole, torn) and what it was made from (the results of this round,
those of an earlier one, or torn ones). `Open` takes the first free name, `Unlink`,
`Symlink` and `Fclose` are the calls of `rfd_close()` in their order. `fopen`, `unlink`,
`symlink` and `fclose` may fail; a failing `fprintf` does not occur in the model except through
`fclose`, which reports what was not flushed, so a line that could not be written while the file is
open, with a close that goes well, is not represented. The process may end anywhere (`Crash`) and is
started again by the next round, and somebody may remove old files that the symlink does not name
(`Remove`); without removals the names would run out. Calls on no file, after a failed `fopen()`,
end the process (`WriteCrashes`, `FcloseCrashes`), which is what glibc does with them.
`blind` and `failed` are history: that a symlink was made with no file opened, and which
calls failed in this round.

## Runs

| run | bounds | what it shows |
|---|---|---|
| `coordinator` | 2 measurements that share a measurer, 3 clients (two `m`, one `bg`), `MaxLoops = 1` | the safety of the loop and its crews under all interleavings |
| `rounds` | 4 measurements (a crew of two, dependencies, one with duration 0), 2 clients, 3 schedule files, one of them refused | host slots, counts, the contract with the scheduler and the refinement, from round to round |
| `liveness` | 2 measurements side by side on 2 clients | every measurement and every round ends |
| `sched` | all 109 schedule files accepted over 3 ids with at most 2 dependencies each, 2 rounds | the scheduler for every graph of that size, cycles and repetitions included |
| `descriptors` | 3 measurements (a crew of two, two that may run side by side) over 2 clients, 7 descriptors | numbers used again, events and their clients, epoll, and what is lost, until the process starves; with three measurements that compete for two clients, that the array stays within its allocation |
| `schedule_file` | 160 JSON files of up to three sets, four of them unsound, 12 texts; 7 connections to share, background traffic of 10 bytes | how a schedule gets into the table, and that the sets of a JSON file are measured in their order |
| `results` | 2 clients, 2 relays (one with a fingerprint that is not accepted), 4 seconds in and around a window of 4, at most 4 lines | what the table holds and the median, for every cut and every order of lines |
| `output` | 2 names for each output, all four calls may fail | what the symlinks name, over any number of rounds, crashes and restarts |
| `chosen_not_authed`, `eof_taken_for_answer`, `bg_prefix`, `sparse_relay` | small | disagreements between code and comments, messages or assertions, below |

`MaxLoops` is 10 in the code. With 1 the watchdog fires after the second poll
that brings nothing, which still separates "below", "at" and "above" the limit. Two
measurements are enough for every swap in `known_m_ids` that matters (removing
the last, and removing one that is replaced); with one of them holding two
clients every partial crew arises. The `sched` run is deadlock-free only up to
unsatisfiable files and `MaxLoads`, and `schedule_file` stops when a file is refused or worked through, so
deadlock is not checked there; in the others it is.

With 7 descriptors a run of `descriptors` loses up to five of them in up to five rounds, so that
each connection and each file gets several numbers; fewer would leave out
the reuse of a number by another client in a later round. In `results` the window of 4
seconds has a second inside it that nobody reports, one just behind it and one before
the first that was read; 35 is cut into 3 and 5 and could be taken for either; four lines
are enough for a line that is cut around one of another client. In `schedule_file` two measurers
cannot share 7 connections evenly, background traffic is at and one beyond each end of what rounds
to 10 bytes, and three sets have an empty one first, last and between two others. `output`
with two names has a round with a free name, a round with none, and removals between them.

**Fairness.** The thread keeps running (`WF_vars(Loop)`) and the clock passes the deadline of a
measurement that stays in progress (`WF_vars(TimePasses(m))`). Nothing is assumed
of the clients, and no failure is assumed to happen or not to happen. Under it every
measurement ends: a silent client is given up by the watchdog if nobody else
writes, by the failsafe otherwise. In `SchedCaller` and `ScheduleFile` the loop asks for measurements and those under way end, as
`EveryMeasurementEnds` shows. In `Output`, `WF_vars(Step)` says that the program goes on
with its calls, and is started again when it has ended; that calls stop failing, that
it stops crashing and that names are left is the premise of `Recovers`, not an assumption.

**Properties** are stated with a comment each in `CoordinatorProperties` and
`SchedCaller`; `PROJECT.json` lists the hazards of the code and which property is
there for which.

### Disagreements found

* `tc_next_available()` (`src/torclient.c:425-431`) says the client it returns has
  been authenticated to; it has been connected to (`ChosenAreAuthed`).
* `tc_authed_socket()` (`src/torclient.c:259-279`) says it returns true if the
  response is good. `recv()` returning 0 is not an error for it, and what it then
  compares is a stack buffer that may hold the good answer of the client handled just
  before. That is what the trace of the run shows: two clients of one batch of events, of
  which the first answers well and the second has hung up (`OnlyGoodAnswers`).
* `is_bg` is a prefix test on `bg` (`src/torclient.c:180`) while the schedule parser
  tests for equality (`src/sched/src/lib.rs:131-140`): class `bg2` with two
  connections is accepted, and the assertion at `src/torclient.c:291` ends the coordinator
  (`BackgroundHasOneConn`).
* `_v3bw_generate()` says "saw only %lus of data, so outputting min bw"
  (`src/v3bw.c:250-251`), but compares the span from the first second to the last: a relay
  with data for two seconds 25 apart gets the median of a span that is silence
  in between, 0, less than `MIN_BW` (`LittleDataGetsMinBw`). In the run the window has 5
  seconds and all are required.

Three more, that need no run to be seen: `README.txt:104-108` says that FlashFlow "is done" when
it has logged its counts, but `main()` starts the next round; as each round loses the
descriptor of the client file, the process ends in the end (`LossesAccounted`); and
the test for an open file in `rfd_close()` (`src/rotatefd.c:96`) is
always true, so that after a failed `fopen()` the symlink is moved to a file that does not exist,
which is the exception for `blind` in `LinkNamesFinished`.

## Proofs

The theorems hold for every set of measurements, every number of clients and every
set of schedule files, and for any number of rounds. They rest on the named
assumptions about the constants: `SchedAssumption` (measurement ids are positive
and finitely many, a file's lists are sequences of numbers), `TorClientAssumption`,
`CoordinatorAssumption` (what the parser checks of hosts), `ScheduleFileAssumption` (what a
JSON file is, and that a measurement needs connections) and, for `SchedCaller`,
`MaxLoadsAssumption`.

**The scheduler** (`SchedProofs`) is proved right under its contract, `KeepsContract`:
a file is loaded when the table is finished, and only what has been handed out is
reported done. `SchedInvariant` is the inductive invariant `SchedInv`. `FinishedExact`
alone is not inductive: that a new file starts with counters of 0 is right only
because its dependencies are all in the file (`DependsLoaded`) and thus all waiting,
and that a completed measurement is counted in the right entries only because it was
not complete before. `OnlyLoadedRuns` is what makes a ready measurement one of the
loaded file, whose counter is exact. `DependenciesFirst`: the list of a ready
measurement has as many places as complete members, so by `RangeCardinality` and
`FS_Subset` all its members are. `StuckMeansUnsatisfiable`: when nothing is ready and
nothing runs, the waiting measurements, if no list repeats one, each have a dependency
among themselves. `SchedCallerProofs` draws the consequences for `SchedCaller`.

**The main loop** (`CoordinatorProofs`). `CoordinatorInvariant` is the inductive
invariant `IInv`, the conjunction of

* `DataInv`: the types; a client is in use exactly when its socket is open, and only
  by a measurement that is under way; what is under way is what the scheduler has in
  progress; the array has no repetition; the counts are those of the complete
  measurements of the file. None of these is inductive alone: that a failed
  measurement leaves nothing behind needs the array to be free of repetitions, and
  that it is counted once needs the scheduler to have had it in progress;
* `PlaceInv`: what the place in the loop says of the loop's own variables - which
  places have a new measurement, that only at `events` there are events, and that
  they are current, that a round ends with the table finished.

Steps that end a measurement are handled by one lemma, `EndStep`, through `FailedStep`
for the eight ways to fail (`FailuresInv`) and `MeasurementDoneInv` for success; steps
that only touch clients by `ClientStep`; the others by `QuietStep`. The invariant is
kept by the step that fails an assertion, too, so it does not depend on
`NeverAborts`. From it follow `CoordinatorTypes`, `NobodyOrphaned`, `ArrayMatchesScheduler`,
`EventsStayCurrent`, `CountsExact`, `LoopsSkipNone` (by `RemovalSkipsNone`), and
`ContractKept`: the main loop keeps the scheduler's contract. With
`DependenciesFirst` that gives `CoordinatorDependencies`.

**The crews** (`CrewProofs`). `CrewInvariant` is `CrewInv`, inductive together with `IInv`:

* `Staffed`: the crew of a known measurement is `Matched` to its hosts - for each class it
  has as many clients as the measurement has hosts of that class. It is stated with
  counts because `find_and_connect_metas()` takes one client for each host in turn and
  fills the slots later, by counting again; while it is at work the counts are those of
  the hosts it is through with;
* `InStep`: a client that failed is never seen between two steps, and the clients of a
  measurement are in one stage of the handshake. A measurement leaves the first
  stage in the step that follows its connections, or ends, so each that is not the new
  one is past it: that is why the loop that
  advances measurements always finds one of its cases;
* `SlotsTold`: the slot a client was told of is the one `HostFor` computes from its rank
  among its crew. Both passes compute the same rank because the crew is the same
  from connection to end, so `SlotsToldOnce` needs no memory of the first pass;
* `Attended`: the measurements before index `i` of the loop have a client that is waited
  for; when the loop is through all have;
* `Sound`: no assertion has failed, if `BackgroundIsBg`.

`RankOnto`, by counting, says that each number below the size of a finite set is the rank
of one of its members: each slot therefore has a client, and `SlotsAssigned` makes the
bijection of `FullCrew` from it. `ArrayFits` follows: crews are disjoint and none is empty, so
choosing one of each is an injection of the array into the clients.

`NoAssertionFails` has a hypothesis, `BackgroundIsBg`: hosts whose class the client file
takes for background ask for one connection. The parser checks that for the class "bg"
only; without it the assertion does fail, which is the finding of the run `bg_prefix`. All other
theorems of this module hold without it: a process that aborts stays as it was.

**The refinement** (at the end of `CrewProofs`). `CampaignImplemented`: `ImplementsCampaign` is a
theorem. A measurement's phase in the campaign is computed from the scheduler's table
and from whether a client of it was told to start. `UnseenStep` collects the steps the campaign
does not see; those it sees are the beginning of a round, a measurement that is handed out,
a client that connects, the start of the clients of a measurement (with `InStep`, all were ready),
a client that is done, and the two ends. Most of what the campaign promises is a guard
there, and is proved from `IInv` and `CrewInv` at the step that has to meet it.

**Descriptors** (`DescriptorsProofs`). `DescriptorsInvariant` is `FdInv` with `KnownFits`, and with `IInv`
and `CrewInv` until the process is starved:

* `Handles`: a descriptor that is a client's is the one its client holds. Both directions are
  needed, the second for `close()` and for numbers used again at once;
* `Files`: which descriptors the process itself has open at each place;
* `Polled`: at `poll` the lists are those of the states, and at `events` every reported
  descriptor is still its client's. The handlers of events before it may have closed
  descriptors, but none that is still reported, because a failing client takes only
  its own measurement's clients with it and events are handled for a client once;
* `Counted`: what is open and nobody's is what was lost, a count that each step
  changes by the members it adds to or takes from one finite set.

`StepsAreTheCoordinators` says that every step here is a step of `Coordinator`, or the one
that ends a starved process; that is why its invariants can be used. It is about steps:
fairness is not claimed to be kept.

**Results** (`V3bwProofs`). `V3bwInvariant` is the conjunction of the types, of `WindowExact` and
of `LinesInv`: each line of the file, and each rest that is still to arrive, is accepted exactly when
it carries the reading it was written with, and then its two numbers are that reading. This is
what must be known of lines before they are read; it rests on the lemmas about cut
words, that the head of a cut line is accepted only when the cut is in its last word, and
its rest never. Reading one line then keeps `RelayExact` for its relay, in three
cases: the first line of the relay, one outside of the window, one inside. `WrittenIsMedian`
then says what `calc_median()` returns. `qsort()` is modelled as some order of the places
that does not decrease; `SortingExists` shows there is one, by giving each place as many
predecessors as there are smaller values, and equal ones before it. Of such an order the
middle is the upper median (`MiddleIsMedian`): the places before it hold all smaller values,
the places up to it none greater. `SpanMedian` carries that from the window, whose places
start at 0, to the span of seconds that `OutputIsMedian` speaks about.

**Outputs** (`OutputProofs`). `OutputInvariant` adds to the three safety properties
`HandleInv` (the only file being written is the one that is held), `FreshInv` (the only
file of this round in an output being written is the one that was opened),
`SourceInv` (what was read is this round's, or a call failed) and `LinkInv` (what the symlink
of the output being written is at each place). `FromThisRound` needs them all: the bandwidths
are those of the round because the symlink read names the file just closed, unless
`unlink()` failed, and nothing else is fresh.

**Schedules from files** (`ScheduleFileProofs`). The theorems are about files in JSON; for one in text
both properties are trivial. `ScheduleFileInvariant` is the inductive invariant, for a JSON file that has
been read the conjunction of

* `Lines`: the line at place `k` has the id `k`, waits for exactly the lines of the set before its own, for
  each once, and is one the parser accepts if the file is sound. The reader remembers one set of ids in a string; what that
  string and the next one list is `Remembered`;
* `Covered`: every set that has relays has a line, but for the one being read;
* `Table`: nothing before the file is loaded; then `SchedInv`, the dependencies of the lines, and
  `DependsOver`: what has been handed out has all it waits for behind it (by `ReadyMeansDone`).

The lemmas below it are about the conversions. A list of ids is read back without its zeros:
`PositiveKept` shows by a least counterexample (`LeastMember`) that a list which has none is kept.
`ConnsSum` adds up the connections of a line, again by a least counterexample, over the sets of places
the fold may still have before it; with `ClassPlaces`, `ConnsSuffice` follows: rounding up is enough for
every number of measurers, and background traffic gets the one connection on top. `WordsOfLine` finds the words of a line at
their places, with or without a seventh. `TextAccepted` collects what the parser and `sched_new()` ask for:
ids are unique, dependencies are lines of another set, something starts because the lines of the first set that
has any wait for none. So `SoundAccepted`, both at the advice and at the start that follows it.

`SetsAreInOrder` is a consequence of the invariant and not part of it. If a measurement were handed out
too early, take one of the lowest set. All lines of the set before are over; that set has a line, by `Covered`,
and it either is the set in question or its line was itself too early.

`MadeNeverStuck` is the part of `MadeScheduleFinishes` that is safety. By the invariant no list repeats
an id and every list is of a lower set, so a table made from JSON is never `Unsatisfiable`
(`MadeSatisfiable`): of measurements that wait for one another, one of the lowest set would wait for none of them. What
`StuckMeansUnsatisfiable` rests on, `WaitingForEachOther`, then gives something ready or under way.

**Only model-checked**: liveness under fairness (`EveryMeasurementEnds`,
`RoundEnds`, `SatisfiableFinishes`, `MadeScheduleFinishes` and those of the outputs), which is
beyond the prover.

## Not modelled

* `src/common.c`: names of states and descriptions of clients for the log.
* The words of the client file. Clients and their classes are constants of `TorClient`.
* The getters of the scheduler, which copy what the table holds into memory for C.
* Signals, memory, and the overflow of numbers (`3 * dur / 2` in 32 bits at
  `src/sched/src/lib.rs:58` overflows for durations above 45 years).

## Plan

Done: all the modules above, and proofs of every safety property the passing runs check.
What could be added are the parts of the liveness properties that are safety, as `MadeNeverStuck` is of
`MadeScheduleFinishes`: that `SchedCaller` has a call to make while a file that can be satisfied is
not finished, and that the main loop is never without a step between two rounds.
