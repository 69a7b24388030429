# Argus in TLA+

Argus is a small task runner: a server (`argus_server`) and a client (`argus`)
that talk over three named pipes in `/tmp/argus`.  This directory holds TLA+
models of its two programs, of the buffered writer they share, of the server's
vector of tasks, of the text of a command on its way and of the pipeline a task
becomes, TLC runs that check them on small instances, and theorems proved
with TLAPS.

All paths below are relative to the repository root; `server.c:239` is
`src/server.c`, line 239.

## 1. Inventory

| component | state | operations | how it interacts |
|---|---|---|---|
| named pipes (`include/argus_conf.h`, kernel) | ends held, processes blocked in `open`, queued bytes | open, read, write, close, fork | the only channel between the programs; a forked child inherits every end |
| server (`src/server.c`) | stage of start-up, `running_tasks`, `finished_tasks`, `total_tasks`, `line_buf`, two writers | start-up, read, one case per command letter, signal handler | reads `commands`; was meant to write `running_tasks` and `finished_tasks` |
| client (`src/client.c`) | mode, `commands_writter` | one mode per option, an interactive shell | writes `commands`, reads the two reply pipes to end of file |
| buffered writer (`src/buf_io/buf_writer.c`) | descriptor, buffer, position, capacity | write, write line, write char, flush, drop, close, replace | used by both programs for all they send |
| task vector (`src/task/task_vec.c`) | elements, length, capacity | push, insert, pop, search, remove, shrink | holds the server's tasks |
| number parser (`src/parse_size.c`) | none | two parsers, messages | ids and timeouts, in both programs |
| task execution (`server.c:276-333`) | the pipeline of one task | cut the command at bars and blanks, fork and exec each stage | runs in a child of the server |
| buffered reader (`src/buf_io/buf_reader.c`) | - | mostly stubs | used by neither program |
| console output (`include/comfy_io.h`) | none | `printf` macros | wording only |

What makes each one correct:

* **pipes, start-up** - the programs open three pipes with blocking opens; with a
  shell present the server must get through them, and a reader must be released
  when the writers are gone.
* **server** - its book of running tasks agrees with the processes it forked: ids
  are unique and ordered, an id names the process announced under it, no task is
  lost or signalled twice, a signal goes to the task that was named and to no stranger.
* **client** - a command is sent, the reply is read, the client ends.
* **buffered writer** - bytes leave in order, none is lost, an end (`bw_close`,
  `bw_drop`) means that all of them are in the file.
* **task vector** - a sequence, whatever its capacity does.
* **number parser** - the value of a decimal numeral, or the right refusal; the same
  number at both ends of the pipe.
* **task execution** - each stage gets the words that the user wrote for it, the stages
  are linked in order, each to the next, and run once, and a signal to the task reaches them all.

What is hard: two programs blocking on each other in `open`; several clients
writing to one pipe, with reads that cut the stream where they like; a child that
exists before it is the leader of its group; pipe ends that children inherit; a
server that ends in the middle and is started again; a buffer that is flushed and
keeps its content; writes that fail, are short or are longer than `PIPE_BUF`; strings
that are cut in place; children that go on as if they were their parent.  The `hazards` of `PROJECT.json`
list these at the lines where they bite.

## 2. Modules

| module | what it is |
|---|---|
| `Fifo` | operators: one named pipe of the kernel, as a record (external code) |
| `ArgusFifos` | the three pipes and the command lines in them, shared by both programs |
| `ArgusServer` | the server: one action per start-up step, read, command case, signal, and for the processes it forks |
| `ArgusClient` | the clients, one per invocation: opening, sending, typing, reading the reply, leaving, being interrupted |
| `Argus` | both together: `Spec`, `FairSpec`, the properties |
| `MCArgus` | instances for TLC |
| `ArgusProofs` | theorems about `Argus`: types, the server's books, what an end command does |
| `ArgusSendProofs` | that a command is dispatched at most twice |
| `BufWriter` | one buffered writer, one action per function |
| `ByteStream` | what a caller of a writer may rely on: an at-least-once stream |
| `MCBufWriter` | instances, and the refinement mapping from `BufWriter` to `ByteStream` |
| `BufWriterProofs` | theorems about `BufWriter` |
| `BufWriterRefines` | that `BufWriter` implements `ByteStream` |
| `TaskVec` | one vector of tasks: its allocation cell by cell, one action per function |
| `TaskSeq` | what a user of a vector sees: a sequence |
| `MCTaskVec` | instances, and the refinement mapping from `TaskVec` to `TaskSeq` |
| `TaskVecProofs` | theorems about `TaskVec`, and that it implements `TaskSeq` |
| `Characters` | the characters that the programs tell apart, and walks along a string |
| `ParseSize` | `parse_size` and `parse_size_slice`, one character at a time, and what a numeral means |
| `ClientInput` | operators: the line the client makes of an argument, the words of the shell, `find_cmd` |
| `TaskExec` | the pipeline of one task: cutting the command, forks, pipes, groups, `execv`, the signal |
| `CommandPath` | one command from user to task: `ClientInput`, `ParseSize` and `TaskExec` composed |
| `MCCommandPath` | instances for TLC |
| `TaskExecProofs` | theorems about `TaskExec`, and what its operators that cut a command return |
| `CommandPathProofs` | theorems about `CommandPath`: both parsers, the id on its way, the words of a stage, types |
| `CommandStream` | the `commands` pipe byte by byte, with a `BufWriter` in each client |
| `MCCommandStream` | instances for TLC |
| `CommandStreamProofs` | theorems about `CommandStream` |

Definitions whose names end in a description of a mistake and whose comment says
"Variant" (`RmOrdAtLate`, `SpillSkips`, ...) are not part of the models.  Each shows that
some property notices that mistake: with the variant in the place of the definition
after it, TLC finds the property violated.

### Server and pipes

* `spc` is the program counter of `main`: `"down"`, the name of the pipe whose `open`
  is in progress, `"loop"` (in `read`) or `"dispatch"` (a line was read).
* `running`, `total`, `line` are `running_tasks`, `total_tasks`, `line_buf`.  A command
  line is a record: who sent it, its letter, its id argument.  `line` is all that one
  `read` returned; only its first line selects a command.
* `procs[p]` is the state of the process forked as `p`: `"forked"` (before `setsid`),
  `"leader"`, `"zombie"` (ended, nobody waits for it), `"gone"` (reaped by init: when its
  server ends, or at once when it outlives that server, `EndedState`).  Pids are numbered in
  the order of the forks; `Forked` are those of the present server.
* `kill(-group)` succeeds exactly when the group exists: a child that has not yet called
  `setsid` has none, which sends the server into `return EXIT_FAILURE`
  (`EndTaskKillFails`).
* `=` binds weaker than `==` at `server.c:171` and `182`, so that both reply descriptors
  are 0.  The model keeps the real write ends open in the server and its children, and
  lets the writers go to descriptor 0, where a flush may succeed or fail.
* `parse_size_slice` hands `isdigit` a pointer (`parse_size.c:67`).  That is undefined:
  `EndTaskFault`, `EndTaskIgnored` and `EndTaskFound` are the outcomes.
* The signal handler reads the file-scope `running_tasks`, which `main` shadows
  (`server.c:218`): it is empty, no task is signalled, `SrvStop` just ends the server.
* Whatever ends the server has an action of its own: a signal from outside (`SrvStop`); an
  `open` or the set-up that fails (`SrvStartFails`), a `read` (`SrvReadFails`), a `fork`
  (`ExecTaskForkFails`), a `kill` (`EndTaskKillFails`) or a flush (`ListRunningFails`); a full
  read, whose terminator is stored behind `line_buf` (`SrvReadOverruns`); memory that
  runs out in `tvec_push`, after the fork (`ExecTaskPushFails`); and the look-up of
  `isdigit` (`EndTaskFault`).

### Clients

* `wbuf` holds the lines in `commands_writter`.  `bw_flush` leaves them there, so that
  the exit handler (`Leave`) sends them all once more.
* `is_empty_str` has lost its `return`: `IsEmptyStr` is `TRUE`, and the shell turns away
  every command with an argument.
* A write to a pipe without readers ends the client (`Flush`, `Leave`: SIGPIPE).
* `ClientInterrupted` is a signal from outside, at any moment: exit handlers do not run.

### Buffered writer

Bytes are numbered in the order in which they are accepted, so a byte is its place in the
stream.  A `Plan` is what a call writes to the file and what it leaves in the buffer; each
function has one, with the case distinctions of its code.  `Accept` carries it out; `Fails`
is a call whose write returns -1, after which nothing has changed.  `st = "overrun"` is
the state after a store behind the end of the buffer, from where the model does not go on.
`MayBeShort` lets a write take only a part of what it is given; the code does not look.

### Task vector

`mem` is the allocation that `buf` points to (`<<>>` for NULL), with `Garbage` in the cells
`malloc` and `realloc` leave uninitialised; `len` and `cap` are the fields of those names.
A task has an id and a group; its name is a pointer that the vector only copies.  Indices
count from 1.  `st` is `"ok"` until the vector is dropped, or a call has stored outside of
the allocation (`"broken"`), has shrunk it below its length (`"cut"`), or has freed the
buffer and kept it (`"dangling"`: glibc's `realloc` to 0 bytes returns NULL).  The model
does not go on from there.  `use` is how the program uses the vector, chosen at the start: the
capacity it makes it with, the capacities it shrinks it to, and whether memory may run out.

* The retries of `tvec_push` and `tvec_insert_at` ask for the same size each time, since
  `additional_cap <= self->cap` always holds when a size overflows; the five attempts are
  one step that succeeds, is refused (`AddRefused`) or fails (`AddNoMemory`).
* `MaxCap` stands for the number of tasks whose size in bytes still is a `size_t`.
* `tvec_shrink_to` shrinks to the *smaller* of length and request, as its doc says, which
  may cut live tasks off.

### The text of a command

* Both parsers walk along their string one character at a time (`at`), with a size of a few
  bits (`MaxSize`): `ppc` is the loop they are in.  `Meaning` says of a whole string what it is, from
  the places where its number begins and ends and from the value of its digits without any
  limit, in the words of `parse_size.h`; `ParsesNumerals` compares the two, for `parse_size` and
  strings that are not all blanks.  For all other calls the code departs from its doc
(see "Where the code departs from its docs").  That this value (`ValueOf`) is the sum of the digits,
  each at its place, is an `ASSUME` of `MCCommandPath`, which TLC evaluates.
* `parse_size.c:67` passes a pointer to `isdigit`.  For the first character of a slice the
  answer is therefore free, or a crash (`FirstDigit`, `FirstInvalid`, `FirstFaults`); `Misjudged`
  are the calls in which it matters, and `SameIdAtBothEnds` excuses them: it is about what the
  text and the rest of the read do to a number, once `isdigit` has answered as it should.
* `parse_size` finds the end of an empty string to be an invalid character; it never
  returns the "no digits" that `parse_size.h:34-35` announces (`NothingThere`).
* The client sends the number as the user wrote it, and the server parses it again, with
  the other function and up to the end of the read.  `SameIdAtBothEnds` relates the two.
* `Names` are the shell's commands in the order in which `find_cmd` compares them, short but
  with the same common beginnings; `FindCmd` takes the first that the word begins.  Every argument given in the shell is turned away
  (`is_empty_str`), so the three calls of `parse_size_slice` behind it are unreachable there
  and left out: the server's call is the one there is.

### Task execution

* `cells` is a process's own copy of `cmd_start`, `args` the places its `argv` points to.
  `strtok` at the bars is done at once (`AtBars`): nobody else reads the cells in between.
* The loop that fills `argv` (`server.c:300-307`) stops at a terminator only if it has stepped
  onto it from another gap.  Behind a stage that ends in a blank it does stop; the blank in
  front of every later stage gives an empty entry, which takes the place of the terminator of `argv`
  that the comment at `server.c:307` shows.  What does hold, of commands as the
  comment at `server.c:275` writes them, is `WordsReachTheirStage`: every word is in the `argv` of its own
  stage and ends where it should.
* The output of the supervisor is redirected *after* each fork: the first stage writes where
  the server does and every later stage writes into the pipe of the stage before it, so that
  data flows backwards, against the order in which `client.c:221` writes the tasks.  Whichever way it
  flows, `LinksNeighbours` says that nothing is skipped.  `PipelineAsDocumented` puts together what the two
  comments promise of two stages that are joined, and fails (run `pipeline`).
* `execv` runs `cmd_start`, the first word, in every stage.
* A child whose `execv` returns goes on with the loop as one more supervisor (`ExecFails`).
* `procs_end` counts bytes as elements, so that a supervisor may break down at any time and
  never gets past its loop (`SupEnds`).
* SIGTERM reaches the members of the supervisor's group, which are the supervisor and the
  children that have not yet called `setsid` (`Kill`).

### The stream of commands

* Each client calls its writer as `write_cmd` does and leaves through `bw_drop`; what the
  writer's plan emits is one write in progress (`pending`).  The pipe takes a write of up to
  `PipeBuf` bytes whole (`atomic`) and cuts a longer one, down to its last byte (`Pieces`), which is
  what pipe(7) says.
* A read returns what is there, up to the size of `line_buf`.  The terminator behind a full
  read is stored behind the array: from then on the server may end (`BreaksDown`), and clients
  that still write are killed.
* Nobody else holds the read end here; children that do keep a pipe alive are in `Argus`.

### Abstractions

* In `Argus` a flush writes its lines in one step and whole, and a read takes as many whole
  lines as fit (`ReadMax`).  `CommandStream` shows how far that is so: for commands of at most
  `PIPE_BUF` bytes, as long as no read is full; for others it is not so.  Longer commands and a full pipe are in `CommandStream` only.  `ReadMax` lines
  stand for a full `line_buf`; they need not fill it to the last byte, so that the overrun is an
  action that may be taken or not.
* `mkdir` and the three `mkfifo` are one step; so are the flush, the closes and the exit
  of a client.  Nothing another process can see lies between them, except that a
  command may be read before its sender is gone.
* In `Argus` what a supervisor does between `setsid` and its end is one step (`TaskExec` has
  its steps); while it lives it holds the pipe ends it inherited.  Stages hold none: the
  named pipes are opened with `O_CLOEXEC`.  It does not
  send out the listing it inherited: descriptor 0 is nobody's pipe.
* After `bw_drop` a writer is not used again.
* A `mkdir` or `mkfifo` that fails ends the server before it has opened anything, and a `malloc`
  that fails ends a client before it has sent anything; they are not modelled.

## 3. Runs

Server and clients.  Every run has a shell among its clients, since a server gets past its
start-up only when somebody opens both reply pipes.  Deadlock is not checked: a server
blocked in `open` or `read` with all clients gone is a normal end.

| run | scenarios | checks |
|---|---|---|
| `commands` | shell, `-e`, `-t` or `-l`: 2 starts, 1 stop; shell, `-e`, `-l`: 1 start, 1 stop, 1 typed line; shell, two `-e`, `-t`: 1 start | `TypeOK`, `AtMostTwice`, `NoGroupIsReused`, `RunningOrdered`, `IdNamesItsProcess`, `NoTaskForgotten`, `EndsTheTaskNamed` |
| `progress` | shell, `-e`, `-l`: 1 start, 1 stop, 1 typed line | `ShellBringsServerUp`, `SentIsRead`, `ReadersReleased`, under fairness |

A scenario (`Scenarios`, `MCArgus`) says which clients are started, what for, and how often the
server may be started, stopped from outside and a shell may type a line; the initial state picks one.
`boots`, `stops` and `typed` are what is left of these bounds.  Two lines are read at once (`ReadMax`).

Since each command is sent twice, two `-e` clients start up to four tasks: the last scenario of
`commands` removes from the front, the middle and the end of a vector of up to four entries, and ids run
ahead of positions.  Two lines a read is the least at which lines are coalesced, and at which
the queue may be longer than a read.  Two starts let processes of the first server outlive
it into the second; the failures that end a server are bounded only by the number of
starts.  The shell types any command; the timeouts and the list of finished
tasks come from there.  `progress` leaves out `-t`, whose undefined outcomes may end the
server at any time and so only make its properties easier.  `commands` takes two states for one that
differ in which of the second and the third client is which: what a client is for is part of the state,
and neither the actions nor the invariants name a client.

Buffered writer (`stream`): capacities 2 and 3, calls of 0 to 4 bytes, 6 bytes
accepted and 8 written.  At these sizes a call can be empty, fit, fill the buffer
exactly, spill over it and be larger than it, each with an empty, a partly filled and a
full buffer, and there is room for a second call of any kind after it.  It checks
`TypeOK`, `BufferIsTail`, `NothingLost`, `InOrder`, `EndsFlushed`, `OverrunOnlyOfFull`, and that the
writer implements `ByteStream`.  `OverrunOnlyOfFull` says when a byte is
stored behind the buffer: only the newline of a line exactly as long as the capacity that
finds the buffer full, and by one byte.

Task vector (`vector`): initial capacities 0 to 3, which include the one that growth by
half does not enlarge, room for 6 tasks, so that a vector grows twice or three times (0, 2, 3,
4, 6) before a size overflows, two ids, so that ids repeat.  These vectors are shrunk to any capacity up
to 3, and memory may run out.  Besides there are vectors as argus uses its own: never shrunk, with memory to
be had, made with capacity 0, or 2 or 3.  The 10 632 states have a vector at each
length and capacity with each arrangement of ids, and every call is made at every place of it.  The run
checks `TypeOK`, `LiveCells`, and that the vector implements `TaskSeq`, which speak of a
vector that is intact (`st = "ok"`), and `NeverBroken`: used as argus does, no vector stores outside of its
allocation.

The text of a command (`path`): every number of up to 4 characters over four digits, a blank, a
minus and a letter, with sizes of 4 bits, so that numerals overflow in the multiplication, in
the addition or not, by one or by far, with something behind them or not; every task of up to 3
characters over a letter, a blank and a bar, and three longer ones with up to three stages,
as the comment at `server.c:275` writes them; shell lines with every beginning of every name.  Each
is read alone or with another client's line behind it.  One `execv` may return, and the task
may be ended at any moment.  Longer numbers repeat the loop that a third digit already
repeats; a third stage is the first that has one before and one behind it.  The run
checks `TypeOK`, `ParsesNumerals`, `SameIdAtBothEnds`, `WordsReachTheirStage`, `LinksNeighbours`,
`StageRepeatedByFailuresOnly`, and `SupervisorsEnd` under fairness.

The stream (`bytes`): two clients, a buffer and `line_buf` of 6 bytes, `PIPE_BUF` 4, a pipe of 8.
One client has an argument of 1 byte, a command of `PIPE_BUF` bytes, the other one of 0, 1, 2, 4, 5 or
7 bytes: commands that are written whole, buffered and then cut by the
pipe, fill the buffer without the newline, spill over it, or go around it.  Two
commands do not fit into the pipe together, so that a client waits for room.  It checks `TypeOK`,
`LinesWhole`, `ReadsWholeLines`, and `ClientsEnd` under fairness.  The two invariants are about
commands of up to `PIPE_BUF` bytes, and `ReadsWholeLines` about reads that are not full; longer commands may be
mixed, and a full read has no room for its terminator.

What a doc or a comment says and a run refutes (`findings` in `PROJECT.json`):

| run | what it shows |
|---|---|
| `twice` | one invocation with `-e` is dispatched twice |
| `coalesced` | a read returns the lines of two writes; all but the first are dropped |
| `names` | every entry of a listing shows the text of the current line |
| `answered` | a client that asks a serving server for a list waits for ever |
| `pipeline` | what a stage writes is read by the stage *before* it, and the `argv` of a later stage has an empty entry in the place of its NULL |
| `ended` | a command that ends a task does not reach its stages |

The cause of `twice`, a flush that keeps its bytes in the buffer (`buf_writer.c:22-47`), also
makes the count of bytes that "haven't yet been flushed" wrong.

### Where the code departs from its docs

Besides those findings the models contain, as the code has them, departures for which there is no
run: each is to be seen in one definition, and the properties say where they stop.

* `parse_size` returns INV_CHAR for blanks alone and for the empty string, where `parse_size.h:34-35`
  says NO_DIGITS (`NothingThere`; left out of `ParsesNumerals`).
* `parse_size_slice` may refuse a number, take a word for one or crash (`parse_size.c:67`,
  `Misjudged`), where `parse_size.h:63-71` describes one outcome for each string.
* `tvec_push` and `tvec_insert_at` store through NULL when every reallocation fails (`AddNoMemory`), where
  `task_vec.h:223-224` says that false is returned, and behind the end of a full vector of capacity 1
  (`Grown`).  Both are conditions of `NeverBroken`.
* A shrink of an empty vector frees its buffer and returns false, where `task_vec.h:101-102` and `113-114` say
  that the vector is left unchanged (`Resize`, `st = "dangling"`).
* A `write` that transfers less than it was given loses the rest, and the call returns `BW_OK` (`MayBeShort`).
* The shell refuses each command with an argument, a task behind `executar` included, and says "Expected a
  task to execute." (`client.c:382`, `IsEmptyStr`).
* An end command for a task whose process has not called `setsid` yet ends the server (`EndTaskKillFails`).
* A read that fills `line_buf` stores its terminator behind it (`SrvReadOverruns`, `BreaksDown`), and a command
  longer than `PIPE_BUF` may be mixed with others (`Pieces`), where the comment at `server.c:275` shows one whole
  command with its end.

### Fairness

`FairSpec` assumes weak fairness of each step a process takes on its own: of the server's
(`ServerStep`), of each client's (`ClientStep(c)`), and of the forked processes taken
together (`ChildStep`).  The kernel schedules each process that can run, and a blocking
call returns once its condition holds.  There is none for what a user decides (starting or
stopping the server, starting, typing into, quitting or interrupting a client), none for a client's first
`open`, and none for the spin of the server on end of file.  That a task ends some
day is an assumption about the task: in this code the supervisor always does, since it
runs past the end of its array of stages (`SupervisorsEnd`).

`CommandPath` assumes weak fairness of the supervisors' steps (`SupStep`): none of them blocks.
`CommandStream` assumes it of the server's `Read`, which is all its loop does
there, and of each client's steps, which wait for nothing but room in the pipe.

## 4. Proofs

`ArgusProofs`, for every set of clients, every `ReadMax` above 0 and all scenarios:

* `TypeCorrect` - `TypeOK` is inductive as it stands.  Among the types is one fact that
  matters: a dispatch never starts with an empty `line_buf`.
* `OrderCorrect`, `IdsCorrect`, `GroupsCorrect`, `NothingForgotten` - `RunningOrdered`,
  `IdNamesItsProcess`, `NoGroupIsReused`, `NoTaskForgotten` from one invariant, `Bookkeeping`, which is
  inductive together with `TypeOK`.  The four are not inductive on their own: `RunningOrdered` needs the books
  to be empty while no server runs; `IdNamesItsProcess` needs pids and ids to advance
  together, and then gives `NoTaskForgotten` that a removed entry's process occurs nowhere
  else; `NoGroupIsReused` needs that the present server's own children are not reaped
  while it lives.
* `EndsCorrect` - the action property `EndsTheTaskNamed`, from the same invariant: the entry that a
  search by id finds is that of the process forked under it (`IdNamesItsProcess`), which is one of
  the present server's (`GroupIsOwn`), and taking entry i off the list takes the process at i, and it
  alone, off the set of the recorded ones (`RmOrdAtRecorded`), since no process is recorded twice.

`ArgusSendProofs`, on the same assumptions:

* `DispatchedAtMostTwice` - `AtMostTwice`.  The count of dispatches alone is not inductive.
  The invariant `SendInv` adds the lines of a client that are still in the pipe: dispatched and
  queued together (`Said`) are 0 before its flush, at most 1 between the flush and its exit,
  at most 2 after it, and its buffer holds that one line.  Lemmas on the lines of one client in a
  sequence (`OfConcat`, `OfRest`) say what a flush adds and what a read takes; no other
  step adds to what was said, though the queue may be lost when the last end is closed.

`BufWriterProofs`, for all capacities and bounds:

* `TailCorrect` - the types, and that the buffer is the last part of the stream.
  The stream is cut into pieces (`Piece(a, b)`: the bytes after `a` up to `b`); lemmas join and
  split pieces, and each function's plan is shown to write a piece that starts where the
  buffer starts and to keep a piece that ends where the stream ends, with no gap between
  (`GoodPlan`).
* `NothingIsLost`, `EndsAreFlushed` - under the assumption `MayBeShort = FALSE`.  It is
  needed: with `MayBeShort = TRUE` the code takes a short write for a whole one, and TLC
  finds `NothingLost` violated by one large `bw_write`.
* `OrderCorrect` - `InOrder`, under the same assumption.
* `OverrunCorrect` - `OverrunOnlyOfFull`, whatever the writes do.
* `WriterImplementsStream` (in `BufWriterRefines`) - `ImplementsStream`, with `MayBeShort = FALSE`.
  `High` is a maximum, so the invariant says that there is one (`Topped`): some byte that left the
  writer is the last to have done so, and was accepted.  What a call sends starts where
  the buffer starts, and everything below has left already (`BaseReached`), so the run it
  adds begins no later than the first byte not sent yet; a buffer thrown away raises
  `High` to the last byte accepted.

`TaskExecProofs`, for every command and every number of failing calls of `execv`:

* `PipelineCorrect` - `LinksNeighbours` in every behaviour of `CommandPath`.  Its invariant speaks of
  *every* process, not only of the running stages.  `PipelineInv`: which pipe it reads
  (`ReadsItsPipe`), and that whoever has the write end of a stage's pipe as its output, supervisor,
  child or stage, is further on in the command than that stage (`WritersAreAhead`).  `GapInv`: the
  `execv` of every stage between the two has returned.  A fork makes no gap, since the supervisor
  goes on one stage behind the child it leaves its old output to; a child that becomes a supervisor
  steps over its own stage, which is then one that has failed, and failures stay (`FailureAdded`).
* `RepeatsCorrect` - `StageRepeatedByFailuresOnly`.  Counting the running stages is not inductive:
  a supervisor may still fork the stage once more.  `RepeatInv` counts, for *every* number n, all
  who run stage n, are about to, or will come to it (`Due`): they are at most one more than the
  `execv` before n that have returned (`FailsBefore`).  A fork keeps that number, since the supervisor
  goes on behind the stage it has handed over; a returned `execv` makes a child due for the later
  stages, and counts for each of them.

`CommandPathProofs`, for every text, every width of a `size_t`, and whatever other lines come with it:

* `ParsersCorrect` - `ParsesNumerals`, for `parse_size` and strings that are not all blanks; of
  `parse_size_slice` and of blanks the code does not keep what its doc says.  `MeaningInv` says loop by loop where the parser is between the
  marks of the string (`NumberStart`, `NumberEnd`, `Rear`) and that `*size` is the value as far as it
  has come.  Two facts need an induction: that a function with the recursion of `ValueOf` exists, and that a
  value never shrinks as digits follow, so that what overflows half way overflows as a whole.  Both go
  through the smallest counterexample (`MinExists`, itself proved by counting).
* `IdsAgree` - `SameIdAtBothEnds`.  The client's parser leaves behind a trace of the value digit by digit
  (`Numeral`); the invariant keeps *that there is one* from the client's call through the line and
  the read to the server's call, whose other parser then runs along it (`AtPlace`), up to the
  end of the read.
* `ArgvCorrect` - `WordsReachTheirStage`.  All copies of the command are cut at other places, depending on who
  forked whom.  `ArgvInv` needs little about them: a supervisor has the command from its next stage
  on as it was before any word was cut (`Uncut`), and so has a child, which may become one.  `StageIs`,
  `ArgsAreWords` and `WordsAreCut` say what one turn of the loops does to such a copy, `StagesInOrder`
  that it never reaches into the next stage.
* `PathTypeCorrect` - `TypeOK`.  `PathTypes` adds that every copy of the command keeps its length and
  ends in a gap (`EndsInGap`), where the loop that fills `argv` stops at the latest.

`CommandStreamProofs`, for any number of clients, all arguments and sizes:

* `TypeCorrect`, `LinesStayWhole`, `ReadsCorrect` - `TypeOK`, `LinesWhole` and `ReadsWholeLines` from one
  invariant, `StreamInv`.  Of every byte of a short command in the pipe it says that its neighbours are
  there on both sides (`Forwards`, `Backwards`), but for the first byte of the pipe; of a short command in
  its client that all of it is pending or nothing (`PendingOK`), since its buffer held all of it
  (`WriterOK`); and that the pipe begins with a whole command while reads are not full (`BeginsWhole`).

`TaskVecProofs`, for all capacities, sets of tasks and bounds:

* `TypeCorrect`, `CellsAreLive` - `TypeOK` and `LiveCells` are inductive together; each
  kind of change (store, shorten, resize) has a lemma, which the functions built on it share.
* `NeverBrokenWithMemory` - `NeverBroken`: with memory to be had, a vector not made with capacity 1 and
  not shrunk never stores outside of its allocation.  The last two conditions hold of argus, which makes
  its vectors with `tvec_new` (`server.c:219-221`) and never shrinks them.  The invariant is that
  its capacity is never 1: growth by half skips it.
* `VecImplementsSeq` - `ImplementsSeq`.  Function by function, the cells
  after the store and the `memmove` are compared one by one with `InsertAt`, `RemoveAt` and
  the replacement that the sequence makes; `LiveCells` says that the cells compared exist.

The assumptions are those of the modules, among them: `ReadMaxAssumption`, `ScenariosAssumption`,
`CapsAssumption` (a capacity is not 0, as the asserts of `buf_writer.c` demand),
`MaxWriteAssumption`, `UsesAssumption`.  Pids never wrap round: a pid is a number of its own.

Those of the text of a command:

* `ParseAssumption`, `CharactersAssumption`: digits have codes from 0 to 9, and the characters that the
  programs tell apart are different ones.
* `PathAssumption`: what else a read returns is nothing or whole lines, as `write_cmd` makes them
  (`client.c:64-100`); commands that do not stay whole are those of `CommandStream`.  No letter of a command is
  a digit or a blank (`argus_conf.h`).
* `NamesAssumption`: the shell's commands have names that are not empty.
* `SizesAssumption`: `PIPE_BUF` fits into the buffer and into the pipe, and a buffer has room for more than
  the letter and the blank of a command: `DEFAULT_CAP` is 8192 bytes, `PIPE_BUF` 4096 on Linux, a pipe holds
  at least that.
* `ExecAssumption`: the bound on the failures of `execv` is a number.

Each invariant and each action property that a passing run checks is a theorem;
`NothingLost`, `EndsFlushed`, `InOrder` and `ImplementsStream` under the assumption said above, which
their run makes too.  Only model-checked
are the liveness properties (`ShellBringsServerUp`, `SentIsRead`, `ReadersReleased`, `SupervisorsEnd`,
`ClientsEnd`), which are out of the prover's reach, and the equality of `ValueOf` with the sum of
place values, since the prover does not know powers.

## 5. Not modelled, and the plan

Not modelled: `buf_reader.c` (unused, stubs), `comfy_io.h` (wording), the accessors of the writer and
the vector, messages.  Timeouts are accepted and ignored by the server, and are modelled as
that.  The signal handler's use of library calls (`server.c:117-124`) would need a model of
the heap and of stdio.

What is left:

1. A refinement that shows the steps of `TaskExec` to implement the one step that a
   supervisor takes in `Argus`, and `CommandStream` the queue of `ArgusFifos` for short commands.
2. Properties for the hazards that have none yet (see `hazards` in `PROJECT.json`).
