---------------------------- MODULE ArgusProofs -----------------------------
(***************************************************************************)
(* Proofs about Argus, for any number of clients, any commands, any        *)
(* buffer size and any number of restarts.  First the types, then what the *)
(* server knows of its tasks.                                              *)
(***************************************************************************)
EXTENDS Argus, TLAPS

-----------------------------------------------------------------------------
(* Lemmas on the pipes: the operators of Fifo keep the type of a pipe.     *)

Pipe == [readers : SUBSET Processes, writers : SUBSET Processes,
         opening : SUBSET Processes, data : Seq(Lines)]

LEMMA OpenForReadType ==
    ASSUME NEW f \in Pipe, NEW p \in Processes
    PROVE  OpenForRead(f, p) \in Pipe
BY DEF OpenForRead, Pipe

LEMMA OpenForWriteType ==
    ASSUME NEW f \in Pipe, NEW p \in Processes
    PROVE  OpenForWrite(f, p) \in Pipe
BY DEF OpenForWrite, Pipe

LEMMA CloseType ==
    ASSUME NEW f \in Pipe, NEW p
    PROVE  Close(f, p) \in Pipe
<1>1. /\ f.readers \in SUBSET Processes /\ f.writers \in SUBSET Processes
      /\ f.opening \in SUBSET Processes /\ f.data \in Seq(Lines)
  BY DEF Pipe
<1>2. <<>> \in Seq(Lines)
  OBVIOUS
<1> QED
  BY <1>1, <1>2 DEF Close, Pipe

LEMMA InheritType ==
    ASSUME NEW f \in Pipe, NEW p, NEW q \in Processes
    PROVE  Inherit(f, p, q) \in Pipe
BY DEF Inherit, Pipe

LEMMA PutType ==
    ASSUME NEW f \in Pipe, NEW s \in Seq(Lines)
    PROVE  Put(f, s) \in Pipe
<1>1. f.data \in Seq(Lines)
  BY DEF Pipe
<1>2. f.data \o s \in Seq(Lines)
  BY <1>1
<1> QED
  BY <1>2 DEF Put, Pipe

LEMMA DropType ==
    ASSUME NEW f \in Pipe, NEW k \in Nat
    PROVE  Drop(f, k) \in Pipe
<1>1. f.data \in Seq(Lines)
  BY DEF Pipe
<1>2. SubSeq(f.data, k + 1, Len(f.data)) \in Seq(Lines)
  BY <1>1
<1> QED
  BY <1>2 DEF Drop, Pipe

(* What follows of the type of the variable that holds the pipes.          *)
LEMMA FifoTyped == FifoType <=> made \in BOOLEAN /\ fifo \in [FifoNames -> Pipe]
BY DEF FifoType, Pipe

LEMMA WithoutProcessType ==
    ASSUME FifoType, NEW p
    PROVE  WithoutProcess(p) \in [FifoNames -> Pipe]
BY FifoTyped, CloseType DEF WithoutProcess

LEMMA WithForkType ==
    ASSUME FifoType, NEW p, NEW q \in Processes
    PROVE  WithFork(p, q) \in [FifoNames -> Pipe]
BY FifoTyped, InheritType DEF WithFork

(* Changing one pipe.                                                      *)
LEMMA OnePipeType ==
    ASSUME FifoType, NEW f \in FifoNames, NEW x \in Pipe
    PROVE  [fifo EXCEPT ![f] = x] \in [FifoNames -> Pipe]
BY FifoTyped

LEMMA ServerOpenType ==
    ASSUME FifoType, NEW f \in FifoNames
    PROVE  [fifo EXCEPT ![f] = ServerOpen(f)] \in [FifoNames -> Pipe]
<1>1. Server \in Processes
  BY DEF Processes
<1>2. fifo[f] \in Pipe
  BY FifoTyped
<1>3. ServerOpen(f) \in Pipe
  BY <1>1, <1>2, OpenForReadType, OpenForWriteType DEF ServerOpen
<1> QED
  BY <1>3, OnePipeType

LEMMA FifoNamesHave ==
    /\ "commands" \in FifoNames /\ "running" \in FifoNames /\ "finished" \in FifoNames
    /\ "down" \notin FifoNames /\ "loop" \notin FifoNames /\ "dispatch" \notin FifoNames
BY DEF FifoNames

(* A non-empty queue of lines begins with one.                             *)
LEMMA HeadIsLine ==
    ASSUME NEW s \in Seq(Lines), s # <<>>
    PROVE  Head(s) \in Lines
OBVIOUS

(* A function on 1..n is a sequence of length n, and conversely.           *)
LEMMA SeqOfFunction ==
    ASSUME NEW S, NEW n \in Nat, NEW f \in [1..n -> S]
    PROVE  f \in Seq(S) /\ Len(f) = n
OBVIOUS

LEMMA FunctionOfSeq ==
    ASSUME NEW S, NEW s \in Seq(S)
    PROVE  Len(s) \in Nat /\ DOMAIN s = 1..Len(s) /\ s \in [1..Len(s) -> S]
OBVIOUS

-----------------------------------------------------------------------------
(* Types: the steps of the server.                                         *)

LEMMA EndsWithType ==
    ASSUME TypeOK, stops' \in Nat,
           NEW pipes \in [FifoNames -> Pipe], NEW children \in Seq(ProcStates),
           EndsWith(pipes, children)
    PROVE  FifoType' /\ ServerType'
<1> USE DEF TypeOK
<1>1. FifoType'
  <2>1. \A f \in FifoNames : Close(pipes[f], Server) \in Pipe
    BY CloseType
  <2> QED
    BY <2>1, FifoTyped DEF EndsWith, FifoType, Pipe
<1>2. procs' \in Seq(ProcStates)
  <2>1. /\ children \in [1..Len(children) -> ProcStates] /\ Len(children) \in Nat
        /\ DOMAIN children = 1..Len(children)
    BY FunctionOfSeq
  <2>2. procs' \in [1..Len(children) -> ProcStates]
    BY <2>1 DEF EndsWith, ProcStates
  <2> QED
    BY <2>1, <2>2, SeqOfFunction
<1>3. /\ running' \in Seq(Tasks) /\ total' \in Nat
      /\ line' \in Seq(Lines)
      /\ listing' \in Seq([id : Nat, name : Lines])
      /\ shown' \in Seq([id : Nat, name : Lines])
  BY DEF EndsWith
<1> QED
  BY <1>1, <1>2, <1>3 DEF EndsWith, ServerType

LEMMA ServerEndsType ==
    ASSUME TypeOK, ServerEnds, stops' \in Nat
    PROVE  FifoType' /\ ServerType'
BY EndsWithType, FifoTyped DEF ServerEnds, TypeOK, ServerType

LEMMA SrvBootType ==
    ASSUME TypeOK, SrvBoot
    PROVE  FifoType' /\ ServerType'
<1> USE DEF TypeOK
<1>1. FifoType'
  BY ServerOpenType, FifoTyped, FifoNamesHave DEF SrvBoot, OpenOrder, FifoType, Pipe
<1> QED
  BY <1>1, FifoNamesHave DEF SrvBoot, OpenOrder, ServerType, taskVars, listVars

LEMMA SrvOpenedType ==
    ASSUME TypeOK, SrvOpened
    PROVE  FifoType' /\ ServerType'
<1> USE DEF TypeOK
<1>1. NextStage(spc) \in FifoNames \cup {"loop"}
  BY FifoNamesHave DEF NextStage, OpenOrder
<1>2. FifoType'
  <2>1. CASE NextStage(spc) \in FifoNames
    BY <2>1, ServerOpenType, FifoTyped DEF SrvOpened, FifoType, Pipe
  <2>2. CASE NextStage(spc) \notin FifoNames
    BY <2>2 DEF SrvOpened, FifoType
  <2> QED
    BY <2>1, <2>2
<1> QED
  BY <1>1, <1>2, FifoNamesHave DEF SrvOpened, ServerType, taskVars, listVars, countVars

LEMMA SrvReadType ==
    ASSUME TypeOK, SrvRead
    PROVE  FifoType' /\ ServerType'
<1> USE DEF TypeOK
<1> DEFINE queue == fifo["commands"].data
           k == IF Len(queue) < ReadMax THEN Len(queue) ELSE ReadMax
<1>1. fifo["commands"] \in Pipe
  BY FifoTyped, FifoNamesHave
<1>2. queue \in Seq(Lines) /\ queue # <<>>
  BY <1>1 DEF Pipe, SrvRead
<1>3. k \in 1..Len(queue)
  BY <1>2, ReadMaxAssumption
<1>4. FifoType'
  <2>1. Drop(fifo["commands"], k) \in Pipe
    BY <1>1, <1>3, DropType
  <2>2. fifo' = [fifo EXCEPT !["commands"] = Drop(fifo["commands"], k)] /\ made' = made
    BY DEF SrvRead
  <2> QED
    BY <2>1, <2>2, OnePipeType, FifoTyped, FifoNamesHave DEF FifoType, Pipe
<1>5. line' \in Seq(Lines) /\ line' # <<>>
  <2>1. SubSeq(queue, 1, k) \in Seq(Lines) /\ Len(SubSeq(queue, 1, k)) = k
    BY <1>2, <1>3
  <2>2. line' = SubSeq(queue, 1, k)
    BY DEF SrvRead
  <2> HIDE DEF queue, k
  <2> QED
    BY <2>1, <2>2, <1>3
<1>6. hits' \in [Clients -> Nat]
  <2>1. hits' = [hits EXCEPT ![Head(queue).by] = @ + 1]
    BY DEF SrvRead
  <2>2. Head(queue).by \in Clients
    BY <1>2, HeadIsLine DEF Lines
  <2> HIDE DEF queue
  <2> QED
    BY <2>1, <2>2 DEF ServerType
<1> QED
  BY <1>4, <1>5, <1>6 DEF SrvRead, ServerType, taskVars, listVars, countVars

LEMMA ExecTaskType ==
    ASSUME TypeOK, ExecTask
    PROVE  FifoType' /\ ServerType'
<1> USE DEF TypeOK
<1> DEFINE pid == Len(procs) + 1
<1>1. pid \in Nat /\ pid \in Processes
  BY DEF ServerType, Processes
<1>2. FifoType'
  BY <1>1, WithForkType, FifoTyped DEF ExecTask, FifoType, Pipe
<1>3. Head(line) \in Lines
  BY HeadIsLine DEF ExecTask, Dispatching, ServerType
<1>4. running' \in Seq(Tasks)
  <2>1. [task_id |-> total, process_group |-> pid, cmd |-> Head(line)] \in Tasks
    BY <1>1, <1>3 DEF ServerType, Tasks
  <2> QED
    BY <2>1 DEF ExecTask, ServerType
<1>5. procs' \in Seq(ProcStates)
  BY DEF ExecTask, ServerType, ProcStates
<1> QED
  BY <1>2, <1>4, <1>5 DEF ExecTask, ServerType, listVars, countVars

(* Taking an entry out of a sequence leaves a sequence.                    *)
LEMMA RmOrdAtType ==
    ASSUME NEW S, NEW s \in Seq(S), NEW i \in DOMAIN s
    PROVE  /\ RmOrdAt(s, i) \in Seq(S)
           /\ Len(RmOrdAt(s, i)) = Len(s) - 1
           /\ \A j \in 1..(Len(s) - 1) :
                 RmOrdAt(s, i)[j] = IF j < i THEN s[j] ELSE s[j + 1]
<1>1. Len(s) \in Nat /\ Len(s) - 1 \in Nat /\ s \in [1..Len(s) -> S] /\ i \in 1..Len(s)
  BY FunctionOfSeq
<1>2. RmOrdAt(s, i) \in [1..(Len(s) - 1) -> S]
  BY <1>1 DEF RmOrdAt
<1>3. \A j \in 1..(Len(s) - 1) :
         RmOrdAt(s, i)[j] = IF j < i THEN s[j] ELSE s[j + 1]
  BY DEF RmOrdAt
<1> QED
  BY <1>1, <1>2, <1>3, SeqOfFunction

LEMMA EndTaskType ==
    ASSUME TypeOK, EndTaskFault \/ EndTaskIgnored \/ EndTaskKill \/ EndTaskKillFails
    PROVE  FifoType' /\ ServerType'
<1> USE DEF TypeOK
<1>1. CASE EndTaskFault
  BY <1>1, ServerEndsType DEF EndTaskFault, ServerType
<1>2. CASE EndTaskIgnored
  BY <1>2 DEF EndTaskIgnored, Continue, FifoType, ServerType, fifoVars, taskVars,
              listVars, countVars
<1>3. CASE EndTaskKill
  <2>1. PICK i \in DOMAIN running :
           /\ sig' = sig \cup {running[i].process_group}
           /\ running' = RmOrdAt(running, i)
           /\ Continue
           /\ UNCHANGED <<total, procs, line, listVars, hits, countVars>>
    BY <1>3 DEF EndTaskKill
  <2>2. running' \in Seq(Tasks)
    BY <2>1, RmOrdAtType DEF ServerType
  <2>3. sig' \subseteq Nat
    <3>1. running[i] \in Tasks
      BY <2>1, FunctionOfSeq DEF ServerType
    <3> QED
      BY <2>1, <3>1 DEF ServerType, Tasks
  <2> QED
    BY <2>1, <2>2, <2>3 DEF Continue, FifoType, ServerType, fifoVars, listVars, countVars
<1>4. CASE EndTaskKillFails
  BY <1>4, ServerEndsType DEF EndTaskKillFails, ServerType
<1> QED
  BY <1>1, <1>2, <1>3, <1>4

LEMMA ListType ==
    ASSUME TypeOK, ListRunning \/ ListRunningFails
    PROVE  FifoType' /\ ServerType'
<1> USE DEF TypeOK
<1>1. CASE ListRunning
  <2>1. Entries \in Seq([id : Nat, name : Lines])
    <3>1. Head(line) \in Lines
      BY <1>1, HeadIsLine DEF ListRunning, Dispatching, ServerType
    <3>2. running \in [1..Len(running) -> Tasks] /\ Len(running) \in Nat
          /\ DOMAIN running = 1..Len(running)
      BY FunctionOfSeq DEF ServerType
    <3>3. Entries \in [1..Len(running) -> [id : Nat, name : Lines]]
      BY <3>1, <3>2 DEF Entries, Tasks
    <3> QED
      BY <3>2, <3>3, SeqOfFunction
  <2>2. listing \o Entries \in Seq([id : Nat, name : Lines])
    BY <2>1 DEF ServerType
  <2> QED
    BY <1>1, <2>2 DEF ListRunning, Continue, FifoType, ServerType, fifoVars, taskVars,
                      countVars
<1>2. CASE ListRunningFails
  BY <1>2, ServerEndsType DEF ListRunningFails, ServerType
<1> QED
  BY <1>1, <1>2

LEMMA ChildType ==
    ASSUME TypeOK, NEW p \in Pids, ChildSetsid(p) \/ ChildEnds(p)
    PROVE  FifoType' /\ ServerType'
<1> USE DEF TypeOK
<1>1. procs \in [1..Len(procs) -> ProcStates] /\ Len(procs) \in Nat
      /\ Pids = 1..Len(procs)
  BY FunctionOfSeq DEF ServerType, Pids
<1>2. procs' \in Seq(ProcStates)
  <2>1. procs' \in [1..Len(procs) -> ProcStates]
    BY <1>1 DEF ChildSetsid, ChildEnds, EndedState, ProcStates
  <2> QED
    BY <2>1, <1>1, SeqOfFunction
<1>3. FifoType'
  BY WithoutProcessType, FifoTyped
     DEF ChildSetsid, ChildEnds, FifoType, Pipe, fifoVars
<1> QED
  BY <1>2, <1>3 DEF ChildSetsid, ChildEnds, ServerType, listVars, countVars

LEMMA FailureType ==
    ASSUME TypeOK, Failure
    PROVE  FifoType' /\ ServerType'
<1> USE DEF TypeOK
<1>1. stops \in Nat /\ stops' \in Nat
  BY DEF Failure, SrvStop, SrvStartFails, SrvReadFails, SrvReadOverruns,
         ExecTaskForkFails, ExecTaskPushFails, ServerType
<1>2. CASE ServerEnds
  BY <1>1, <1>2, ServerEndsType
<1>3. CASE ExecTaskPushFails
  <2> DEFINE pid == Len(procs) + 1
  <2>1. procs \in Seq(ProcStates) /\ pid \in Nat /\ pid \in Processes
    BY DEF ServerType, Processes
  <2>2. Append(procs, "forked") \in Seq(ProcStates)
    BY <2>1 DEF ProcStates
  <2>3. WithFork(Server, pid) \in [FifoNames -> Pipe]
    BY <2>1, WithForkType
  <2> QED
    BY <1>1, <1>3, <2>2, <2>3, EndsWithType DEF ExecTaskPushFails
<1> QED
  BY <1>2, <1>3 DEF Failure, SrvStop, SrvStartFails, SrvReadFails, SrvReadOverruns,
                    ExecTaskForkFails

LEMMA ServerNextType ==
    ASSUME TypeOK, ServerNext
    PROVE  FifoType' /\ ServerType'
<1> USE DEF TypeOK
<1>1. CASE Failure
  BY <1>1, FailureType
<1>2. CASE SrvReadEof
  BY <1>2 DEF SrvReadEof, FifoType, ServerType, fifoVars, serverVars
<1>3. CASE NoEffect
  BY <1>3 DEF NoEffect, Continue, FifoType, ServerType, fifoVars, taskVars, listVars,
              countVars
<1> QED
  BY <1>1, <1>2, <1>3, SrvBootType, SrvOpenedType, SrvReadType, ExecTaskType,
     EndTaskType, ListType, ChildType
     DEF ServerNext, ServerStep, ChildStep, Dispatch

-----------------------------------------------------------------------------
(* Types: the steps of a client.                                           *)

LEMMA ClientEndsType ==
    ASSUME FifoType, ClientType, NEW c \in Clients, NEW how \in EndStates,
           ClientEnds(c, how), made' = made
    PROVE  /\ FifoType'
           /\ cpc' \in [Clients -> FifoNames \cup EndStates
                            \cup {"start", "reply", "reading", "prompt", "exit"}]
BY WithoutProcessType, FifoTyped DEF ClientEnds, Goto, FifoType, ClientType, Pipe

(* The line a client sends next, appended to those it has buffered.        *)
LEMMA NewLineType ==
    ASSUME ClientType, NEW c \in Clients, NEW flag \in Flags
    PROVE  Append(wbuf[c], NewLine(c, flag, job[c].arg)) \in Seq(Lines)
<1>1. wbuf[c] \in Seq(Lines) /\ Len(wbuf[c]) + 1 \in Nat
  BY DEF ClientType
<1>2. job[c].arg \in TaskIds
  BY DEF ClientType, Jobs
<1>3. NewLine(c, flag, job[c].arg) \in Lines
  BY <1>1, <1>2 DEF NewLine, Lines
<1> QED
  BY <1>1, <1>3

LEMMA FlushType ==
    ASSUME FifoType, ClientType, NEW c \in Clients, NEW lines \in Seq(Lines),
           NEW to \in {"reply", "reading", "prompt", "exit"},
           Flush(c, lines, to), made' = made
    PROVE  /\ FifoType'
           /\ cpc' \in [Clients -> FifoNames \cup EndStates
                            \cup {"start", "reply", "reading", "prompt", "exit"}]
<1>1. CASE Broken(fifo["commands"])
  BY <1>1, ClientEndsType DEF Flush, EndStates
<1>2. CASE ~Broken(fifo["commands"])
  <2>1. Put(fifo["commands"], lines) \in Pipe
    BY FifoTyped, FifoNamesHave, PutType
  <2>2. fifo' = [fifo EXCEPT !["commands"] = Put(fifo["commands"], lines)]
    BY <1>2 DEF Flush
  <2>3. FifoType'
    BY <2>1, <2>2, OnePipeType, FifoTyped, FifoNamesHave DEF FifoType, Pipe
  <2> QED
    BY <1>2, <2>3 DEF Flush, Goto, ClientType
<1> QED
  BY <1>1, <1>2

LEMMA OpenStepType ==
    ASSUME TypeOK, NEW c \in Clients,
           \/ ClientOpenFails(c) \/ ClientRefuses(c)
           \/ ClientOpen(c) \/ ShellOpened(c) \/ ShellPrompts(c)
           \/ CliOpenReply(c) \/ CliReplyOpened(c)
    PROVE  FifoType' /\ ClientType'
<1> USE DEF TypeOK
<1>1. c \in Processes
  BY DEF Processes
<1>2. \A f \in FifoNames :
        /\ [fifo EXCEPT ![f] = OpenForRead(fifo[f], c)] \in [FifoNames -> Pipe]
        /\ [fifo EXCEPT ![f] = OpenForWrite(fifo[f], c)] \in [FifoNames -> Pipe]
  <2> TAKE f \in FifoNames
  <2>1. fifo[f] \in Pipe
    BY FifoTyped
  <2>2. OpenForRead(fifo[f], c) \in Pipe /\ OpenForWrite(fifo[f], c) \in Pipe
    BY <1>1, <2>1, OpenForReadType, OpenForWriteType
  <2> QED
    BY <2>2, OnePipeType
<1>3. CASE ClientOpenFails(c)
  BY <1>3 DEF ClientOpenFails, Goto, FifoType, ClientType, fifoVars, EndStates
<1>9. CASE ClientRefuses(c)
  BY <1>9 DEF ClientRefuses, Goto, FifoType, ClientType, fifoVars, EndStates
<1>4. CASE ClientOpen(c)
  BY <1>2, <1>4, FifoTyped, FifoNamesHave
     DEF ClientOpen, Goto, FifoType, ClientType, Pipe
<1>5. CASE ShellOpened(c)
  BY <1>2, <1>5, FifoTyped, FifoNamesHave
     DEF ShellOpened, Goto, FifoType, ClientType, Pipe
<1>6. CASE ShellPrompts(c)
  BY <1>6 DEF ShellPrompts, Goto, FifoType, ClientType, fifoVars
<1>7. CASE CliOpenReply(c)
  BY <1>2, <1>7, FifoTyped, FifoNamesHave
     DEF CliOpenReply, ReplyPipe, Goto, FifoType, ClientType, Pipe
<1>8. CASE CliReplyOpened(c)
  BY <1>8 DEF CliReplyOpened, Goto, FifoType, ClientType, fifoVars
<1> QED
  BY <1>3, <1>4, <1>5, <1>6, <1>7, <1>8, <1>9

LEMMA SendStepType ==
    ASSUME TypeOK, NEW c \in Clients, CliSend(c) \/ ShellType(c)
    PROVE  FifoType' /\ ClientType'
<1> USE DEF TypeOK
<1>1. CASE CliSend(c)
  <2> DEFINE lines == Append(wbuf[c], NewLine(c, job[c].flag, job[c].arg))
             to == IF job[c].flag \in ListFlags THEN "reply" ELSE "exit"
  <2>1. job[c].flag \in Flags
    BY <1>1 DEF CliSend, CLI, Shell, ClientType, Jobs
  <2>2. lines \in Seq(Lines)
    BY <2>1, NewLineType
  <2>3. to \in {"reply", "reading", "prompt", "exit"}
    OBVIOUS
  <2>4. Flush(c, lines, to) /\ made' = made
    BY <1>1 DEF CliSend
  <2>5. wbuf' = [wbuf EXCEPT ![c] = lines] /\ job' = job /\ typed' = typed
    BY <1>1 DEF CliSend
  <2> HIDE DEF lines, to
  <2> QED
    BY <2>2, <2>3, <2>4, <2>5, FlushType DEF ClientType
<1>2. CASE ShellType(c)
  <2>1. PICK flag \in Flags :
           /\ typed[c] > 0 /\ typed' = [typed EXCEPT ![c] = @ - 1]
           /\ IF Accepted(flag, job[c].arg)
              THEN LET lines == Append(wbuf[c], NewLine(c, flag, job[c].arg)) IN
                   /\ wbuf' = [wbuf EXCEPT ![c] = lines]
                   /\ Flush(c, lines, IF flag \in ListFlags THEN "reading" ELSE "prompt")
              ELSE UNCHANGED <<cpc, wbuf, fifo>>
           /\ UNCHANGED <<made, job>>
    BY <1>2 DEF ShellType
  <2>2. typed' \in [Clients -> Nat]
    BY <2>1 DEF ClientType
  <2>3. CASE Accepted(flag, job[c].arg)
    <3> DEFINE lines == Append(wbuf[c], NewLine(c, flag, job[c].arg))
               to == IF flag \in ListFlags THEN "reading" ELSE "prompt"
    <3>1. lines \in Seq(Lines)
      BY <2>1, NewLineType
    <3>2. to \in {"reply", "reading", "prompt", "exit"}
      OBVIOUS
    <3>3. wbuf' = [wbuf EXCEPT ![c] = lines] /\ Flush(c, lines, to)
          /\ made' = made /\ job' = job
      BY <2>1, <2>3
    <3> HIDE DEF lines, to
    <3> QED
      BY <2>2, <3>1, <3>2, <3>3, FlushType DEF ClientType
  <2>4. CASE ~Accepted(flag, job[c].arg)
    BY <2>1, <2>2, <2>4 DEF FifoType, ClientType
  <2> QED
    BY <2>3, <2>4
<1> QED
  BY <1>1, <1>2

LEMMA EndStepType ==
    ASSUME TypeOK, NEW c \in Clients,
           ReplyEnds(c) \/ ShellQuit(c) \/ Leave(c) \/ ClientInterrupted(c)
    PROVE  FifoType' /\ ClientType'
<1> USE DEF TypeOK
<1>1. CASE ReplyEnds(c)
  BY <1>1 DEF ReplyEnds, Goto, FifoType, ClientType, fifoVars
<1>2. CASE ShellQuit(c)
  BY <1>2 DEF ShellQuit, Goto, FifoType, ClientType, fifoVars
<1>3. CASE Leave(c)
  <2>1. CASE wbuf[c] # <<>> /\ Broken(fifo["commands"])
    BY <1>3, <2>1, ClientEndsType DEF Leave, ClientType, EndStates
  <2>2. CASE ~(wbuf[c] # <<>> /\ Broken(fifo["commands"]))
    <3>1. \A f \in FifoNames :
            Close(IF f = "commands" THEN Put(fifo[f], wbuf[c]) ELSE fifo[f], c) \in Pipe
      BY FifoTyped, PutType, CloseType DEF ClientType
    <3>2. /\ fifo' = [f \in FifoNames |->
                         Close(IF f = "commands" THEN Put(fifo[f], wbuf[c]) ELSE fifo[f], c)]
          /\ Goto(c, "done") /\ UNCHANGED <<made, job, wbuf, typed>>
      BY <1>3, <2>2 DEF Leave
    <3>3. fifo' \in [FifoNames -> Pipe]
      BY <3>1, <3>2
    <3> QED
      BY <3>2, <3>3, FifoTyped DEF Goto, FifoType, ClientType, Pipe, EndStates
  <2> QED
    BY <2>1, <2>2
<1>4. CASE ClientInterrupted(c)
  BY <1>4, ClientEndsType DEF ClientInterrupted, ClientType, EndStates
<1> QED
  BY <1>1, <1>2, <1>3, <1>4

LEMMA ClientNextType ==
    ASSUME TypeOK, NEW c \in Clients, ClientNext(c)
    PROVE  FifoType' /\ ClientType'
BY OpenStepType, SendStepType, EndStepType DEF ClientNext, ClientStep

-----------------------------------------------------------------------------
(* The variables of both programs always hold values of their types.       *)
THEOREM TypeCorrect == Spec => []TypeOK
<1>1. Init => TypeOK
  <2> SUFFICES ASSUME Init PROVE TypeOK
    OBVIOUS
  <2>1. FifoType
    <3>1. EmptyFifo \in Pipe
      BY DEF EmptyFifo, Pipe
    <3> QED
      BY <3>1, FifoTyped DEF Init, FifoInit
  <2>2. ServerType
    BY ScenariosAssumption DEF Init, ServerInit, ServerType
  <2>3. ClientType
    BY ScenariosAssumption DEF Init, ClientInit, ClientType, EndStates
  <2> QED
    BY <2>1, <2>2, <2>3 DEF TypeOK
<1>2. TypeOK /\ [Next]_vars => TypeOK'
  <2> SUFFICES ASSUME TypeOK, [Next]_vars PROVE TypeOK'
    OBVIOUS
  <2>1. CASE ServerNext /\ UNCHANGED clientVars
    BY <2>1, ServerNextType DEF TypeOK, ClientType, clientVars
  <2>2. ASSUME NEW c \in Clients, ClientNext(c), UNCHANGED serverVars PROVE TypeOK'
    BY <2>2, ClientNextType DEF TypeOK, ServerType, serverVars
  <2>3. CASE UNCHANGED vars
    BY <2>3 DEF vars, fifoVars, serverVars, clientVars, TypeOK, FifoType, ServerType,
                ClientType
  <2> QED
    BY <2>1, <2>2, <2>3 DEF Next
<1> QED
  BY <1>1, <1>2, PTL DEF Spec

-----------------------------------------------------------------------------
(* What the server knows of its tasks.                                     *)

(* The inductive invariant behind the properties of the running tasks: the *)
(* books are empty while no server runs, its own children are not reaped   *)
(* while one does, and only processes that were forked are ever signalled. *)
Bookkeeping ==
    /\ RunningOrdered /\ IdNamesItsProcess /\ NoTaskForgotten
    /\ total <= Len(procs) /\ sig \subseteq Pids
    /\ spc = "down" => running = <<>> /\ total = 0
    /\ spc # "down" => \A p \in Forked : procs[p] # "gone"

LEMMA BookkeepingInit == Init => Bookkeeping
<1> SUFFICES ASSUME Init PROVE Bookkeeping
  OBVIOUS
<1>1. running = <<>> /\ total = 0 /\ procs = <<>> /\ sig = {} /\ spc = "down"
  BY DEF Init, ServerInit
<1> QED
  BY <1>1 DEF Bookkeeping, RunningOrdered, IdNamesItsProcess, NoTaskForgotten

(* The group of a running task is one of a child of the present server.    *)
LEMMA GroupIsOwn ==
    ASSUME TypeOK, Bookkeeping, NEW i \in DOMAIN running
    PROVE  /\ running[i].process_group \in Forked
           /\ running[i].process_group \in Pids
           /\ procs[running[i].process_group] # "gone"
<1>1. running \in [1..Len(running) -> Tasks] /\ Len(running) \in Nat
      /\ DOMAIN running = 1..Len(running) /\ DOMAIN procs = 1..Len(procs)
      /\ Len(procs) \in Nat /\ total \in Nat
  BY FunctionOfSeq DEF TypeOK, ServerType
<1>2. running[i].task_id \in Nat /\ running[i].task_id < total
  BY <1>1 DEF Tasks, Bookkeeping, RunningOrdered
<1>3. running[i].process_group = Len(procs) - total + 1 + running[i].task_id
  BY DEF Bookkeeping, IdNamesItsProcess
<1>4. running[i].process_group \in Forked /\ running[i].process_group \in 1..Len(procs)
  BY <1>1, <1>2, <1>3 DEF Bookkeeping, Forked
<1>5. spc # "down"
  BY <1>1 DEF Bookkeeping
<1> QED
  BY <1>1, <1>4, <1>5 DEF Bookkeeping, Pids

(* A step that leaves the books alone and the server up.                   *)
LEMMA BooksUntouched ==
    ASSUME Bookkeeping, UNCHANGED taskVars, spc # "down", spc' # "down"
    PROVE  Bookkeeping'
BY DEF Bookkeeping, RunningOrdered, IdNamesItsProcess, NoTaskForgotten, Recorded,
       Forked, Pids, taskVars

(* The server ends, leaving at least the processes there were.             *)
LEMMA EndsWithBooks ==
    ASSUME TypeOK, Bookkeeping, NEW pipes, NEW children \in Seq(ProcStates),
           Len(procs) <= Len(children), EndsWith(pipes, children)
    PROVE  Bookkeeping'
<1>1. /\ DOMAIN procs = 1..Len(procs) /\ Len(procs) \in Nat
      /\ DOMAIN children = 1..Len(children) /\ Len(children) \in Nat
      /\ children \in [1..Len(children) -> ProcStates]
  BY FunctionOfSeq DEF TypeOK, ServerType
<1>2. procs' \in [1..Len(children) -> ProcStates]
  BY <1>1 DEF EndsWith, ProcStates
<1>3. Len(procs') = Len(children) /\ DOMAIN procs' = 1..Len(children)
  BY <1>1, <1>2, SeqOfFunction
<1>4. running' = <<>> /\ total' = 0 /\ sig' = sig /\ spc' = "down"
  BY DEF EndsWith
<1>5. sig' \subseteq Pids'
  BY <1>1, <1>3, <1>4 DEF Bookkeeping, Pids
<1> QED
  BY <1>1, <1>3, <1>4, <1>5
     DEF Bookkeeping, RunningOrdered, IdNamesItsProcess, NoTaskForgotten

LEMMA ServerEndsBooks ==
    ASSUME TypeOK, Bookkeeping, ServerEnds
    PROVE  Bookkeeping'
BY EndsWithBooks DEF ServerEnds, TypeOK, ServerType

LEMMA FailureBooks ==
    ASSUME TypeOK, Bookkeeping, Failure
    PROVE  Bookkeeping'
<1>1. CASE ServerEnds
  BY <1>1, ServerEndsBooks
<1>2. CASE ExecTaskPushFails
  <2> DEFINE children == Append(procs, "forked")
  <2>1. procs \in Seq(ProcStates)
    BY DEF TypeOK, ServerType
  <2>2. children \in Seq(ProcStates) /\ Len(procs) <= Len(children)
    BY <2>1 DEF ProcStates
  <2>3. EndsWith(WithFork(Server, Len(procs) + 1), children)
    BY <1>2 DEF ExecTaskPushFails
  <2> HIDE DEF children
  <2> QED
    BY <2>2, <2>3, EndsWithBooks
<1> QED
  BY <1>1, <1>2 DEF Failure, SrvStop, SrvStartFails, SrvReadFails, SrvReadOverruns,
                    ExecTaskForkFails

LEMMA ExecTaskBooks ==
    ASSUME TypeOK, Bookkeeping, ExecTask
    PROVE  Bookkeeping'
<1> DEFINE pid == Len(procs) + 1
           task == [task_id |-> total, process_group |-> pid, cmd |-> Head(line)]
           n == Len(running)
<1>1. /\ running \in Seq(Tasks) /\ n \in Nat /\ DOMAIN running = 1..n
      /\ running \in [1..n -> Tasks]
      /\ procs \in Seq(ProcStates) /\ Len(procs) \in Nat /\ DOMAIN procs = 1..Len(procs)
      /\ total \in Nat
  BY FunctionOfSeq DEF TypeOK, ServerType
<1>2. /\ running' = Append(running, task) /\ procs' = Append(procs, "forked")
      /\ total' = total + 1 /\ sig' = sig /\ spc' = "loop" /\ spc # "down"
  BY DEF ExecTask, Dispatching
<1>3. /\ DOMAIN running' = 1..(n + 1)
      /\ \A i \in 1..n : running'[i] = running[i]
      /\ running'[n + 1] = task
  BY <1>1, <1>2
<1>4. /\ Len(procs') = pid /\ DOMAIN procs' = 1..pid
      /\ \A p \in 1..Len(procs) : procs'[p] = procs[p]
      /\ procs'[pid] = "forked"
  BY <1>1, <1>2
<1>5. task.task_id = total /\ task.process_group = pid
  OBVIOUS
<1>6. \A i \in 1..n : running[i].task_id \in Nat /\ running[i].task_id < total
  BY <1>1 DEF Bookkeeping, RunningOrdered, Tasks
<1> HIDE DEF task
<1>7. RunningOrdered'
  BY <1>1, <1>2, <1>3, <1>5, <1>6, SMTT(20) DEF Bookkeeping, RunningOrdered
<1>8. IdNamesItsProcess'
  BY <1>1, <1>2, <1>3, <1>4, <1>5, <1>6 DEF Bookkeeping, IdNamesItsProcess
<1>9. Forked' = Forked \cup {pid}
  BY <1>1, <1>2, <1>4 DEF Forked, Bookkeeping
<1>10. NoTaskForgotten'
  <2>1. Recorded' = Recorded \cup {pid}
    BY <1>1, <1>3, <1>5 DEF Recorded
  <2>2. pid \notin sig
    BY <1>1 DEF Bookkeeping, Pids
  <2>3. Recorded = Forked \ sig
    BY <1>2 DEF Bookkeeping, NoTaskForgotten
  <2> QED
    BY <1>2, <1>9, <2>1, <2>2, <2>3 DEF NoTaskForgotten
<1>11. \A p \in Forked' : procs'[p] # "gone"
  BY <1>1, <1>2, <1>4, <1>9 DEF Bookkeeping, Forked
<1>12. total' <= Len(procs') /\ sig' \subseteq Pids'
  BY <1>1, <1>2, <1>4 DEF Bookkeeping, Pids
<1> QED
  BY <1>2, <1>7, <1>8, <1>10, <1>11, <1>12 DEF Bookkeeping

(* What is left on the list once task i was taken off it.                  *)
LEMMA RmOrdAtEntries ==
    ASSUME TypeOK, NEW i \in DOMAIN running, running' = RmOrdAt(running, i)
    PROVE  /\ Len(running) \in Nat /\ DOMAIN running = 1..Len(running)
           /\ DOMAIN running' = 1..(Len(running) - 1)
           /\ \A j \in 1..(Len(running) - 1) :
                 running'[j] = IF j < i THEN running[j] ELSE running[j + 1]
           /\ \A j \in DOMAIN running' :
                 \E k \in DOMAIN running : k # i /\ running'[j] = running[k]
           /\ \A k \in DOMAIN running :
                 k # i => \E j \in DOMAIN running' : running'[j] = running[k]
<1> DEFINE n == Len(running)
<1>1. /\ running \in Seq(Tasks) /\ n \in Nat /\ DOMAIN running = 1..n
      /\ i \in 1..n /\ n - 1 \in Nat
  BY FunctionOfSeq DEF TypeOK, ServerType
<1>2. /\ running' \in Seq(Tasks) /\ Len(running') = n - 1
      /\ \A j \in 1..(n - 1) : running'[j] = IF j < i THEN running[j] ELSE running[j + 1]
  BY <1>1, RmOrdAtType
<1>3. DOMAIN running' = 1..(n - 1)
  BY <1>1, <1>2, FunctionOfSeq
<1>6. n = Len(running)
  OBVIOUS
<1> HIDE DEF n
<1>4. \A j \in 1..(n - 1) : \E k \in 1..n : k # i /\ running'[j] = running[k]
  BY <1>1, <1>2
<1>5. \A k \in 1..n : k # i => \E j \in 1..(n - 1) : running'[j] = running[k]
  <2> SUFFICES ASSUME NEW k \in 1..n, k # i
               PROVE  \E j \in 1..(n - 1) : running'[j] = running[k]
    OBVIOUS
  <2>1. CASE k < i
    BY <1>1, <1>2, <2>1
  <2>2. CASE k > i
    <3>1. k - 1 \in 1..(n - 1) /\ ~(k - 1 < i) /\ (k - 1) + 1 = k
      BY <1>1, <2>2
    <3> QED
      BY <1>2, <3>1
  <2> QED
    BY <1>1, <2>1, <2>2
<1>7. \A j \in DOMAIN running' :
         \E k \in DOMAIN running : k # i /\ running'[j] = running[k]
  BY <1>1, <1>3, <1>4
<1>8. \A k \in DOMAIN running :
         k # i => \E j \in DOMAIN running' : running'[j] = running[k]
  BY <1>1, <1>3, <1>5
<1> QED
  BY <1>1, <1>2, <1>3, <1>6, <1>7, <1>8

(* Taking task i off the list takes its process group, and no other.       *)
LEMMA RmOrdAtRecorded ==
    ASSUME TypeOK, Bookkeeping, NEW i \in DOMAIN running,
           running' = RmOrdAt(running, i)
    PROVE  Recorded' = Recorded \ {running[i].process_group}
<1>1. \A j \in DOMAIN running : running[j].task_id \in Nat
  <2>1. running \in [DOMAIN running -> Tasks]
    BY FunctionOfSeq DEF TypeOK, ServerType
  <2> QED
    BY <2>1 DEF Tasks
<1>2. Len(procs) \in Nat /\ total \in Nat /\ DOMAIN running \subseteq Nat
  BY FunctionOfSeq DEF TypeOK, ServerType
<1>3. \A k \in DOMAIN running :
         k # i => running[k].process_group # running[i].process_group
  <2> SUFFICES ASSUME NEW k \in DOMAIN running, k # i
               PROVE  running[k].process_group # running[i].process_group
    OBVIOUS
  <2>1. running[k].task_id # running[i].task_id
    BY <1>1, <1>2 DEF Bookkeeping, RunningOrdered
  <2>2. /\ running[k].process_group = Len(procs) - total + 1 + running[k].task_id
        /\ running[i].process_group = Len(procs) - total + 1 + running[i].task_id
    BY DEF Bookkeeping, IdNamesItsProcess
  <2> QED
    BY <1>1, <1>2, <2>1, <2>2
<1>4. /\ \A j \in DOMAIN running' :
            \E k \in DOMAIN running : k # i /\ running'[j] = running[k]
      /\ \A k \in DOMAIN running :
            k # i => \E j \in DOMAIN running' : running'[j] = running[k]
  BY RmOrdAtEntries
<1>5. ASSUME NEW g \in Recorded' PROVE g \in Recorded \ {running[i].process_group}
  <2>1. PICK j \in DOMAIN running' : g = running'[j].process_group
    BY <1>5 DEF Recorded
  <2>2. PICK k \in DOMAIN running : k # i /\ running'[j] = running[k]
    BY <1>4
  <2> QED
    BY <1>3, <2>1, <2>2 DEF Recorded
<1>6. ASSUME NEW g \in Recorded, g # running[i].process_group PROVE g \in Recorded'
  <2>1. PICK k \in DOMAIN running : g = running[k].process_group
    BY DEF Recorded
  <2>2. PICK j \in DOMAIN running' : running'[j] = running[k]
    BY <1>4, <1>6, <2>1
  <2> QED
    BY <2>1, <2>2 DEF Recorded
<1> QED
  BY <1>5, <1>6

LEMMA EndTaskKillBooks ==
    ASSUME TypeOK, Bookkeeping, EndTaskKill
    PROVE  Bookkeeping'
<1> DEFINE n == Len(running)
<1>1. /\ running \in Seq(Tasks) /\ n \in Nat /\ DOMAIN running = 1..n
      /\ running \in [1..n -> Tasks]
      /\ Len(procs) \in Nat /\ total \in Nat
  BY FunctionOfSeq DEF TypeOK, ServerType
<1>2. PICK i \in DOMAIN running :
         /\ sig' = sig \cup {running[i].process_group}
         /\ running' = RmOrdAt(running, i)
         /\ spc' = "loop" /\ spc # "down"
         /\ UNCHANGED <<total, procs>>
  BY DEF EndTaskKill, EndTaskFound, Dispatching, Continue
<1>3. /\ DOMAIN running' = 1..(n - 1)
      /\ \A j \in 1..(n - 1) : running'[j] = IF j < i THEN running[j] ELSE running[j + 1]
      /\ \A j \in 1..(n - 1) : \E k \in 1..n : k # i /\ running'[j] = running[k]
  BY <1>1, <1>2, RmOrdAtEntries
<1>4. \A j \in 1..n : running[j].task_id \in Nat /\ running[j].process_group \in Nat
  BY <1>1 DEF Tasks
<1>5. /\ \A j, k \in 1..n : j < k => running[j].task_id < running[k].task_id
      /\ \A j \in 1..n : running[j].task_id < total
      /\ \A j \in 1..n :
            running[j].process_group = Len(procs) - total + 1 + running[j].task_id
  BY <1>1 DEF Bookkeeping, RunningOrdered, IdNamesItsProcess
<1>6. i \in 1..n
  BY <1>1
<1> HIDE DEF n
<1>8. RunningOrdered'
  <2>1. \A j, k \in 1..(n - 1) : j < k => running'[j].task_id < running'[k].task_id
    <3> TAKE j, k \in 1..(n - 1)
    <3> HAVE j < k
    <3> DEFINE old(m) == IF m < i THEN m ELSE m + 1
    <3>1. old(j) \in 1..n /\ old(k) \in 1..n /\ old(j) < old(k)
      BY <1>1, <1>6
    <3>2. running'[j] = running[old(j)] /\ running'[k] = running[old(k)]
      BY <1>3
    <3> HIDE DEF old
    <3> QED
      BY <1>5, <3>1, <3>2
  <2>2. \A j \in 1..(n - 1) : running'[j].task_id < total'
    BY <1>2, <1>3, <1>5
  <2> QED
    BY <1>3, <2>1, <2>2 DEF RunningOrdered
<1>9. IdNamesItsProcess'
  <2>1. \A j \in 1..(n - 1) :
           running'[j].process_group = Len(procs') - total' + 1 + running'[j].task_id
    BY <1>2, <1>3, <1>5
  <2> QED
    BY <1>3, <2>1 DEF IdNamesItsProcess
<1>10. NoTaskForgotten'
  <2>1. Recorded' = Recorded \ {running[i].process_group}
    BY <1>2, RmOrdAtRecorded
  <2>2. Forked' = Forked /\ Recorded = Forked \ sig
    BY <1>2 DEF Forked, Bookkeeping, NoTaskForgotten
  <2> QED
    BY <1>2, <2>1, <2>2 DEF NoTaskForgotten
<1>11. sig' \subseteq Pids'
  BY <1>2, GroupIsOwn DEF Bookkeeping, Pids
<1> QED
  BY <1>2, <1>8, <1>9, <1>10, <1>11 DEF Bookkeeping, Forked

LEMMA ChildBooks ==
    ASSUME TypeOK, Bookkeeping, NEW p \in Pids, ChildSetsid(p) \/ ChildEnds(p)
    PROVE  Bookkeeping'
<1>1. /\ procs \in [1..Len(procs) -> ProcStates] /\ Len(procs) \in Nat
      /\ DOMAIN procs = 1..Len(procs) /\ total \in Nat
  BY FunctionOfSeq DEF TypeOK, ServerType
<1>2. /\ running' = running /\ total' = total /\ sig' = sig /\ spc' = spc
      /\ procs' \in [1..Len(procs) -> ProcStates]
      /\ \A q \in Pids \ {p} : procs'[q] = procs[q]
      /\ p \in Forked => procs'[p] # "gone"
  BY <1>1 DEF ChildSetsid, ChildEnds, EndedState, ProcStates, Pids
<1>3. Len(procs') = Len(procs) /\ DOMAIN procs' = DOMAIN procs
  BY <1>1, <1>2, SeqOfFunction
<1>4. Forked' = Forked /\ Forked \subseteq Pids
  BY <1>1, <1>2, <1>3 DEF Forked, Pids, Bookkeeping
<1>5. spc' # "down" => \A q \in Forked' : procs'[q] # "gone"
  BY <1>2, <1>4 DEF Bookkeeping
<1>6. RunningOrdered' /\ IdNamesItsProcess' /\ NoTaskForgotten'
  BY <1>2, <1>3, <1>4
     DEF Bookkeeping, RunningOrdered, IdNamesItsProcess, NoTaskForgotten, Recorded
<1> QED
  BY <1>2, <1>3, <1>5, <1>6 DEF Bookkeeping, Pids

LEMMA SrvBootBooks ==
    ASSUME TypeOK, Bookkeeping, SrvBoot
    PROVE  Bookkeeping'
<1>1. running' = <<>> /\ total' = 0 /\ procs' = procs /\ sig' = sig /\ total = 0
      /\ running = <<>>
  BY DEF SrvBoot, taskVars, Bookkeeping
<1>2. Len(procs) \in Nat
  BY FunctionOfSeq DEF TypeOK, ServerType
<1>3. Forked' = {} /\ Recorded' = {}
  BY <1>1, <1>2 DEF Forked, Recorded
<1> QED
  BY <1>1, <1>3
     DEF Bookkeeping, RunningOrdered, IdNamesItsProcess, NoTaskForgotten, Pids

LEMMA ServerNextBooks ==
    ASSUME TypeOK, Bookkeeping, ServerNext
    PROVE  Bookkeeping'
<1>1. CASE SrvBoot
  BY <1>1, SrvBootBooks
<1>2. CASE SrvOpened
  <2>1. spc # "down" /\ spc' # "down"
    BY <1>2, FifoNamesHave DEF SrvOpened, NextStage, OpenOrder
  <2> QED
    BY <1>2, <2>1, BooksUntouched DEF SrvOpened
<1>3. CASE SrvRead
  BY <1>3, BooksUntouched DEF SrvRead
<1>4. CASE SrvReadEof
  BY <1>4, BooksUntouched DEF SrvReadEof, serverVars, taskVars
<1>5. CASE ExecTask
  BY <1>5, ExecTaskBooks
<1>6. CASE EndTaskKill
  BY <1>6, EndTaskKillBooks
<1>7. CASE EndTaskFault \/ EndTaskKillFails \/ ListRunningFails
  BY <1>7, ServerEndsBooks DEF EndTaskFault, EndTaskKillFails, ListRunningFails
<1>10. CASE Failure
  BY <1>10, FailureBooks
<1>8. CASE EndTaskIgnored \/ NoEffect \/ ListRunning
  BY <1>8, BooksUntouched DEF EndTaskIgnored, NoEffect, ListRunning, Dispatching, Continue
<1>9. ASSUME NEW p \in Pids, ChildSetsid(p) \/ ChildEnds(p) PROVE Bookkeeping'
  BY <1>9, ChildBooks
<1> QED
  BY <1>1, <1>2, <1>3, <1>4, <1>5, <1>6, <1>7, <1>8, <1>9, <1>10
     DEF ServerNext, ServerStep, ChildStep, Dispatch

(* The signals: only the kill of an end command sends one.                 *)
LEMMA ServerNextSig ==
    ASSUME ServerNext, ~EndTaskKill
    PROVE  sig' = sig
<1>1. CASE Failure
  BY <1>1 DEF Failure, SrvStop, SrvStartFails, SrvReadFails, SrvReadOverruns,
              ExecTaskForkFails, ExecTaskPushFails, ServerEnds, EndsWith
<1>2. CASE SrvBoot \/ SrvOpened \/ SrvRead \/ SrvReadEof
  BY <1>2 DEF SrvBoot, SrvOpened, SrvRead, SrvReadEof, serverVars, taskVars
<1>3. CASE EndTaskFault \/ EndTaskKillFails \/ ListRunningFails
  BY <1>3 DEF EndTaskFault, EndTaskKillFails, ListRunningFails, ServerEnds, EndsWith
<1>4. CASE ExecTask \/ EndTaskIgnored \/ NoEffect \/ ListRunning
  BY <1>4 DEF ExecTask, EndTaskIgnored, NoEffect, ListRunning, taskVars
<1>5. CASE ChildStep
  BY <1>5 DEF ChildStep, ChildSetsid, ChildEnds
<1> QED
  BY <1>1, <1>2, <1>3, <1>4, <1>5 DEF ServerNext, ServerStep, Dispatch

(* The invariant behind the theorems that follow.                          *)
LEMMA BooksCorrect == Spec => []Bookkeeping
<1>1. TypeOK /\ Bookkeeping /\ [Next]_vars => Bookkeeping'
  <2> SUFFICES ASSUME TypeOK, Bookkeeping, [Next]_vars PROVE Bookkeeping'
    OBVIOUS
  <2>1. CASE ServerNext
    BY <2>1, ServerNextBooks
  <2>2. CASE UNCHANGED serverVars
    BY <2>2 DEF serverVars, Bookkeeping, RunningOrdered, IdNamesItsProcess,
                NoTaskForgotten, Recorded, Forked, Pids
  <2> QED
    BY <2>1, <2>2 DEF Next, vars
<1> QED
  BY <1>1, BookkeepingInit, TypeCorrect, PTL DEF Spec

(* The running tasks stay in the order of their ids, through every         *)
(* tvec_push and tvec_rm_ord_at.                                           *)
THEOREM OrderCorrect == Spec => []RunningOrdered
<1>1. Bookkeeping => RunningOrdered
  BY DEF Bookkeeping
<1> QED
  BY <1>1, BooksCorrect, PTL

(* An id always names the process that was forked for it.                  *)
THEOREM IdsCorrect == Spec => []IdNamesItsProcess
<1>1. Bookkeeping => IdNamesItsProcess
  BY DEF Bookkeeping
<1> QED
  BY <1>1, BooksCorrect, PTL

(* kill is only ever called with the group of a child that was not reaped. *)
THEOREM GroupsCorrect == Spec => []NoGroupIsReused
<1>1. TypeOK /\ Bookkeeping => NoGroupIsReused
  BY GroupIsOwn DEF NoGroupIsReused
<1> QED
  BY <1>1, TypeCorrect, BooksCorrect, PTL

(* Every process forked for a task is either listed or was signalled.      *)
THEOREM NothingForgotten == Spec => []NoTaskForgotten
<1>1. Bookkeeping => NoTaskForgotten
  BY DEF Bookkeeping
<1> QED
  BY <1>1, BooksCorrect, PTL

(* An end command signals the process the present server forked under the  *)
(* id it names, and takes that task and no other off the list.             *)
THEOREM EndsCorrect == Spec => EndsTheTaskNamed
<1> DEFINE Named ==
             \A p \in sig' \ sig :
                 /\ p \in Forked /\ p = Len(procs) - total + 1 + Head(line).arg
                 /\ Recorded' = Recorded \ {p}
<1>1. TypeOK /\ Bookkeeping /\ [Next]_vars => [Named]_vars
  <2> SUFFICES ASSUME TypeOK, Bookkeeping, Next PROVE Named
    OBVIOUS
  <2>1. CASE EndTaskKill
    <3>1. PICK i \in DOMAIN running :
             /\ IsIndexOf(i, Head(line).arg)
             /\ sig' = sig \cup {running[i].process_group}
             /\ running' = RmOrdAt(running, i)
      BY <2>1 DEF EndTaskKill, EndTaskFound
    <3>2. running[i].process_group = Len(procs) - total + 1 + Head(line).arg
      BY <3>1 DEF IsIndexOf, Bookkeeping, IdNamesItsProcess
    <3>3. running[i].process_group \in Forked
      BY GroupIsOwn
    <3>4. Recorded' = Recorded \ {running[i].process_group}
      BY <3>1, RmOrdAtRecorded
    <3> QED
      BY <3>1, <3>2, <3>3, <3>4
  <2>2. CASE ~EndTaskKill
    <3>1. sig' = sig
      BY <2>2, ServerNextSig DEF Next, serverVars
    <3> QED
      BY <3>1
  <2> QED
    BY <2>1, <2>2
<1> QED
  BY <1>1, TypeCorrect, BooksCorrect, PTL DEF Spec, EndsTheTaskNamed
=============================================================================
