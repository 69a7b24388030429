---------------------------- MODULE ArgusServer -----------------------------
(***************************************************************************)
(* The argus server (server.c): the start-up that opens the pipes, the     *)
(* loop that reads and dispatches one buffer at a time, and the processes  *)
(* it forks for the tasks.  One server runs at a time; it may be stopped   *)
(* and started again.                                                      *)
(***************************************************************************)
EXTENDS ArgusFifos

CONSTANT ReadMax     \* how many lines fit in line_buf

ASSUME ReadMaxAssumption == ReadMax \in Nat \ {0}

VARIABLES
    spc,       \* "down", the pipe being opened, "loop" or "dispatch"
    running,   \* main's running_tasks
    total,     \* total_tasks
    line,      \* line_buf: the lines of the last read
    listing,   \* the buffer of running_tasks_writer, never emptied by a flush
    shown,     \* what the last flush of that writer sent out
    procs,     \* the state of every process forked for a task, by pid
    sig,       \* the process groups a SIGTERM was sent to
    hits,      \* how many dispatches were of a line of each client
    boots,     \* bound: how often the server may still be started
    stops      \* bound: how often it may still be stopped from outside

taskVars == <<running, total, procs, sig>>
listVars == <<listing, shown>>
countVars == <<boots, stops>>
serverVars == <<spc, running, total, line, listing, shown, procs, sig, hits,
                boots, stops>>

Pids == DOMAIN procs

(* The pids forked so far by the present server.                           *)
Forked == (Len(procs) - total + 1)..Len(procs)

(***************************************************************************)
(* A process forked for a task is "forked" until its setsid makes it the   *)
(* leader of a group of its own.  Nobody waits for it: once it has ended   *)
(* it stays a "zombie" while its own server lives, and is "gone" (reaped   *)
(* by init, its pid free for anyone) once that server has ended too.       *)
(***************************************************************************)
ProcStates == {"forked", "leader", "zombie", "gone"}
(* Variant: the children are waited for.                                   *)
EndedStateReaped(p) == "gone"
EndedState(p) == IF p \in Forked THEN "zombie" ELSE "gone"
GroupExists(g) == procs[g] \in {"leader", "zombie"}

ServerInit ==
    /\ spc = "down" /\ line = <<>>
    /\ running = <<>> /\ total = 0
    /\ listing = <<>> /\ shown = <<>>
    /\ procs = <<>> /\ sig = {}
    /\ hits = [c \in Clients |-> 0]

-----------------------------------------------------------------------------
(* Start-up.                                                               *)

(* The order of the three opens, and what follows each of them.            *)
(* Variant: the reply pipes the other way round.                           *)
OpenOrderSwapped == <<"commands", "finished", "running">>
OpenOrder == <<"commands", "running", "finished">>
NextStage(f) ==
    CASE f = OpenOrder[1] -> OpenOrder[2]
      [] f = OpenOrder[2] -> OpenOrder[3]
      [] OTHER            -> "loop"

ServerOpen(f) ==
    IF f = "commands" THEN OpenForRead(fifo[f], Server)
                      ELSE OpenForWrite(fifo[f], Server)

(* mkdir, mkfifo (EEXIST is no error), and the start of the first open.    *)
SrvBoot ==
    /\ spc = "down" /\ boots > 0
    /\ boots' = boots - 1
    /\ made' = TRUE
    /\ spc' = OpenOrder[1]
    /\ fifo' = [fifo EXCEPT ![OpenOrder[1]] = ServerOpen(OpenOrder[1])]
    /\ UNCHANGED <<taskVars, line, listVars, hits, stops>>

(***************************************************************************)
(* An open returns; the next one starts, or the writers, the task vectors  *)
(* and the signal handler are set up and the loop is entered.  The         *)
(* descriptor of a reply pipe is lost to the precedence of "=" and "==":   *)
(* its write end stays held, and the writers are bound to descriptor 0.    *)
(***************************************************************************)
SrvOpened ==
    /\ spc \in FifoNames
    /\ Returned(fifo[spc], Server)
    /\ LET next == NextStage(spc) IN
        /\ spc' = next
        /\ fifo' = IF next \in FifoNames
                   THEN [fifo EXCEPT ![next] = ServerOpen(next)]
                   ELSE fifo
    /\ UNCHANGED <<made, taskVars, line, listVars, hits, countVars>>

-----------------------------------------------------------------------------
(* The end.                                                                *)

(***************************************************************************)
(* The server ends, in a return from main, a signal or a crash, when the   *)
(* given pipes and processes are there.  Its pipe ends are closed, its     *)
(* zombies reaped by init, its memory is lost.  The signal handler looks   *)
(* at the file-scope running_tasks, which is always empty: no task is told.*)
(***************************************************************************)
EndsWith(pipes, children) ==
    /\ spc' = "down"
    /\ fifo' = [f \in FifoNames |-> Close(pipes[f], Server)]
    /\ running' = <<>> /\ total' = 0 /\ line' = <<>>
    /\ listing' = <<>> /\ shown' = <<>>
    /\ procs' = [p \in DOMAIN children |->
                    IF children[p] = "zombie" THEN "gone" ELSE children[p]]
    /\ UNCHANGED <<made, sig, hits, boots>>

ServerEnds == EndsWith(fifo, procs)

(* SIGINT, SIGTERM or SIGKILL from outside.                                *)
SrvStop ==
    /\ spc # "down" /\ stops > 0
    /\ stops' = stops - 1
    /\ ServerEnds

(* An open or the set-up that follows the opens fails.                     *)
SrvStartFails == spc \in FifoNames /\ ServerEnds /\ UNCHANGED stops

-----------------------------------------------------------------------------
(* The loop.                                                               *)

(* Variant: the commands are read to the end of the file first.            *)
SrvReadAll ==
    LET queue == fifo["commands"].data
        k == IF Len(queue) < ReadMax THEN Len(queue) ELSE ReadMax
    IN  /\ spc = "loop" /\ queue # <<>> /\ fifo["commands"].writers = {}
        /\ line' = SubSeq(queue, 1, k)
        /\ fifo' = [fifo EXCEPT !["commands"] = Drop(@, k)]
        /\ hits' = [hits EXCEPT ![Head(queue).by] = @ + 1]
        /\ spc' = "dispatch"
        /\ UNCHANGED <<made, taskVars, listVars, countVars>>

(***************************************************************************)
(* read takes whatever is queued, up to the size of line_buf; only the     *)
(* first byte selects the command.                                         *)
(***************************************************************************)
SrvRead ==
    LET queue == fifo["commands"].data
        k == IF Len(queue) < ReadMax THEN Len(queue) ELSE ReadMax
    IN  /\ spc = "loop" /\ queue # <<>>
        /\ line' = SubSeq(queue, 1, k)
        /\ fifo' = [fifo EXCEPT !["commands"] = Drop(@, k)]
        /\ hits' = [hits EXCEPT ![Head(queue).by] = @ + 1]
        /\ spc' = "dispatch"
        /\ UNCHANGED <<made, taskVars, listVars, countVars>>

(* Variant: no bytes read are dispatched like any others.                  *)
SrvReadEofDispatches ==
    /\ spc = "loop" /\ AtEof(fifo["commands"])
    /\ spc' = "dispatch" /\ line' = <<>>
    /\ UNCHANGED <<fifoVars, taskVars, listVars, hits, countVars>>

(* With no client connected read returns 0 and the loop spins.             *)
SrvReadEof ==
    /\ spc = "loop" /\ AtEof(fifo["commands"])
    /\ UNCHANGED <<fifoVars, serverVars>>

SrvReadFails == spc = "loop" /\ ServerEnds /\ UNCHANGED stops

(***************************************************************************)
(* A read that fills line_buf is terminated one byte behind it, which may  *)
(* end the server.  ReadMax lines need not fill it to the last byte.       *)
(***************************************************************************)
SrvReadOverruns ==
    /\ spc = "dispatch" /\ Len(line) = ReadMax
    /\ ServerEnds /\ UNCHANGED stops

Dispatching(flags) == spc = "dispatch" /\ Head(line).flag \in flags

(* The command is done: back to the read.                                  *)
Continue == spc' = "loop" /\ UNCHANGED fifoVars

(* Variant: the id is the number of the tasks that run.                    *)
ExecTaskCountsRunning ==
    LET pid == Len(procs) + 1 IN
    /\ Dispatching({"e"})
    /\ spc' = "loop"
    /\ running' = Append(running, [task_id |-> Len(running), process_group |-> pid,
                                   cmd |-> Head(line)])
    /\ total' = total + 1
    /\ procs' = Append(procs, "forked")
    /\ fifo' = WithFork(Server, pid)
    /\ UNCHANGED <<made, line, listVars, sig, hits, countVars>>

(* EXEC_TASK_FLAG: the parent's side of the fork, and tvec_push.           *)
ExecTask ==
    LET pid == Len(procs) + 1 IN
    /\ Dispatching({"e"})
    /\ spc' = "loop"
    /\ running' = Append(running, [task_id |-> total, process_group |-> pid,
                                   cmd |-> Head(line)])
    /\ total' = total + 1
    /\ procs' = Append(procs, "forked")
    /\ fifo' = WithFork(Server, pid)
    /\ UNCHANGED <<made, line, listVars, sig, hits, countVars>>

ExecTaskForkFails == Dispatching({"e"}) /\ ServerEnds /\ UNCHANGED stops

(* Out of memory, tvec_push stores through NULL: the child is forked, and  *)
(* the server crashes.                                                     *)
ExecTaskPushFails ==
    LET pid == Len(procs) + 1 IN
    /\ Dispatching({"e"})
    /\ EndsWith(WithFork(Server, pid), Append(procs, "forked"))
    /\ UNCHANGED stops

(* Variant: the id is taken for a place.                                   *)
IsPlaceOf(i, id) == i \in DOMAIN running /\ i = id + 1

(* tvec_search_by_tid_mut: the first task with that id.                    *)
IsIndexOf(i, id) ==
    /\ i \in DOMAIN running
    /\ running[i].task_id = id
    /\ \A j \in DOMAIN running : j < i => running[j].task_id # id

(* Variants: the last entry is moved to the place of the one removed; the  *)
(* tail is moved one entry too late.                                       *)
RmAt(s, i) == [j \in 1..(Len(s) - 1) |-> IF j = i THEN s[Len(s)] ELSE s[j]]
RmOrdAtLate(s, i) ==
    [j \in 1..(Len(s) - 1) |-> IF j <= i THEN s[j] ELSE s[j + 1]]

(* tvec_rm_ord_at: the tail is moved down over entry i.                    *)
RmOrdAt(s, i) ==
    [j \in 1..(Len(s) - 1) |-> IF j < i THEN s[j] ELSE s[j + 1]]

(***************************************************************************)
(* END_TASK_FLAG.  parse_size_slice hands isdigit a pointer: the table     *)
(* lookup behind it may fault (EndTaskFault), or read as "not a digit" or  *)
(* as "digit".  In the latter case the id is accepted when nothing but     *)
(* white space follows it, which is when the read held a single line.      *)
(***************************************************************************)
EndTaskFault ==
    /\ Dispatching({"t"})
    /\ ServerEnds /\ UNCHANGED stops

EndTaskIgnored ==
    /\ Dispatching({"t"})
    /\ Continue
    /\ UNCHANGED <<taskVars, line, listVars, hits, countVars>>

EndTaskFound(i) ==
    /\ Dispatching({"t"}) /\ Len(line) = 1
    /\ IsIndexOf(i, Head(line).arg)

EndTaskKill ==
    \E i \in DOMAIN running :
        /\ EndTaskFound(i)
        /\ GroupExists(running[i].process_group)
        /\ sig' = sig \cup {running[i].process_group}
        /\ running' = RmOrdAt(running, i)
        /\ Continue
        /\ UNCHANGED <<total, procs, line, listVars, hits, countVars>>

(* kill fails with ESRCH before the child's setsid: the server exits.      *)
EndTaskKillFails ==
    \E i \in DOMAIN running :
        /\ EndTaskFound(i)
        /\ ~GroupExists(running[i].process_group)
        /\ ServerEnds /\ UNCHANGED stops

(* SET_ACTIVE_TIMEOUT_FLAG, SET_INACTIVE_TIMEOUT_FLAG: accepted, ignored.  *)
(* LIST_FINISHED_TASKS_FLAG: finished_tasks never holds a task, so nothing *)
(* is written and the flush of an empty buffer writes nothing either.      *)
NoEffect ==
    /\ Dispatching({"m", "i", "r"})
    /\ Continue
    /\ UNCHANGED <<taskVars, line, listVars, hits, countVars>>

(***************************************************************************)
(* LIST_RUNNING_TASKS_FLAG: one entry per running task is added to the     *)
(* writer, and all it holds is written.  Every task_name points into       *)
(* line_buf, so that what is printed for each is the text of the current   *)
(* line.                                                                   *)
(***************************************************************************)
Entries ==
    [i \in DOMAIN running |-> [id |-> running[i].task_id, name |-> Head(line)]]

ListRunning ==
    /\ Dispatching({"l"})
    /\ listing' = listing \o Entries
    /\ shown' = listing'
    /\ Continue
    /\ UNCHANGED <<taskVars, line, hits, countVars>>

(* Descriptor 0 is not writable: the flush fails and the server exits.     *)
ListRunningFails ==
    /\ Dispatching({"l"}) /\ listing \o Entries # <<>>
    /\ ServerEnds /\ UNCHANGED stops

-----------------------------------------------------------------------------
(* The processes of the tasks.                                             *)

ChildSetsid(p) ==
    /\ procs[p] = "forked"
    /\ procs' = [procs EXCEPT ![p] = "leader"]
    /\ UNCHANGED <<fifoVars, spc, running, total, line, listVars, sig, hits,
                   countVars>>

(* Variant: the pipe ends of a child outlive it.                           *)
ChildEndsHoldsPipes(p) ==
    /\ procs[p] = "leader"
    /\ procs' = [procs EXCEPT ![p] = EndedState(p)]
    /\ UNCHANGED <<fifoVars, spc, running, total, line, listVars, sig, hits,
                   countVars>>

(***************************************************************************)
(* The child starts the programs of its task and ends, in a crash or by a  *)
(* SIGTERM; until then it holds the pipe ends it was forked with.          *)
(***************************************************************************)
ChildEnds(p) ==
    /\ procs[p] = "leader"
    /\ procs' = [procs EXCEPT ![p] = EndedState(p)]
    /\ fifo' = WithoutProcess(p)
    /\ UNCHANGED <<made, spc, running, total, line, listVars, sig, hits,
                   countVars>>

ChildStep == \E p \in Pids : ChildSetsid(p) \/ ChildEnds(p)

Dispatch ==
    \/ ExecTask
    \/ EndTaskFault \/ EndTaskIgnored \/ EndTaskKill \/ EndTaskKillFails
    \/ NoEffect
    \/ ListRunning \/ ListRunningFails

ServerStep == SrvOpened \/ SrvRead \/ Dispatch

(* What only a user, or a lack of resources, brings about.                 *)
Failure ==
    \/ SrvStop \/ SrvStartFails \/ SrvReadFails \/ SrvReadOverruns
    \/ ExecTaskForkFails \/ ExecTaskPushFails

ServerNext ==
    \/ SrvBoot \/ ServerStep \/ SrvReadEof
    \/ Failure
    \/ ChildStep
=============================================================================
