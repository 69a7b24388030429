------------------------------- MODULE Argus --------------------------------
(***************************************************************************)
(* The whole system: one argus server, the processes it forks, and the     *)
(* clients, joined by the three named pipes.  The properties of the two    *)
(* programs together are stated here.                                      *)
(***************************************************************************)
EXTENDS ArgusServer, ArgusClient

(***************************************************************************)
(* What the users do, and how often: the clients they start and what for,  *)
(* and bounds on the starts and stops of the server and on the lines typed *)
(* into a shell.                                                           *)
(***************************************************************************)
CONSTANT Scenarios

ASSUME ScenariosAssumption ==
    Scenarios \subseteq [started : SUBSET Clients, jobs : [Clients -> Jobs],
                         boots : Nat, stops : Nat, typed : Nat]

vars == <<fifoVars, serverVars, clientVars>>

Init ==
    \E s \in Scenarios :
        /\ FifoInit /\ ServerInit /\ ClientInit(s.started)
        /\ job = s.jobs /\ typed = [c \in Clients |-> s.typed]
        /\ boots = s.boots /\ stops = s.stops

Next ==
    \/ ServerNext /\ UNCHANGED clientVars
    \/ \E c \in Clients : ClientNext(c) /\ UNCHANGED serverVars

Spec == Init /\ [][Next]_vars

(***************************************************************************)
(* Fairness: the kernel schedules every process that can run, so each step *)
(* a process takes on its own is eventually taken.  Of the server's        *)
(* children it is enough that one of them moves.  Starting and stopping    *)
(* the server and starting, typing into, quitting and interrupting a client *)
(* are the user's, and nothing makes them happen; nor the failure of a call.*)
(***************************************************************************)
ServerFairness ==
    /\ WF_vars(ServerStep /\ UNCHANGED clientVars)
    /\ WF_vars(ChildStep /\ UNCHANGED clientVars)
ClientFairness == \A c \in Clients : WF_vars(ClientStep(c) /\ UNCHANGED serverVars)

FairSpec == Spec /\ ServerFairness /\ ClientFairness

-----------------------------------------------------------------------------
(* Types.                                                                  *)

Processes == {Server} \cup Clients \cup Nat
Tasks == [task_id : Nat, process_group : Nat, cmd : Lines]
EndStates == {"done", "failed", "killed"}

FifoType ==
    /\ made \in BOOLEAN
    /\ fifo \in [FifoNames -> [readers : SUBSET Processes, writers : SUBSET Processes,
                               opening : SUBSET Processes, data : Seq(Lines)]]

ServerType ==
    /\ spc \in FifoNames \cup {"down", "loop", "dispatch"}
    /\ running \in Seq(Tasks) /\ total \in Nat
    /\ line \in Seq(Lines) /\ (spc = "dispatch" => line # <<>>)
    /\ listing \in Seq([id : Nat, name : Lines])
    /\ shown \in Seq([id : Nat, name : Lines])
    /\ procs \in Seq(ProcStates) /\ sig \subseteq Nat
    /\ hits \in [Clients -> Nat] /\ boots \in Nat /\ stops \in Nat

ClientType ==
    /\ job \in [Clients -> Jobs]
    /\ cpc \in [Clients -> FifoNames \cup EndStates
                           \cup {"start", "reply", "reading", "prompt", "exit"}]
    /\ wbuf \in [Clients -> Seq(Lines)]
    /\ typed \in [Clients -> Nat]

(* Every variable of both programs holds a value of its type, and a command *)
(* is dispatched only from a line_buf that a read has filled.               *)
TypeOK == FifoType /\ ServerType /\ ClientType

-----------------------------------------------------------------------------
(* Safety: what the server knows of its tasks.                             *)

(* The process groups of the running tasks.                                *)
Recorded == {running[i].process_group : i \in DOMAIN running}

(* The running tasks are in the order of their ids, each id below the next *)
(* one to be given out: tvec_push and tvec_rm_ord_at keep the order, and   *)
(* no id is given out twice.                                               *)
RunningOrdered ==
    /\ \A i, j \in DOMAIN running : i < j => running[i].task_id < running[j].task_id
    /\ \A i \in DOMAIN running : running[i].task_id < total

(* An id names the process that was forked for it, through every removal   *)
(* and restart: "terminar n" reaches the task that was announced as n.     *)
IdNamesItsProcess ==
    \A i \in DOMAIN running :
        running[i].process_group = Len(procs) - total + 1 + running[i].task_id

(* The process group of a running task belongs to a child that was not     *)
(* reaped, so that kill(-process_group) cannot reach a stranger that was   *)
(* given the same pid later.                                               *)
NoGroupIsReused ==
    \A i \in DOMAIN running :
        /\ running[i].process_group \in Pids
        /\ procs[running[i].process_group] # "gone"

(* Every process the present server forked for a task is either listed as  *)
(* running or was sent the signal it was removed for, and never both: no   *)
(* task is forgotten by a removal and none is signalled twice.             *)
NoTaskForgotten == spc # "down" => Recorded = Forked \ sig

(* A client started with a command in its arguments has it dispatched at   *)
(* most twice: once for its flush and once for that of its exit handler.   *)
AtMostTwice == \A c \in Clients : CLI(c) => hits[c] <= 2

(* "terminar n" signals the process that the present server forked as its  *)
(* task n, and takes that task and no other off the list: whatever was     *)
(* removed before it, however often the command arrives, and never a       *)
(* process that an earlier server started under the same id.               *)
EndsTheTaskNamed ==
    [][\A p \in sig' \ sig :
         /\ p \in Forked /\ p = Len(procs) - total + 1 + Head(line).arg
         /\ Recorded' = Recorded \ {p}]_vars

-----------------------------------------------------------------------------
(* Liveness.                                                               *)

(* Server and shell open the three pipes in the same order: once a shell   *)
(* is at the commands pipe of a server that starts, the server reaches its *)
(* loop, whatever other clients come and go, unless one of the two is      *)
(* stopped from outside.                                                   *)
ShellBringsServerUp ==
    \A c \in Clients :
        (Shell(c) /\ cpc[c] = "commands" /\ spc \in FifoNames)
            ~> (spc \in {"loop", "down"} \/ cpc[c] = "killed")

(* What a client has sent to a server in its loop is read, unless the      *)
(* server goes down: no command waits for ever behind those of others.     *)
Sent(c) == \E i \in DOMAIN fifo["commands"].data : fifo["commands"].data[i].by = c
Serving == spc \in {"loop", "dispatch"}
SentIsRead == \A c \in Clients : (Serving /\ Sent(c)) ~> (~Sent(c) \/ spc = "down")

(* A client that waits for the end of its reply is released once the last  *)
(* server is down, although the processes of its tasks still hold the      *)
(* write end it left behind.                                               *)
ReadersReleased ==
    \A c \in Clients :
        (Reading(c) /\ spc = "down" /\ boots = 0) ~> ~Reading(c)

-----------------------------------------------------------------------------
(* What docs and comments say and the program does not do.                 *)

(* client.c:229 "Execute a task": an invocation with -e executes its task  *)
(* once.                                                                   *)
ExecutedOnce == \A c \in Clients : job[c].flag = "e" => hits[c] <= 1

(* server.c:275: line_buf holds one command line.                          *)
OneLinePerRead == Len(line) <= 1

(* client.c:234 "List all active tasks": an entry shows the command its    *)
(* task was started with.                                                  *)
ListsTheirNames ==
    [][\A i \in DOMAIN running, j \in DOMAIN shown' :
         shown'[j].id = running[i].task_id => shown'[j].name = running[i].cmd]_vars

(* client.c:234 "List all active tasks": a client that asks a server in its *)
(* loop for the list gets it and ends, unless it is killed before.          *)
ListAnswered ==
    \A c \in Clients :
        (CLI(c) /\ Reading(c) /\ Serving) ~> cpc[c] \in {"done", "killed"}
=============================================================================
