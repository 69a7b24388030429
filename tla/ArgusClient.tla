---------------------------- MODULE ArgusClient -----------------------------
(***************************************************************************)
(* The argus client (client.c): one process per invocation, either one     *)
(* command from the command line or, without arguments, the interactive    *)
(* shell.  Commands are sent through a BufWriter whose flush leaves its    *)
(* buffer as it is: every later flush sends all of it again, the one of    *)
(* the exit handler included.                                              *)
(***************************************************************************)
EXTENDS ArgusFifos

(* A command of the command line with its argument, or the shell.          *)
Jobs == [flag : Flags \cup {"shell"}, arg : TaskIds]

VARIABLES
    cpc,      \* "start", the pipe being opened, "reply", "reading", "prompt",
              \* "exit" or an end: "done", "failed", "killed"
    job,      \* what the client was started for, and the argument it is given
    wbuf,     \* the lines in the buffer of commands_writter
    typed     \* bound: how many lines may still be typed into a shell

clientVars == <<cpc, job, wbuf, typed>>

Shell(c) == job[c].flag = "shell"
CLI(c) == ~Shell(c)

(* The reply pipe of the last command sent.                                *)
ReplyPipe(c) == IF wbuf[c][Len(wbuf[c])].flag = "l" THEN "running" ELSE "finished"

(* Waiting for the end of a reply.                                         *)
Reading(c) == cpc[c] = "reading"

(* The clients in the set are yet to be started, the others never are.     *)
ClientInit(started) ==
    /\ cpc = [c \in Clients |-> IF c \in started THEN "start" ELSE "done"]
    /\ wbuf = [c \in Clients |-> <<>>]

Goto(c, to) == cpc' = [cpc EXCEPT ![c] = to]

(* The command line that client c sends next.                              *)
NewLine(c, flag, arg) ==
    [by |-> c, n |-> Len(wbuf[c]) + 1, flag |-> flag, arg |-> arg]

-----------------------------------------------------------------------------
(* Opening the pipes.                                                      *)

(* The open of the commands pipe: ENOENT before the first server.          *)
ClientOpenFails(c) ==
    /\ cpc[c] = "start" /\ ~made
    /\ Goto(c, "failed")
    /\ UNCHANGED <<fifoVars, job, wbuf, typed>>

(* An argument that is missing or is not a number: nothing is opened.      *)
ClientRefuses(c) ==
    /\ CLI(c) /\ job[c].flag \notin ListFlags /\ cpc[c] = "start"
    /\ Goto(c, "failed")
    /\ UNCHANGED <<fifoVars, job, wbuf, typed>>

ClientOpen(c) ==
    /\ cpc[c] = "start" /\ made
    /\ Goto(c, "commands")
    /\ fifo' = [fifo EXCEPT !["commands"] = OpenForWrite(@, c)]
    /\ UNCHANGED <<made, job, wbuf, typed>>

(* The shell opens both reply pipes as well before it prompts.             *)
ShellOpened(c) ==
    /\ Shell(c) /\ cpc[c] \in {"commands", "running"}
    /\ Returned(fifo[cpc[c]], c)
    /\ LET next == IF cpc[c] = "commands" THEN "running" ELSE "finished" IN
        /\ Goto(c, next)
        /\ fifo' = [fifo EXCEPT ![next] = OpenForRead(@, c)]
    /\ UNCHANGED <<made, job, wbuf, typed>>

ShellPrompts(c) ==
    /\ Shell(c) /\ cpc[c] = "finished"
    /\ Returned(fifo["finished"], c)
    /\ Goto(c, "prompt")
    /\ UNCHANGED <<fifoVars, job, wbuf, typed>>

(* A list command opens its reply pipe once its command is sent.           *)
CliOpenReply(c) ==
    /\ CLI(c) /\ cpc[c] = "reply"
    /\ Goto(c, ReplyPipe(c))
    /\ fifo' = [fifo EXCEPT ![ReplyPipe(c)] = OpenForRead(@, c)]
    /\ UNCHANGED <<made, job, wbuf, typed>>

CliReplyOpened(c) ==
    /\ CLI(c) /\ cpc[c] \in {"running", "finished"}
    /\ Returned(fifo[cpc[c]], c)
    /\ Goto(c, "reading")
    /\ UNCHANGED <<fifoVars, job, wbuf, typed>>

-----------------------------------------------------------------------------
(* Sending.                                                                *)

(* The pipe ends of a process close when it ends, however it ends.         *)
ClientEnds(c, how) ==
    /\ Goto(c, how)
    /\ fifo' = WithoutProcess(c)

(***************************************************************************)
(* A bw_flush of the lines buffered so far: all of them are queued, or     *)
(* SIGPIPE ends the client when no process reads commands any more.        *)
(***************************************************************************)
Flush(c, lines, to) ==
    IF Broken(fifo["commands"])
    THEN ClientEnds(c, "killed")
    ELSE /\ Goto(c, to)
         /\ fifo' = [fifo EXCEPT !["commands"] = Put(@, lines)]

(* Variant: write_cmd is called once more, as for a retry.                 *)
CliSendRetries(c) ==
    /\ CLI(c) /\ cpc[c] = "commands"
    /\ Returned(fifo["commands"], c)
    /\ LET lines == Append(wbuf[c], NewLine(c, job[c].flag, job[c].arg)) IN
        /\ wbuf' = [wbuf EXCEPT ![c] = lines]
        /\ Flush(c, lines, IF wbuf[c] = <<>> THEN "commands" ELSE "exit")
    /\ UNCHANGED <<made, job, typed>>

(* write_cmd, after the open has returned.                                 *)
CliSend(c) ==
    /\ CLI(c) /\ cpc[c] = "commands"
    /\ Returned(fifo["commands"], c)
    /\ LET lines == Append(wbuf[c], NewLine(c, job[c].flag, job[c].arg)) IN
        /\ wbuf' = [wbuf EXCEPT ![c] = lines]
        /\ Flush(c, lines, IF job[c].flag \in ListFlags THEN "reply" ELSE "exit")
    /\ UNCHANGED <<made, job, typed>>

(* is_empty_str: its "return" is missing, so that every string is empty.   *)
IsEmptyStr(arg) == TRUE

(***************************************************************************)
(* A line typed into the shell: a command with an argument is turned away  *)
(* where the argument is found empty, the list commands go to write_cmd_i. *)
(***************************************************************************)
Accepted(flag, arg) == flag \in ListFlags \/ ~IsEmptyStr(arg)

ShellType(c) ==
    \E flag \in Flags :
        /\ Shell(c) /\ cpc[c] = "prompt" /\ typed[c] > 0
        /\ typed' = [typed EXCEPT ![c] = @ - 1]
        /\ IF Accepted(flag, job[c].arg)
           THEN LET lines == Append(wbuf[c], NewLine(c, flag, job[c].arg)) IN
                /\ wbuf' = [wbuf EXCEPT ![c] = lines]
                /\ Flush(c, lines, IF flag \in ListFlags THEN "reading" ELSE "prompt")
           ELSE UNCHANGED <<cpc, wbuf, fifo>>
        /\ UNCHANGED <<made, job>>

-----------------------------------------------------------------------------
(* Reading the reply, and the end.                                         *)

(***************************************************************************)
(* The reply is read until read returns 0.  No process ever writes to a    *)
(* reply pipe, so that the end of the file is all a read can return: when  *)
(* the server and every process it forked have closed their write ends.    *)
(***************************************************************************)
ReplyEnds(c) ==
    /\ Reading(c)
    /\ AtEof(fifo[ReplyPipe(c)])
    /\ Goto(c, IF Shell(c) THEN "prompt" ELSE "exit")
    /\ UNCHANGED <<fifoVars, job, wbuf, typed>>

(* End of file on the shell's standard input.                              *)
ShellQuit(c) ==
    /\ Shell(c) /\ cpc[c] = "prompt"
    /\ Goto(c, "exit")
    /\ UNCHANGED <<fifoVars, job, wbuf, typed>>

(***************************************************************************)
(* The exit handlers: drop_commands_writer flushes what the buffer still   *)
(* holds, and the pipes are closed.                                        *)
(***************************************************************************)
Leave(c) ==
    /\ cpc[c] = "exit"
    /\ IF wbuf[c] # <<>> /\ Broken(fifo["commands"])
       THEN ClientEnds(c, "killed")
       ELSE /\ Goto(c, "done")
            /\ fifo' = [f \in FifoNames |->
                            Close(IF f = "commands" THEN Put(fifo[f], wbuf[c])
                                                    ELSE fifo[f], c)]
    /\ UNCHANGED <<made, job, wbuf, typed>>

(* SIGINT or SIGKILL: the client has no handler, and exit handlers do not  *)
(* run.                                                                    *)
ClientInterrupted(c) ==
    /\ cpc[c] \in FifoNames \cup {"reply", "reading", "prompt", "exit"}
    /\ ClientEnds(c, "killed")
    /\ UNCHANGED <<made, job, wbuf, typed>>

(* What a client does on its own, without a user.                          *)
ClientStep(c) ==
    \/ ShellOpened(c) \/ ShellPrompts(c)
    \/ CliSend(c) \/ CliOpenReply(c) \/ CliReplyOpened(c)
    \/ ReplyEnds(c) \/ Leave(c)

ClientNext(c) ==
    \/ ClientOpenFails(c) \/ ClientRefuses(c) \/ ClientOpen(c)
    \/ ShellType(c) \/ ShellQuit(c) \/ ClientInterrupted(c)
    \/ ClientStep(c)
=============================================================================
