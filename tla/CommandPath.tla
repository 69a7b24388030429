---------------------------- MODULE CommandPath -----------------------------
(***************************************************************************)
(* One command on its way: what the user gives to the client, the line the *)
(* client makes of it, the read buffer in which the server finds it,       *)
(* perhaps with other lines behind it, and what the server does with the   *)
(* text of it.  Pipes and the books of the server are left to Argus.       *)
(***************************************************************************)
EXTENDS ParseSize, ClientInput, TaskExec

CONSTANTS
    Inputs,    \* what users give: records of a mode, a flag and a text
    Others     \* what one read may return behind the line, <<>> included

(***************************************************************************)
(* A text is a string without its end.  Behind the line there are whole    *)
(* lines: a command letter in front, a newline at the end (write_cmd,      *)
(* client.c:64-100; lines too long for that are left to CommandStream).    *)
(***************************************************************************)
ASSUME PathAssumption ==
    /\ Blank \in DOMAIN Code /\ Nul \notin DOMAIN Code
    /\ CmdFlags \cap (Digits \cup {Blank}) = {}
    /\ \A i \in Inputs :
         i.mode \in {"cli", "shell"} /\ i.text \in Seq(DOMAIN Code)
    /\ <<>> \in Others /\ Others \subseteq Seq(DOMAIN Code)
    /\ \A o \in Others \ {<<>>} : o[1] \in CmdFlags /\ o[Len(o)] = Blank

VARIABLES
    pc,        \* where the command is
    given,     \* what the user gave
    id,        \* the number the client read, 0 before
    line,      \* the line sent
    more       \* what the server has read with it

pathVars == <<pc, given, id, line, more>>
allVars == <<pathVars, parseVars, execVars>>

Init ==
    /\ given \in Inputs
    /\ pc = "start" /\ id = 0 /\ line = <<>> /\ more = <<>>
    /\ ParseInit /\ ExecInit

-----------------------------------------------------------------------------
(* The client.                                                             *)

Sent(l) == pc' = "sent" /\ line' = l /\ UNCHANGED <<given, more>>
From(mode, flags) == pc = "start" /\ given.mode = mode /\ given.flag \in flags

(* -e: any text, unchecked.                                                *)
SendTask ==
    /\ From("cli", {"e"}) /\ Sent(LineWith("e", given.text))
    /\ UNCHANGED <<id, parseVars, execVars>>

SendList ==
    /\ From("cli", ListFlags) /\ Sent(ListLine(given.flag))
    /\ UNCHANGED <<id, parseVars, execVars>>

(* -t, -m, -i: the number is checked, and then sent as the user wrote it.  *)
CheckNumber ==
    /\ From("cli", NumberFlags) /\ Call("parse_size", given.text)
    /\ pc' = "checking"
    /\ UNCHANGED <<given, id, line, more, execVars>>

SendNumber ==
    /\ pc = "checking" /\ Parsed /\ outcome = "OK"
    /\ id' = size /\ Sent(LineWith(given.flag, given.text))
    /\ UNCHANGED <<parseVars, execVars>>

RefuseNumber ==
    /\ pc = "checking" /\ Parsed /\ outcome # "OK"
    /\ pc' = "refused"
    /\ UNCHANGED <<given, id, line, more, parseVars, execVars>>

ShellSends ==
    /\ From("shell", {"any"}) /\ ~Rejected(given.text)
    /\ Sent(ListLine(FindCmd(FirstWord(given.text))))
    /\ UNCHANGED <<id, parseVars, execVars>>

ShellRejects ==
    /\ From("shell", {"any"}) /\ Rejected(given.text)
    /\ pc' = "refused"
    /\ UNCHANGED <<given, id, line, more, parseVars, execVars>>

-----------------------------------------------------------------------------
(* The server.                                                             *)

(* read, into line_buf.                                                    *)
Read ==
    /\ pc = "sent" /\ more' \in Others /\ pc' = "read"
    /\ UNCHANGED <<given, id, line, parseVars, execVars>>

LineBuf == line \o more
Dispatch(flags) == pc = "read" /\ LineBuf[1] \in flags
Argument == SubSeq(LineBuf, 3, Len(LineBuf))

ExecTask ==
    /\ Dispatch({"e"}) /\ Launch(Argument)
    /\ pc' = "running"
    /\ UNCHANGED <<given, id, line, more, parseVars>>

(* Variant: the first byte of the argument is skipped.                     *)
EndTaskSkips ==
    /\ Dispatch({"t"}) /\ Call("parse_size_slice", Tail(Argument))
    /\ pc' = "serving"
    /\ UNCHANGED <<given, id, line, more, execVars>>

EndTask ==
    /\ Dispatch({"t"}) /\ Call("parse_size_slice", Argument)
    /\ pc' = "serving"
    /\ UNCHANGED <<given, id, line, more, execVars>>

(* The commands that have no argument, or none that matters.               *)
NoText ==
    /\ Dispatch({"m", "i", "l", "r"})
    /\ pc' = "done"
    /\ UNCHANGED <<given, id, line, more, parseVars, execVars>>

Parse ==
    /\ pc \in {"checking", "serving"} /\ ParseStep
    /\ UNCHANGED <<pathVars, execVars>>

Run == ExecStep /\ UNCHANGED <<pathVars, parseVars>>

ClientNext ==
    \/ SendTask \/ SendList \/ CheckNumber \/ SendNumber \/ RefuseNumber
    \/ ShellSends \/ ShellRejects

ServerNext == Read \/ ExecTask \/ EndTask \/ NoText

Next == ClientNext \/ ServerNext \/ Parse \/ Run

(* The supervisors are never blocked: cutting, forking and breaking down   *)
(* are steps of their own.                                                 *)
Fairness == WF_allVars(SupStep /\ UNCHANGED <<pathVars, parseVars>>)

Spec == Init /\ [][Next]_allVars
FairSpec == Spec /\ Fairness

-----------------------------------------------------------------------------
(* Properties.                                                             *)

TypeOK ==
    /\ pc \in {"start", "checking", "refused", "sent", "read", "serving",
               "running", "done"}
    /\ given.mode \in {"cli", "shell"} /\ more \in Others /\ id \in 0..MaxSize
    /\ line # <<>> => line[1] \in CmdFlags
    /\ ParseTypeOK /\ ExecTypeOK

(***************************************************************************)
(* The two ends parse with different functions, over different bytes: the  *)
(* server finds the number that the client has checked, and finds it only  *)
(* when the read held nothing else (client.c:574-617, server.c:338-344).   *)
(***************************************************************************)
SameIdAtBothEnds ==
    pc = "serving" /\ Parsed =>
        /\ outcome = "OK" => size = id /\ more = <<>>
        /\ outcome = "OK" \/ more # <<>> \/ Misjudged
=============================================================================
