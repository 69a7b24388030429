---------------------------- MODULE ClientInput -----------------------------
(***************************************************************************)
(* How the client (client.c) makes the line that it sends out of what the  *)
(* user gives it: an argument of the command line, or a line typed into    *)
(* the shell.  Operators only; the numbers in it go through ParseSize.     *)
(***************************************************************************)
EXTENDS Characters, SequencesExt

CONSTANT
    Names       \* the commands of the shell in the order in which find_cmd
                \* tries them: records of a name and a letter

CmdFlags == {"e", "t", "m", "i", "l", "r", "h"}
NumberFlags == {"t", "m", "i"}
ListFlags == {"l", "r"}

ASSUME NamesAssumption ==
    /\ Len(Names) \in Nat /\ DOMAIN Names = 1..Len(Names)
    /\ \A n \in ToSet(Names) : n.name # <<>> /\ n.flag \in CmdFlags

(* arg_strs, with its length of two.                                       *)
ArgStr(flag) == <<flag, Blank>>

(* write_cmd and write_cmd_i: the letter and a blank, then the argument    *)
(* and a newline.  The list commands have no argument.                     *)
LineWith(flag, arg) == ArgStr(flag) \o Append(arg, Blank)
ListLine(flag) == Append(ArgStr(flag), Blank)

-----------------------------------------------------------------------------
(* A line typed into the shell.                                            *)

WordStart(s) == Past(s, {Blank}, 1)
WordEnd(s) == UpTo(s, {Blank}, WordStart(s))
FirstWord(s) == SubSeq(s, WordStart(s), WordEnd(s) - 1)

(***************************************************************************)
(* find_cmd compares as many characters as the word has: a word finds the  *)
(* first command whose name begins with it.                                *)
(***************************************************************************)
Abbreviates(word, name) == IsPrefix(word, name)

Found(word) == {k \in DOMAIN Names : Abbreviates(word, Names[k].name)}
FindCmd(word) ==
    IF Found(word) = {} THEN "unknown" ELSE Names[Min(Found(word))].flag

(* is_empty_str: its "return" is missing, so that every string is empty.   *)
IsEmptyStr(s) == TRUE

(***************************************************************************)
(* What becomes of the line: nothing, help, a refusal, or a line to send.  *)
(* Behind the test for an empty argument the shell would parse and send    *)
(* it; no line gets there.                                                 *)
(***************************************************************************)
Rejected(s) ==
    LET word == FirstWord(s)
        flag == FindCmd(word)
        arg == SubSeq(s, WordEnd(s), Len(s))
    IN  \/ word = <<>>
        \/ flag \in {"unknown", "h"}
        \/ flag \notin ListFlags /\ IsEmptyStr(arg)
=============================================================================
