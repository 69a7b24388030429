----------------------------- MODULE ArgusFifos -----------------------------
(***************************************************************************)
(* What the server and its clients share: the three named pipes of         *)
(* /tmp/argus, and the command lines that travel in them.                  *)
(***************************************************************************)
EXTENDS Naturals, Sequences, FiniteSets, Fifo

CONSTANTS Clients,   \* the client processes, one per invocation
          Server,    \* the server process
          TaskIds    \* the ids a user may ask to end

VARIABLES fifo,      \* the pipes by name
          made       \* the pipes exist in the file system

fifoVars == <<fifo, made>>

FifoNames == {"commands", "running", "finished"}
ListFlags == {"l", "r"}
Flags == {"e", "t", "m", "i"} \cup ListFlags

(***************************************************************************)
(* A command line: its flag, the id after the flag where it is a number,   *)
(* and which line of which client it is, which stands for its text.        *)
(***************************************************************************)
Lines == [by : Clients, n : Nat, flag : Flags, arg : TaskIds]

FifoInit ==
    /\ fifo = [f \in FifoNames |-> EmptyFifo]
    /\ made = FALSE

(* The pipes once process p has ended, and once a child q of p was forked. *)
WithoutProcess(p) == [f \in FifoNames |-> Close(fifo[f], p)]
WithFork(p, q) == [f \in FifoNames |-> Inherit(fifo[f], p, q)]
=============================================================================
