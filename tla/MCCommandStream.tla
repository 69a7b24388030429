-------------------------- MODULE MCCommandStream ---------------------------
(***************************************************************************)
(* Small instances of CommandStream for TLC.                               *)
(***************************************************************************)
EXTENDS CommandStream, TLC

CONSTANTS c1, c2
MCClients == {c1, c2}

(* With a buffer of 6 and a PIPE_BUF of 4, arguments of 0 and 1 make short *)
(* commands, 2 one that is buffered but cut by the pipe, 4 fills the       *)
(* buffer without its newline, 5 spills over it and 7 does not go into it. *)
Args(a, b) == c1 :> a @@ c2 :> b
MCLengths == {Args(1, k) : k \in {1, 2, 4, 5, 7}} \cup {Args(0, 1)}
=============================================================================
