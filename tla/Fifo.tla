-------------------------------- MODULE Fifo --------------------------------
(***************************************************************************)
(* A named pipe of the kernel (fifo(7)) as server.c and client.c use it:   *)
(* blocking opens, writes no longer than PIPE_BUF, close at process exit.  *)
(* The pipe is a record                                                    *)
(*   readers, writers: the processes that hold an end, those still inside  *)
(*                     open(2) included;                                   *)
(*   opening:          the processes blocked inside open(2), waiting for   *)
(*                     a partner on the other end;                         *)
(*   data:             what was written and not yet read.                  *)
(* Operators only: the variables that hold pipes are in ArgusFifos.        *)
(***************************************************************************)
EXTENDS Naturals, Sequences

EmptyFifo == [readers |-> {}, writers |-> {}, opening |-> {}, data |-> <<>>]

(***************************************************************************)
(* open(2) without O_NONBLOCK: the caller counts as an end from the start  *)
(* of the call, wakes those that wait on the other end, and waits itself   *)
(* when the other end is empty.  Once woken it stays woken: open returns   *)
(* even when the partner has left in the meantime.                         *)
(***************************************************************************)
OpenForRead(f, p) ==
    [f EXCEPT !.readers = @ \cup {p},
              !.opening = IF f.writers = {} THEN @ \cup {p} ELSE @ \ f.writers]

OpenForWrite(f, p) ==
    [f EXCEPT !.writers = @ \cup {p},
              !.opening = IF f.readers = {} THEN @ \cup {p} ELSE @ \ f.readers]

Returned(f, p) == p \notin f.opening

(* close(2), or the end of p: what nobody holds any longer is discarded.   *)
Close(f, p) ==
    LET R == f.readers \ {p}
        W == f.writers \ {p}
    IN  [readers |-> R, writers |-> W, opening |-> f.opening \ {p},
         data |-> IF R \cup W = {} THEN <<>> ELSE f.data]

(* fork(2): the child q holds every end that p holds.                      *)
Inherit(f, p, q) ==
    [f EXCEPT !.readers = IF p \in @ THEN @ \cup {q} ELSE @,
              !.writers = IF p \in @ THEN @ \cup {q} ELSE @]

(* write(2): raises SIGPIPE when Broken(f), else the data is queued whole. *)
Broken(f) == f.readers = {}
Put(f, lines) == [f EXCEPT !.data = @ \o lines]

(* read(2): 0 bytes when nothing is queued and nobody can write any more.  *)
AtEof(f) == f.data = <<>> /\ f.writers = {}
Drop(f, k) == [f EXCEPT !.data = SubSeq(@, k + 1, Len(@))]
=============================================================================
