--------------------------- MODULE CommandStream ----------------------------
(***************************************************************************)
(* The commands pipe byte by byte: what ArgusFifos takes for whole lines.  *)
(* Each client sends one command through its BufWriter, in as many writes  *)
(* as the writer makes of it; the pipe takes a write apart when it is too  *)
(* long; the server reads whatever is there.  Byte k of what client c      *)
(* hands to its writer is <<c, k>>.                                        *)
(***************************************************************************)
EXTENDS Naturals, Sequences

CONSTANTS
    Clients,
    Lengths,     \* the lengths the arguments may have, client by client
    Cap,         \* DEFAULT_CAP, and LINE_BUF_SIZE of the server
    PipeBuf,     \* PIPE_BUF
    PipeCap      \* what the pipe holds

ASSUME SizesAssumption ==
    /\ Cap \in Nat /\ PipeBuf \in Nat /\ PipeCap \in Nat
    /\ 0 < PipeBuf /\ PipeBuf <= Cap /\ PipeBuf <= PipeCap
    /\ 2 < Cap      \* the letter and the blank of a command leave room
ASSUME LengthsAssumption == Lengths \subseteq [Clients -> Nat]

VARIABLES
    len,         \* how many bytes the argument of each client has
    cpc,         \* the call each client makes next: "letter", "line", "flush"
                 \* or "drop"; "done", or "killed" by SIGPIPE
    wbuf, wacc,  \* buf and acc of the writer of each client
    pending,     \* what the write(2) a client is in has still to transfer
    atomic,      \* that write is of no more than PIPE_BUF bytes
    pipe,        \* the bytes in the pipe
    got,         \* what the last read returned
    before,      \* how many bytes the one before it returned
    up           \* the server has not broken down

vars == <<len, cpc, wbuf, wacc, pending, atomic, pipe, got, before, up>>

(* The plans of BufWriter, for the writer of client c.                     *)
Writer(c) == INSTANCE BufWriter WITH
    Caps <- {Cap}, MaxWrite <- 0, MaxBytes <- 0, MaxOut <- 0, MayBeShort <- FALSE,
    cap <- Cap, buf <- wbuf[c], st <- "open", acc <- wacc[c], out <- <<>>, gone <- {}

Init ==
    /\ len \in Lengths
    /\ cpc = [c \in Clients |-> "letter"]
    /\ wbuf = [c \in Clients |-> <<>>] /\ wacc = [c \in Clients |-> 0]
    /\ pending = [c \in Clients |-> <<>>] /\ atomic = [c \in Clients |-> TRUE]
    /\ pipe = <<>> /\ got = <<>> /\ before = 0 /\ up = TRUE

-----------------------------------------------------------------------------
(* The clients.                                                            *)

Bytes(c, ks) == [i \in DOMAIN ks |-> <<c, ks[i]>>]

(* A call of the writer; what it emits goes into one write(2) or writev(2).*)
Does(c, plan, n, next) ==
    /\ pending[c] = <<>>
    /\ pending' = [pending EXCEPT ![c] = Bytes(c, plan.emit)]
    /\ atomic' = [atomic EXCEPT ![c] = Len(plan.emit) <= PipeBuf]
    /\ wbuf' = [wbuf EXCEPT ![c] = plan.keep]
    /\ wacc' = [wacc EXCEPT ![c] = @ + n]
    /\ cpc' = [cpc EXCEPT ![c] = next]
    /\ UNCHANGED <<len, pipe, got, before, up>>

(* Variant: the letter is sent by itself.                                  *)
PutLetterFlushed(c) ==
    /\ cpc[c] = "letter"
    /\ Does(c, Writer(c)!Plan(Writer(c)!Fresh(2), <<>>), 2, "line")

(* write_cmd: the letter and a blank, the argument and a newline, a flush; *)
(* and the flush of the exit handler.                                      *)
PutLetter(c) ==
    cpc[c] = "letter" /\ Does(c, Writer(c)!WritePlan(2), 2, "line")
PutArgument(c) ==
    cpc[c] = "line" /\ Does(c, Writer(c)!WriteLinePlan(len[c]), len[c] + 1, "flush")
Flush(c) == cpc[c] = "flush" /\ Does(c, Writer(c)!FlushPlan, 0, "drop")
Drop(c) == cpc[c] = "drop" /\ Does(c, Writer(c)!FlushPlan, 0, "done")

-----------------------------------------------------------------------------
(* The pipe.                                                               *)

(***************************************************************************)
(* pipe(7): a write of up to PIPE_BUF bytes goes in whole once there is    *)
(* room for all of it; a longer one goes in in pieces, down to the last    *)
(* byte of it, as room allows and with the bytes of others between them.   *)
(***************************************************************************)
Room == PipeCap - Len(pipe)
Pieces(c) ==
    LET n == Len(pending[c])
    IN  IF atomic[c] THEN {n} \cap 1..Room ELSE (1..n) \cap (1..Room)

Transfer(c) ==
    /\ up /\ pending[c] # <<>>
    /\ \E k \in Pieces(c) :
        /\ pipe' = pipe \o SubSeq(pending[c], 1, k)
        /\ pending' = [pending EXCEPT ![c] = SubSeq(@, k + 1, Len(@))]
    /\ UNCHANGED <<len, cpc, wbuf, wacc, atomic, got, before, up>>

(* SIGPIPE, once the server is gone.                                       *)
Killed(c) ==
    /\ ~up /\ pending[c] # <<>>
    /\ cpc' = [cpc EXCEPT ![c] = "killed"]
    /\ pending' = [pending EXCEPT ![c] = <<>>]
    /\ UNCHANGED <<len, wbuf, wacc, atomic, pipe, got, before, up>>

-----------------------------------------------------------------------------
(* The server.                                                             *)

(* Variant: the size of line_buf is not looked at.                         *)
ReadSizeUnbounded == Len(pipe)
ReadSize == IF Len(pipe) < Cap THEN Len(pipe) ELSE Cap

(* Variant: the read waits until it can fill line_buf, as fread does.      *)
ReadWhenFull ==
    /\ up /\ Len(pipe) >= Cap
    /\ got' = SubSeq(pipe, 1, ReadSize)
    /\ pipe' = SubSeq(pipe, ReadSize + 1, Len(pipe))
    /\ before' = Len(got)
    /\ UNCHANGED <<len, cpc, wbuf, wacc, pending, atomic, up>>

Read ==
    /\ up /\ pipe # <<>>
    /\ got' = SubSeq(pipe, 1, ReadSize)
    /\ pipe' = SubSeq(pipe, ReadSize + 1, Len(pipe))
    /\ before' = Len(got)
    /\ UNCHANGED <<len, cpc, wbuf, wacc, pending, atomic, up>>

(* The terminator behind a full read is stored behind line_buf: whatever   *)
(* it hits, the server may break down.                                     *)
BreaksDown ==
    /\ up /\ Len(got) = Cap
    /\ up' = FALSE /\ pipe' = <<>>
    /\ UNCHANGED <<len, cpc, wbuf, wacc, pending, atomic, got, before>>

ClientStep(c) ==
    \/ PutLetter(c) \/ PutArgument(c) \/ Flush(c) \/ Drop(c)
    \/ Transfer(c) \/ Killed(c)

Next == Read \/ BreaksDown \/ \E c \in Clients : ClientStep(c)

(* The server is in its loop, and a client waits for nothing but room in   *)
(* the pipe.                                                               *)
Fairness == WF_vars(Read) /\ \A c \in Clients : WF_vars(ClientStep(c))

Spec == Init /\ [][Next]_vars
FairSpec == Spec /\ Fairness

-----------------------------------------------------------------------------
(* Properties.                                                             *)

CmdSize(c) == len[c] + 3
IsByte(b) == b[1] \in Clients /\ b[2] \in 1..CmdSize(b[1])

TypeOK ==
    /\ \A c \in Clients :
        /\ cpc[c] \in {"letter", "line", "flush", "drop", "done", "killed"}
        /\ \A i \in DOMAIN wbuf[c] : wbuf[c][i] \in 1..wacc[c]
        /\ \A i \in DOMAIN pending[c] : IsByte(pending[c][i])
        /\ Len(wbuf[c]) <= Cap /\ wacc[c] <= CmdSize(c)
    /\ \A i \in DOMAIN pipe : IsByte(pipe[i])
    /\ Len(pipe) <= PipeCap /\ Len(got) <= Cap /\ before <= Cap
    /\ atomic \in [Clients -> BOOLEAN]

(* A command that reaches the pipe in one piece.                           *)
Short(c) == CmdSize(c) <= PipeBuf

First(b) == b[2] = 1
Last(b) == b[2] = CmdSize(b[1])
After(b) == <<b[1], b[2] + 1>>
Follows(a, b) == IF Last(a) THEN First(b) ELSE b = After(a)

(***************************************************************************)
(* However the writer cuts what it is given, a command that is no longer   *)
(* than PIPE_BUF stays whole in the pipe, both times that it is sent:      *)
(* nobody else's bytes get between its own (client.c:48-88, buf_writer.c). *)
(***************************************************************************)
LinesWhole ==
    \A i \in DOMAIN pipe : Short(pipe[i][1]) /\ ~Last(pipe[i]) =>
        i < Len(pipe) /\ pipe[i + 1] = After(pipe[i])

(***************************************************************************)
(* What a read returns starts with the letter of a command and ends with a *)
(* newline, as the dispatch takes for granted, unless the read is full, or *)
(* the one before it was, or a command longer than PIPE_BUF is in it       *)
(* (server.c:238-252).                                                     *)
(***************************************************************************)
ReadsWholeLines ==
    got # <<>> /\ Len(got) < Cap /\ before < Cap
        /\ (\A i \in DOMAIN got : Short(got[i][1])) =>
            /\ First(got[1]) /\ Last(got[Len(got)])
            /\ \A i \in 1..(Len(got) - 1) : Follows(got[i], got[i + 1])

(* Every client sends all it has and ends: one that waits for room in the  *)
(* pipe gets it from a server that reads whatever is there, unless the     *)
(* server has broken down and the client is killed (server.c:238-252).     *)
ClientsEnd ==
    \A c \in Clients :
        <>(pending[c] = <<>> /\ (cpc[c] = "done" \/ (cpc[c] = "killed" /\ ~up)))
=============================================================================
