----------------------------- MODULE BufWriter ------------------------------
(***************************************************************************)
(* The buffered writer of buf_io/buf_writer.c, one instance of it.  The    *)
(* bytes handed to it are numbered 1, 2, ... in the order in which its     *)
(* functions accept them, newlines included, so that a byte stands for its *)
(* place in the stream the caller writes.                                  *)
(***************************************************************************)
EXTENDS Naturals, Sequences

CONSTANTS
    Caps,          \* the capacities a buffer may have
    MaxWrite,      \* bound: the bytes of one call
    MaxBytes,      \* bound: the bytes accepted in all
    MaxOut,        \* bound: the bytes written to the file in all
    MayBeShort     \* write(2) may write less than it is asked to

ASSUME CapsAssumption == Caps \subseteq Nat \ {0}
ASSUME MaxWriteAssumption == MaxWrite \in Nat

VARIABLES
    cap,     \* self->cap
    buf,     \* the first self->pos bytes of self->buf
    st,      \* "open", "closed", "dropped", or "overrun": a byte was stored
             \* behind the end of self->buf, and nothing is defined any more
    acc,     \* how many bytes were accepted
    out,     \* the bytes that reached the file
    gone     \* the bytes that bw_replace_buf or bw_replace_file dropped

vars == <<cap, buf, st, acc, out, gone>>

(* bw_with_cap, bw_with_default_cap, bw_with_buf.                          *)
Init ==
    /\ cap \in Caps
    /\ buf = <<>> /\ st = "open"
    /\ acc = 0 /\ out = <<>> /\ gone = {}

-----------------------------------------------------------------------------
(***************************************************************************)
(* What a call does when its write succeeds: the bytes it writes to the    *)
(* file, all in one write(2) or writev(2), and those the buffer holds      *)
(* afterwards.  A call that writes nothing has emit = <<>>.                *)
(***************************************************************************)
Plan(emit, keep) == [emit |-> emit, keep |-> keep]

Fresh(n) == [i \in 1..n |-> acc + i]
Available == cap - Len(buf)
First(s, k) == SubSeq(s, 1, k)
(* Variant: what is left is taken from the start of s again.               *)
RestFromStart(s, k) == SubSeq(s, 1, Len(s) - k)
Rest(s, k) == SubSeq(s, k + 1, Len(s))

(* More than the buffer can hold goes to the file with what it holds.      *)
(* Variants: without what it holds, which is forgotten or kept.            *)
ThroughForgets(n) == Plan(Fresh(n), <<>>)
ThroughOvertakes(n) == Plan(Fresh(n), buf)
Through(n) == Plan(buf \o Fresh(n), <<>>)

(* The buffer is filled and written, and what is left over starts it again.*)
(* Variant: one byte of what is left over is skipped.                      *)
SpillSkips(n) ==
    Plan(buf \o First(Fresh(n), Available), Rest(Fresh(n), Available + 1))
Spill(n) ==
    Plan(buf \o First(Fresh(n), Available), Rest(Fresh(n), Available))

WritePlan(n) ==
    CASE n <= Available           -> Plan(<<>>, buf \o Fresh(n))
      [] n > Available /\ n > cap -> Through(n)
      [] OTHER                    -> Spill(n)

(* Variant: the case of a line that fills the buffer exactly is left out.  *)
WriteLinePlanFits(n) ==
    LET data == Fresh(n)
        newline == <<acc + n + 1>>
    IN
    CASE n <= Available           -> Plan(<<>>, (buf \o data) \o newline)
      [] n > Available /\ n > cap -> Plan(buf \o data, newline)
      [] OTHER                    -> Plan(buf \o First(data, Available),
                                          Rest(data, Available) \o newline)

(* The newline is byte n + 1: in the last case it is stored unchecked.     *)
WriteLinePlan(n) ==
    LET data == Fresh(n)
        newline == <<acc + n + 1>>
    IN
    CASE n < Available            -> Plan(<<>>, (buf \o data) \o newline)
      [] n = Available            -> Plan(buf \o data, newline)
      [] n > Available /\ n > cap -> Plan(buf \o data, newline)
      [] OTHER                    -> Plan(buf \o First(data, Available),
                                          Rest(data, Available) \o newline)

WriteCharPlan ==
    IF Len(buf) = cap THEN Plan(buf, <<acc + 1>>)
                      ELSE Plan(<<>>, Append(buf, acc + 1))

(* try_flush_: the position is left as it is.                              *)
FlushPlan == Plan(buf, buf)

(***************************************************************************)
(* The write itself.  -1 makes the call return BW_ERR_WRITE_FAIL with      *)
(* nothing changed (Fails); any other result counts as all of it written.  *)
(***************************************************************************)
Written(bytes) ==
    IF MayBeShort /\ bytes # <<>>
    THEN \E k \in 1..Len(bytes) : out' = out \o First(bytes, k)
    ELSE out' = out \o bytes

Succeeds(plan, n) ==
    /\ Written(plan.emit)
    /\ buf' = plan.keep
    /\ acc' = acc + n

(* After bw_close a call still succeeds if it writes nothing.              *)
Accept(plan, n) ==
    /\ st = "open" \/ (st = "closed" /\ plan.emit = <<>>)
    /\ acc + n <= MaxBytes /\ Len(out) + Len(plan.emit) <= MaxOut
    /\ Succeeds(plan, n)
    /\ st' = IF Len(plan.keep) > cap THEN "overrun" ELSE st
    /\ UNCHANGED <<cap, gone>>

-----------------------------------------------------------------------------
(* The functions.                                                          *)

BwWrite(n) == Accept(WritePlan(n), n)
BwWriteLine(n) == Accept(WriteLinePlan(n), n + 1)
BwWriteChar == Accept(WriteCharPlan, 1)
BwFlush == Accept(FlushPlan, 0)

(* A flush on the way to an end: on a closed file only that of an empty    *)
(* buffer can succeed.                                                     *)
(* Variant: it ends without a flush.                                       *)
LastFlushForgotten ==
    /\ st = "open" \/ (st = "closed" /\ buf = <<>>)
    /\ Len(out) + Len(buf) <= MaxOut
    /\ out' = out

LastFlush ==
    /\ st = "open" \/ (st = "closed" /\ buf = <<>>)
    /\ Len(out) + Len(buf) <= MaxOut
    /\ Written(buf)

(* bw_drop, and bw_drop_and_close, of which nobody sees whether its close  *)
(* succeeds: the buffer is gone either way.                                *)
BwDrop ==
    /\ LastFlush
    /\ buf' = <<>> /\ st' = "dropped"
    /\ UNCHANGED <<cap, acc, gone>>

(* bw_close keeps the position, so that what it has flushed still counts   *)
(* as unwritten for a bw_drop that follows.  One whose close(2) fails has  *)
(* done what bw_flush does.                                                *)
BwClose ==
    /\ st = "open" /\ LastFlush
    /\ st' = "closed"
    /\ UNCHANGED <<cap, buf, acc, gone>>

Discard == gone' = gone \cup {buf[i] : i \in DOMAIN buf} /\ buf' = <<>>

(* Variant: the position is not reset.                                     *)
BwReplaceBufKeepsPos(c) ==
    /\ st \in {"open", "closed"}
    /\ cap' = c
    /\ UNCHANGED <<buf, st, acc, out, gone>>

BwReplaceBuf(c) ==
    /\ st \in {"open", "closed"} /\ Discard
    /\ cap' = c
    /\ UNCHANGED <<st, acc, out>>

BwReplaceFile ==
    /\ st \in {"open", "closed"} /\ Discard
    /\ st' = "open"
    /\ UNCHANGED <<cap, acc, out>>

(* Any of the calls whose write fails.                                     *)
Fails ==
    /\ st \in {"open", "closed"}
    /\ UNCHANGED vars

Next ==
    \/ \E n \in 0..MaxWrite : BwWrite(n) \/ BwWriteLine(n)
    \/ BwWriteChar \/ BwFlush
    \/ BwDrop \/ BwClose
    \/ \E c \in Caps : BwReplaceBuf(c)
    \/ BwReplaceFile
    \/ Fails

Spec == Init /\ [][Next]_vars

-----------------------------------------------------------------------------
(* Properties.                                                             *)

States == {"open", "closed", "dropped", "overrun"}

(* The variables hold values of their types, and the position is within    *)
(* the capacity until a store behind the end of the buffer.                *)
TypeOK ==
    /\ cap \in Caps /\ st \in States
    /\ acc \in Nat /\ gone \subseteq Nat
    /\ buf \in Seq(Nat) /\ out \in Seq(Nat)
    /\ (st # "overrun" => Len(buf) <= cap)

InFile(b) == \E i \in DOMAIN out : out[i] = b
InBuffer(b) == \E i \in DOMAIN buf : buf[i] = b

(* The buffer holds the last bytes accepted, in order and without a gap,   *)
(* however the calls were split over it.                                   *)
BufferIsTail ==
    /\ Len(buf) <= acc
    /\ \A i \in DOMAIN buf : buf[i] = acc - Len(buf) + i

(* No byte is lost: one that a call accepted is in the file or still in    *)
(* the buffer, or the caller threw it away with one of the replacements.   *)
NothingLost == \A b \in 1..acc : InFile(b) \/ InBuffer(b) \/ b \in gone

(* The file gets no byte before those that were accepted earlier: the      *)
(* copies a flush makes never overtake anything.                           *)
InOrder ==
    \A i \in DOMAIN out : \A b \in 1..out[i] :
        b \in gone \/ \E j \in 1..i : out[j] = b

(* bw_drop, bw_close and bw_drop_and_close succeed only once all that was  *)
(* accepted is in the file.                                                *)
EndsFlushed ==
    [][st' \in {"closed", "dropped"} /\ st' # st =>
         \A b \in 1..acc : (\E i \in DOMAIN out' : out'[i] = b) \/ b \in gone]_vars

(* The buffer is only ever overrun by one byte, the newline of a line      *)
(* exactly as long as the capacity that finds the buffer full              *)
(* (buf_writer.c:268-272).                                                 *)
OverrunOnlyOfFull ==
    [][st' = "overrun" /\ st # "overrun" =>
         /\ Len(buf) = cap /\ Len(buf') = cap + 1
         /\ acc' = acc + cap + 1]_vars
=============================================================================
