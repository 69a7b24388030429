----------------------------- MODULE ParseSize ------------------------------
(***************************************************************************)
(* The two parsers of parse_size.c, one call at a time.  The client gives  *)
(* parse_size a whole string; the server gives parse_size_slice a part of  *)
(* its read buffer.                                                        *)
(***************************************************************************)
EXTENDS Characters

CONSTANTS
    Code,      \* the value of (size_t)(c - '0') for every character c
    MaxSize    \* the largest size_t

ASSUME ParseAssumption ==
    /\ MaxSize \in Nat \ {0}
    /\ \A d \in Digits : Code[d] \in 0..9
    /\ \A c \in DOMAIN Code : Code[c] \in 0..MaxSize

VARIABLES
    fn,        \* the function called: "parse_size" or "parse_size_slice"
    str,       \* its string
    at,        \* the place in str it has come to
    size,      \* *size
    ppc,       \* "idle", the loop it is in ("spaces", "digits" or "trail"), "done"
    outcome    \* what it returned, "none" before; "FAULT" is a crash

parseVars == <<fn, str, at, size, ppc, outcome>>

Outcomes == {"none", "OK", "NEGATIVE", "INV_CHAR", "NO_DIGITS", "OUT_OF_RANGE",
             "FAULT"}

ParseInit ==
    /\ fn = "none" /\ str = <<>> /\ at = 1 /\ size = 0
    /\ ppc = "idle" /\ outcome = "none"

Call(f, s) ==
    /\ fn' = f /\ str' = s /\ at' = 1 /\ size' = 0
    /\ ppc' = "spaces" /\ outcome' = "none"

-----------------------------------------------------------------------------
(* "begin == end", or "*str == 0".                                         *)
AtEnd == at > Len(str)
Here == str[at]
IsDigit == ~AtEnd /\ Here \in Digits
IsBlank == ~AtEnd /\ Here = Blank

Step(pc) == ppc' = pc /\ UNCHANGED <<fn, str, outcome>>

Return(o) ==
    /\ ppc' = "done" /\ outcome' = o
    /\ UNCHANGED <<fn, str, at, size>>

(* The loops over white space, before the number and after it.             *)
SkipBlank ==
    /\ ppc \in {"spaces", "trail"} /\ IsBlank
    /\ at' = at + 1 /\ Step(ppc) /\ UNCHANGED size

Spaces == ppc = "spaces" /\ ~IsBlank

(* Only the slice asks for its end; a string ends in a 0, which is an      *)
(* invalid character like any other.                                       *)
NothingThere ==
    /\ Spaces /\ AtEnd
    /\ Return(IF fn = "parse_size" THEN "INV_CHAR" ELSE "NO_DIGITS")

Negative == Spaces /\ ~AtEnd /\ Here = Minus /\ Return("NEGATIVE")

(***************************************************************************)
(* The first digit.  parse_size_slice asks isdigit about the pointer, not  *)
(* the character: a look-up far outside of its table, which answers        *)
(* anything or faults.                                                     *)
(***************************************************************************)
Plain == Spaces /\ ~AtEnd /\ Here # Minus

FirstDigit ==
    /\ Plain /\ (fn = "parse_size" => IsDigit)
    /\ size' = Code[Here] /\ at' = at + 1 /\ Step("digits")

FirstInvalid ==
    /\ Plain /\ (fn = "parse_size" => ~IsDigit)
    /\ Return("INV_CHAR")

FirstFaults == Plain /\ fn = "parse_size_slice" /\ Return("FAULT")

(* __builtin_mul_overflow and __builtin_add_overflow: the arithmetic is    *)
(* modulo the width of a size_t, and says whether anything was cut off.    *)
Times10Plus(d) == (size * 10 + d) % (MaxSize + 1)

(* Variant: only the multiplication is checked.                            *)
CutSumUnchecked(d) == size * 10 > MaxSize
Cut(d) == size * 10 > MaxSize \/ size * 10 + d > MaxSize

NextDigit ==
    /\ ppc = "digits" /\ IsDigit
    /\ IF Cut(Code[Here])
       THEN Return("OUT_OF_RANGE")
       ELSE /\ size' = Times10Plus(Code[Here])
            /\ at' = at + 1 /\ Step("digits")

DigitsEnd ==
    /\ ppc = "digits" /\ ~IsDigit
    /\ Step("trail") /\ UNCHANGED <<at, size>>

(* Something behind the number, or nothing.                                *)
Finish ==
    /\ ppc = "trail" /\ ~IsBlank
    /\ Return(IF AtEnd THEN "OK" ELSE "INV_CHAR")

ParseStep ==
    \/ SkipBlank \/ NothingThere \/ Negative
    \/ FirstDigit \/ FirstInvalid \/ FirstFaults
    \/ NextDigit \/ DigitsEnd \/ Finish

Parsed == ppc = "done"

-----------------------------------------------------------------------------
(***************************************************************************)
(* What a string means to either function (parse_size.h:27-38 and 60-71):  *)
(* blanks, a number of decimal digits, blanks, and then the end or the     *)
(* first character that does not belong there.  Of a number that is both   *)
(* too large and followed by such a character the former counts.           *)
(***************************************************************************)
NumberStart(s) == Past(s, {Blank}, 1)
NumberEnd(s) == Past(s, Digits, NumberStart(s))
Rear(s) == Past(s, {Blank}, NumberEnd(s))

IsNumber(s) == NumberStart(s) < NumberEnd(s)
ValueOf(s) ==
    LET first == NumberStart(s)
        upTo[k \in first..(NumberEnd(s) - 1)] ==
            IF k = first THEN Code[s[k]] ELSE upTo[k - 1] * 10 + Code[s[k]]
    IN  upTo[NumberEnd(s) - 1]

OnlyBlanks(s) == NumberStart(s) > Len(s)

Meaning(s) ==
    CASE OnlyBlanks(s) -> "NO_DIGITS"
      [] ~OnlyBlanks(s) /\ s[NumberStart(s)] = Minus -> "NEGATIVE"
      [] IsNumber(s) /\ ValueOf(s) > MaxSize -> "OUT_OF_RANGE"
      [] IsNumber(s) /\ ValueOf(s) <= MaxSize /\ Rear(s) > Len(s) -> "OK"
      [] OTHER -> "INV_CHAR"

(* What isdigit answers for the first character of a slice decides whether *)
(* the slice is read for what it is.                                       *)
Misjudged ==
    /\ fn = "parse_size_slice"
    /\ \/ outcome = "FAULT"
       \/ outcome = "INV_CHAR" /\ at = NumberStart(str)
       \/ NumberStart(str) <= Len(str) /\ ~IsNumber(str) /\ str[NumberStart(str)] # Minus

-----------------------------------------------------------------------------
(* Properties.                                                             *)

ParseTypeOK ==
    /\ fn \in {"none", "parse_size", "parse_size_slice"}
    /\ str \in Seq(DOMAIN Code) /\ at \in 1..(Len(str) + 1)
    /\ size \in 0..MaxSize
    /\ ppc \in {"idle", "spaces", "digits", "trail", "done"}
    /\ outcome \in Outcomes

(* parse_size, reading from left to right and one digit at a time, gives   *)
(* the outcome and the value that a string as a whole has, if it is not    *)
(* all blanks: overflow is found exactly when the numeral is too large,    *)
(* however long it goes on and whatever follows it, and the character      *)
(* complained about is the first that does not belong there                *)
(* (parse_size.c:6-49).                                                    *)
ParsesNumerals ==
    Parsed /\ fn = "parse_size" /\ ~OnlyBlanks(str) =>
        /\ outcome = Meaning(str)
        /\ outcome = "OK" => size = ValueOf(str)
        /\ outcome = "INV_CHAR" =>
               at = IF IsNumber(str) THEN Rear(str) ELSE NumberStart(str)
=============================================================================
