------------------------- MODULE CommandPathProofs --------------------------
(***************************************************************************)
(* Proofs about CommandPath, for every text a user gives, every width of a *)
(* size_t and whatever lines of other clients come with the line: that the *)
(* two ends find the same number in it, that all values stay in their      *)
(* types, that a name finds its command, that every stage of a task has    *)
(* its own words, and that both parsers find what a number means.          *)
(***************************************************************************)
EXTENDS TaskExecProofs, Integers

(***************************************************************************)
(* The number in s stands from place b to the place before e, with blanks  *)
(* in front, and t[k] is its value as far as digit k.  That there is such  *)
(* a t takes the place of a recursive definition of the value: the parser  *)
(* of the client makes it, and the parser of the server goes along it.     *)
(***************************************************************************)
Numeral(s, b, e, t) ==
    /\ b \in 1..Len(s) /\ e \in (b + 1)..(Len(s) + 1)
    /\ t \in [1..Len(s) -> Nat]
    /\ \A k \in 1..(b - 1) : s[k] = Blank
    /\ \A k \in b..(e - 1) : s[k] \in Digits
    /\ t[b] = Code[s[b]]
    /\ \A k \in (b + 1)..(e - 1) :
         t[k] = t[k - 1] * 10 + Code[s[k]] /\ t[k] <= MaxSize

BlankFrom(s, a, b) == \A k \in a..b : s[k] = Blank

(* All of s is blanks, a numeral of value v, and blanks.                   *)
Whole(s, b, e, t, v) == Numeral(s, b, e, t) /\ v = t[e - 1] /\ BlankFrom(s, e, Len(s))
HasValue(s, v) == \E b, e, t : Whole(s, b, e, t, v)

NumberGiven == given.mode = "cli" /\ given.flag \in NumberFlags

(* What the parser of the client knows of the string, loop by loop.        *)
ClientParses ==
    pc = "checking" =>
        /\ fn = "parse_size" /\ str = given.text /\ NumberGiven
        /\ ppc \in {"spaces", "digits", "trail", "done"} /\ at \in 1..(Len(str) + 1)
        /\ ppc = "spaces" => BlankFrom(str, 1, at - 1)
        /\ ppc = "digits" => \E b, t : Numeral(str, b, at, t) /\ size = t[at - 1]
        /\ ppc = "trail" =>
             \E b, e, t : /\ Numeral(str, b, e, t) /\ size = t[e - 1]
                          /\ e <= at /\ BlankFrom(str, e, at - 1)
        /\ Parsed /\ outcome = "OK" => HasValue(str, size)

OnItsWay == {"sent", "read", "serving", "running", "done"}

(* What the line is, and that the number in it has been checked.           *)
LineIs ==
    \/ line = LineWith("e", given.text)
    \/ \E f \in ListFlags : line = ListLine(f)
    \/ /\ NumberGiven /\ line = LineWith(given.flag, given.text)
       /\ HasValue(given.text, id)

LineKept == pc \in OnItsWay => LineIs

(* Where the parser of the server is in the number that the client found.  *)
AtPlace(s, b, e, t) ==
    \/ ppc = "spaces" /\ at \in 1..b
    \/ ppc = "digits" /\ at \in (b + 1)..e /\ size = t[at - 1]
    \/ ppc = "trail" /\ at \in e..(Len(s) + 2) /\ size = t[e - 1]
    \/ ppc = "done" /\ SameIdAtBothEnds

ServerParses ==
    pc = "serving" =>
        /\ fn = "parse_size_slice" /\ str = Argument
        /\ line = LineWith("t", given.text)
        /\ \E b, e, t : Whole(given.text, b, e, t, id) /\ AtPlace(given.text, b, e, t)

GivenKept == given \in Inputs /\ more \in Others

NumberInv == GivenKept /\ ClientParses /\ LineKept /\ ServerParses

-----------------------------------------------------------------------------
(* Strings.                                                                *)

LEMMA Joined ==
    ASSUME NEW S, NEW a \in Seq(S), NEW b \in Seq(S)
    PROVE  /\ a \o b \in Seq(S) /\ Len(a \o b) = Len(a) + Len(b)
           /\ \A k \in 1..Len(a) : (a \o b)[k] = a[k]
           /\ \A k \in 1..Len(b) : (a \o b)[Len(a) + k] = b[k]
OBVIOUS

(* The first place that is not a blank.                                    *)
LEMMA PastIs ==
    ASSUME NEW s, Len(s) \in Nat, NEW S, NEW k \in Nat \ {0},
           NEW j \in k..Len(s), s[j] \notin S, \A i \in k..(j - 1) : s[i] \in S
    PROVE  Past(s, S, k) = j
<1> DEFINE P == {i \in k..Len(s) : s[i] \notin S} \cup {Len(s) + 1}
<1>1. j \in P /\ \A i \in P : j <= i
  OBVIOUS
<1>2. \A m \in P : (\A i \in P : m <= i) => m = j
  BY <1>1
<1>3. Min(P) = j
  <2> HIDE DEF P
  <2> QED
    BY <1>1, <1>2 DEF Min
<1> QED
  BY <1>3 DEF Past

(* The line of a command with an argument, as the server cuts it.          *)
LEMMA ArgumentIs ==
    ASSUME NEW f, NEW text \in Seq(Chars), more \in Seq(Chars),
           line = LineWith(f, text)
    PROVE  /\ LineBuf[1] = f /\ Argument \in Seq(Chars)
           /\ Len(Argument) = Len(text) + 1 + Len(more)
           /\ \A k \in 1..Len(text) : Argument[k] = text[k]
           /\ Argument[Len(text) + 1] = Blank
           /\ \A k \in 1..Len(more) : Argument[Len(text) + 1 + k] = more[k]
<1> DEFINE C == Chars \cup {f}
           n == Len(text)
           m == Len(more)
           arg == Append(text, Blank)
<1>1. /\ Blank \in Chars /\ arg \in Seq(Chars) /\ Len(arg) = n + 1 /\ n \in Nat /\ m \in Nat
      /\ \A k \in 1..n : arg[k] = text[k]
      /\ arg[n + 1] = Blank
  BY PathAssumption DEF Chars
<1>2. /\ arg \in Seq(C) /\ more \in Seq(C) /\ ArgStr(f) \in Seq(C)
      /\ Len(ArgStr(f)) = 2 /\ ArgStr(f)[1] = f
  BY <1>1 DEF ArgStr
<1> HIDE DEF C, arg
<1>3. /\ line \in Seq(C) /\ Len(line) = n + 3 /\ line[1] = f
      /\ \A k \in 1..(n + 1) : line[2 + k] = arg[k]
  <2> DEFINE l == ArgStr(f) \o arg
  <2>1. line = l
    BY DEF LineWith, arg
  <2>2. /\ l \in Seq(C) /\ Len(l) = Len(ArgStr(f)) + Len(arg)
        /\ \A k \in 1..Len(ArgStr(f)) : l[k] = ArgStr(f)[k]
        /\ \A k \in 1..Len(arg) : l[Len(ArgStr(f)) + k] = arg[k]
    <3>1. ArgStr(f) \in Seq(C) /\ arg \in Seq(C)
      BY <1>2
    <3> QED
      BY <3>1, Joined
  <2> HIDE DEF l
  <2>3. /\ Len(l) = 2 + (n + 1) /\ l[1] = f
        /\ \A k \in 1..(n + 1) : l[2 + k] = arg[k]
    BY <1>1, <1>2, <2>2
  <2> QED
    BY <1>1, <2>1, <2>2, <2>3
<1>4. /\ LineBuf \in Seq(C) /\ Len(LineBuf) = n + 3 + m /\ LineBuf[1] = f
      /\ \A k \in 1..(n + 1) : LineBuf[2 + k] = arg[k]
      /\ \A k \in 1..m : LineBuf[n + 3 + k] = more[k]
  <2>1. /\ LineBuf \in Seq(C) /\ Len(LineBuf) = Len(line) + Len(more)
        /\ \A k \in 1..Len(line) : LineBuf[k] = line[k]
        /\ \A k \in 1..Len(more) : LineBuf[Len(line) + k] = more[k]
    <3>1. line \in Seq(C) /\ more \in Seq(C)
      BY <1>2, <1>3
    <3> QED
      BY <3>1, Joined DEF LineBuf
  <2>2. /\ \A k \in 1..(n + 3) : LineBuf[k] = line[k]
        /\ \A k \in 1..m : LineBuf[(n + 3) + k] = more[k]
        /\ LineBuf \in Seq(C) /\ Len(LineBuf) = (n + 3) + m
    BY <1>3, <2>1
  <2>3. LineBuf[1] = f
    BY <1>1, <1>3, <2>2
  <2>4. ASSUME NEW k \in 1..(n + 1) PROVE LineBuf[2 + k] = arg[k]
    <3>1. 2 + k \in 1..(n + 3)
      BY <1>1
    <3> QED
      BY <1>3, <2>2, <3>1
  <2> QED
    BY <2>2, <2>3, <2>4
<1>5. /\ Argument \in Seq(C) /\ Len(Argument) = n + 1 + m
      /\ \A k \in 1..(n + 1 + m) : Argument[k] = LineBuf[2 + k]
  BY <1>1, <1>4 DEF Argument
<1>6. /\ \A k \in 1..(n + 1) : Argument[k] = arg[k]
      /\ \A k \in 1..m : Argument[n + 1 + k] = more[k]
  <2>1. ASSUME NEW k \in 1..(n + 1) PROVE Argument[k] = arg[k]
    <3>1. k \in 1..(n + 1 + m)
      BY <1>1
    <3> QED
      BY <1>4, <1>5, <3>1
  <2>2. ASSUME NEW k \in 1..m PROVE Argument[n + 1 + k] = more[k]
    <3>1. n + 1 + k \in 1..(n + 1 + m) /\ 2 + (n + 1 + k) = n + 3 + k
      BY <1>1
    <3> QED
      BY <1>4, <1>5, <3>1
  <2> QED
    BY <2>1, <2>2
<1>7. \A k \in 1..(n + 1 + m) : Argument[k] \in Chars
  <2> TAKE k \in 1..(n + 1 + m)
  <2>1. CASE k \in 1..(n + 1)
    BY <1>1, <1>6, <2>1
  <2>2. CASE k \notin 1..(n + 1)
    <3>1. PICK j \in 1..m : k = n + 1 + j
      <4>1. k - (n + 1) \in 1..m /\ k = n + 1 + (k - (n + 1))
        BY <1>1, <2>2
      <4> QED
        BY <4>1
    <3>2. more[j] \in Chars
      OBVIOUS
    <3> QED
      BY <1>6, <3>1, <3>2
  <2> QED
    BY <2>1, <2>2
<1>8. Argument \in Seq(Chars)
  <2>1. Argument \in [1..(n + 1 + m) -> Chars] /\ n + 1 + m \in Nat
    BY <1>1, <1>5, <1>7
  <2> QED
    BY <2>1, SMTT(20)
<1> QED
  BY <1>1, <1>4, <1>5, <1>6, <1>8

-----------------------------------------------------------------------------
(* The two parsers.                                                        *)

(* No digit has been cut off where neither multiplication nor addition     *)
(* overflows.                                                              *)
LEMMA NothingCut ==
    ASSUME size \in Nat, NEW d \in Nat, ~Cut(d)
    PROVE  Times10Plus(d) = size * 10 + d /\ size * 10 + d <= MaxSize
<1>1. MaxSize \in Nat /\ size * 10 + d \in 0..MaxSize
  BY ParseAssumption DEF Cut
<1>2. \A m \in Nat : \A x \in 0..m : x % (m + 1) = x
  OBVIOUS
<1> QED
  BY <1>1, <1>2 DEF Times10Plus

LEMMA DigitCode ==
    ASSUME NEW d \in Digits
    PROVE  Code[d] \in 0..9 /\ d # Blank /\ d # Minus
BY ParseAssumption, CharactersAssumption

LEMMA ValueIsNat ==
    ASSUME NEW s, Len(s) \in Nat, NEW b, NEW e, NEW t, Numeral(s, b, e, t)
    PROVE  /\ t[e - 1] \in Nat /\ b \in 1..Len(s) /\ b < e
           /\ e \in Nat /\ e - 1 \in 1..Len(s)
<1>1. /\ e - 1 \in 1..Len(s) /\ b \in 1..Len(s) /\ b < e /\ e \in Nat
      /\ t \in [1..Len(s) -> Nat]
  BY DEF Numeral
<1> QED
  BY <1>1

(* The value at the last digit, and one digit more.                        *)
LEMMA OneDigitMore ==
    ASSUME NEW s, Len(s) \in Nat, NEW b, NEW e, NEW t, Numeral(s, b, e, t),
           e <= Len(s), s[e] \in Digits,
           t[e - 1] * 10 + Code[s[e]] <= MaxSize
    PROVE  \E u : /\ Numeral(s, b, e + 1, u)
                  /\ u[e] = t[e - 1] * 10 + Code[s[e]]
<1> DEFINE v == t[e - 1] * 10 + Code[s[e]]
           u == [t EXCEPT ![e] = v]
<1>1. /\ b \in 1..Len(s) /\ e \in (b + 1)..Len(s) /\ t \in [1..Len(s) -> Nat]
      /\ b \in Nat /\ e \in Nat
  BY DEF Numeral
<1>2. v \in Nat
  <2>1. e - 1 \in 1..Len(s)
    BY <1>1
  <2>2. t[e - 1] \in Nat
    BY <1>1, <2>1
  <2>3. Code[s[e]] \in Nat
    <3>1. Code[s[e]] \in 0..9
      BY DigitCode
    <3> QED
      BY <3>1
  <2>4. \A x, y \in Nat : x * 10 + y \in Nat
    OBVIOUS
  <2> QED
    BY <2>2, <2>3, <2>4
<1> HIDE DEF v
<1>3. /\ u \in [1..Len(s) -> Nat] /\ u[e] = v
      /\ \A k \in 1..Len(s) : k # e => u[k] = t[k]
  BY <1>1, <1>2
<1> HIDE DEF u
<1>4. \A k \in b..((e + 1) - 1) : s[k] \in Digits
  <2>1. \A k \in b..((e + 1) - 1) : k \in b..(e - 1) \/ k = e
    BY <1>1
  <2> QED
    BY <2>1 DEF Numeral
<1>5. ASSUME NEW k \in (b + 1)..((e + 1) - 1)
      PROVE  u[k] = u[k - 1] * 10 + Code[s[k]] /\ u[k] <= MaxSize
  <2>1. CASE k = e
    <3>1. u[e - 1] = t[e - 1] /\ u[e] = v
      BY <1>1, <1>3
    <3> QED
      BY <2>1, <3>1 DEF v
  <2>2. CASE k # e
    <3>1. k \in (b + 1)..(e - 1) /\ u[k] = t[k] /\ u[k - 1] = t[k - 1]
      BY <1>1, <1>3, <2>2
    <3> QED
      BY <3>1 DEF Numeral
  <2> QED
    BY <2>1, <2>2
<1>6. u[b] = Code[s[b]]
  BY <1>1, <1>3 DEF Numeral
<1>7. Numeral(s, b, e + 1, u)
  BY <1>1, <1>3, <1>4, <1>5, <1>6 DEF Numeral
<1> QED
  BY <1>3, <1>7 DEF v

LEMMA FirstDigitIs ==
    ASSUME NEW s, Len(s) \in Nat, NEW b \in 1..Len(s), s[b] \in Digits,
           BlankFrom(s, 1, b - 1)
    PROVE  \E t : Numeral(s, b, b + 1, t) /\ t[b] = Code[s[b]]
<1> DEFINE v == Code[s[b]]
           t == [k \in 1..Len(s) |-> v]
<1>1. v \in Nat /\ t \in [1..Len(s) -> Nat] /\ t[b] = v
  BY DigitCode
<1> HIDE DEF t
<1>2. Numeral(s, b, b + 1, t)
  BY <1>1 DEF Numeral, BlankFrom
<1> QED
  BY <1>1, <1>2

LEMMA ClientStep ==
    ASSUME GivenKept, ClientParses, pc = "checking", ParseStep, UNCHANGED pathVars
    PROVE  ClientParses'
<1>1. /\ fn = "parse_size" /\ str = given.text /\ NumberGiven /\ at \in 1..(Len(str) + 1)
      /\ Len(str) \in Nat /\ given' = given /\ pc' = pc
  BY PathAssumption DEF GivenKept, ClientParses, pathVars
<1>2. fn' = fn /\ str' = str /\ NumberGiven' /\ pc' = "checking"
  BY <1>1 DEF NumberGiven, ParseStep, SkipBlank, NothingThere, Negative, FirstDigit,
       FirstInvalid, FirstFaults, NextDigit, DigitsEnd, Finish, Return, Step
<1>3. ASSUME NEW o, Return(o), o # "OK" PROVE ClientParses'
  BY <1>1, <1>2, <1>3 DEF ClientParses, Return, Parsed
<1>4. ASSUME SkipBlank PROVE ClientParses'
  <2>1. at <= Len(str) /\ str[at] = Blank /\ at' = at + 1 /\ ppc' = ppc /\ size' = size
    BY <1>1, <1>4 DEF SkipBlank, IsBlank, AtEnd, Here, Step
  <2>2. CASE ppc = "spaces"
    <3>1. BlankFrom(str, 1, at' - 1)
      BY <1>1, <2>1, <2>2 DEF ClientParses, BlankFrom
    <3> QED
      BY <1>1, <1>2, <2>1, <2>2, <3>1 DEF ClientParses, Parsed
  <2>3. CASE ppc = "trail"
    <3>1. PICK b, e, t : /\ Numeral(str, b, e, t) /\ size = t[e - 1]
                         /\ e <= at /\ BlankFrom(str, e, at - 1)
      BY <2>3 DEF ClientParses
    <3>2. e \in Nat
      BY <1>1, <3>1 DEF Numeral
    <3>3. e <= at' /\ BlankFrom(str, e, at' - 1)
      BY <1>1, <2>1, <3>1, <3>2 DEF BlankFrom
    <3>4. \E bb, ee, tt : /\ Numeral(str, bb, ee, tt) /\ size' = tt[ee - 1]
                          /\ ee <= at' /\ BlankFrom(str, ee, at' - 1)
      BY <2>1, <3>1, <3>3
    <3>5. at' \in 1..(Len(str) + 1) /\ ppc' = "trail"
      BY <1>1, <2>1, <2>3
    <3> QED
      BY <1>1, <1>2, <3>4, <3>5 DEF ClientParses, Parsed
  <2> QED
    BY <1>4, <2>2, <2>3 DEF SkipBlank
<1>5. ASSUME FirstDigit PROVE ClientParses'
  <2>1. /\ at \in 1..Len(str) /\ str[at] \in Digits /\ ppc = "spaces"
        /\ size' = Code[str[at]] /\ at' = at + 1 /\ ppc' = "digits"
    BY <1>1, <1>5 DEF FirstDigit, Plain, Spaces, IsDigit, AtEnd, Here, Step
  <2>2. BlankFrom(str, 1, at - 1)
    BY <2>1 DEF ClientParses
  <2>3. PICK t : Numeral(str, at, at + 1, t) /\ t[at] = Code[str[at]]
    BY <1>1, <2>1, <2>2, FirstDigitIs
  <2>4. at' - 1 = at
    BY <2>1
  <2>5. \E bb, tt : Numeral(str, bb, at', tt) /\ size' = tt[at' - 1]
    BY <2>1, <2>3, <2>4
  <2>6. at' \in 1..(Len(str) + 1)
    BY <2>1
  <2> QED
    BY <1>1, <1>2, <2>1, <2>5, <2>6 DEF ClientParses, Parsed
<1>6. ASSUME NextDigit, ~Cut(Code[Here]) PROVE ClientParses'
  <2>1. /\ at \in 1..Len(str) /\ str[at] \in Digits /\ ppc = "digits"
        /\ size' = Times10Plus(Code[str[at]]) /\ at' = at + 1 /\ ppc' = "digits"
    BY <1>1, <1>6 DEF NextDigit, IsDigit, AtEnd, Here, Step
  <2>2. PICK b, t : Numeral(str, b, at, t) /\ size = t[at - 1]
    BY <2>1 DEF ClientParses
  <2>3. size \in Nat /\ Code[str[at]] \in Nat
    BY <1>1, <2>1, <2>2, DigitCode, ValueIsNat, SMTT(20)
  <2>4. size' = t[at - 1] * 10 + Code[str[at]] /\ t[at - 1] * 10 + Code[str[at]] <= MaxSize
    BY <1>6, <2>1, <2>2, <2>3, NothingCut DEF Here
  <2>5. PICK u : Numeral(str, b, at + 1, u) /\ u[at] = t[at - 1] * 10 + Code[str[at]]
    BY <1>1, <2>1, <2>2, <2>4, OneDigitMore, SMTT(20)
  <2>6. at' - 1 = at
    BY <2>1
  <2>7. \E bb, tt : Numeral(str, bb, at', tt) /\ size' = tt[at' - 1]
    BY <2>1, <2>4, <2>5, <2>6
  <2>8. at' \in 1..(Len(str) + 1)
    BY <2>1
  <2> QED
    BY <1>1, <1>2, <2>1, <2>7, <2>8 DEF ClientParses, Parsed
<1>7. ASSUME DigitsEnd PROVE ClientParses'
  <2>1. ppc = "digits" /\ ppc' = "trail" /\ at' = at /\ size' = size
    BY <1>7 DEF DigitsEnd, Step
  <2>2. PICK b, t : Numeral(str, b, at, t) /\ size = t[at - 1]
    BY <2>1 DEF ClientParses
  <2>3. at <= at /\ BlankFrom(str, at, at - 1)
    BY <1>1 DEF BlankFrom
  <2>4. \E bb, ee, tt : /\ Numeral(str, bb, ee, tt) /\ size' = tt[ee - 1]
                        /\ ee <= at' /\ BlankFrom(str, ee, at' - 1)
    BY <2>1, <2>2, <2>3
  <2> QED
    BY <1>1, <1>2, <2>1, <2>4 DEF ClientParses, Parsed
<1>8. ASSUME Finish, AtEnd PROVE ClientParses'
  <2>1. /\ ppc = "trail" /\ ppc' = "done" /\ at' = at /\ size' = size
        /\ at = Len(str) + 1
    BY <1>1, <1>8 DEF Finish, Return, AtEnd
  <2>2. PICK b, e, t : /\ Numeral(str, b, e, t) /\ size = t[e - 1]
                       /\ e <= at /\ BlankFrom(str, e, at - 1)
    BY <2>1 DEF ClientParses
  <2>3. BlankFrom(str, e, Len(str))
    BY <1>1, <2>1, <2>2
  <2>4. HasValue(str, size)
    BY <2>2, <2>3 DEF HasValue, Whole
  <2>5. HasValue(str, size)'
    BY <1>2, <2>1, <2>4
  <2> QED
    BY <1>1, <1>2, <2>1, <2>5 DEF ClientParses, Parsed
<1>9. \/ SkipBlank \/ FirstDigit \/ DigitsEnd
      \/ NextDigit /\ ~Cut(Code[Here])
      \/ Finish /\ AtEnd
      \/ \E o : Return(o) /\ o # "OK"
  <2>1. ASSUME NothingThere PROVE \E o : Return(o) /\ o # "OK"
    <3>1. Return("INV_CHAR") \/ Return("NO_DIGITS")
      BY <2>1 DEF NothingThere
    <3> QED
      BY <3>1
  <2>2. Negative \/ FirstInvalid \/ FirstFaults => \E o : Return(o) /\ o # "OK"
    <3>1. ASSUME Negative \/ FirstInvalid \/ FirstFaults
          PROVE  Return("NEGATIVE") \/ Return("INV_CHAR") \/ Return("FAULT")
      BY <3>1 DEF Negative, FirstInvalid, FirstFaults
    <3> QED
      BY <3>1
  <2>3. NextDigit /\ Cut(Code[Here]) => Return("OUT_OF_RANGE")
    BY DEF NextDigit
  <2>4. Finish /\ ~AtEnd => Return("INV_CHAR")
    BY DEF Finish
  <2> QED
    BY <2>1, <2>2, <2>3, <2>4 DEF ParseStep
<1> QED
  BY <1>3, <1>4, <1>5, <1>6, <1>7, <1>8, <1>9

(***************************************************************************)
(* The number in the read buffer a: the same n characters, a blank behind  *)
(* them at least, and behind that nothing or the letter of another command.*)
(***************************************************************************)
InBuffer(a, n, b, e, t, v) ==
    /\ n \in Nat /\ b \in 1..n /\ e \in (b + 1)..(n + 1)
    /\ t \in [1..n -> Nat] /\ v = t[e - 1]
    /\ Len(a) \in Nat /\ Len(a) >= n + 1
    /\ Len(a) = n + 1 <=> more = <<>>
    /\ \A k \in 1..(b - 1) : a[k] = Blank
    /\ \A k \in b..(e - 1) : a[k] \in Digits
    /\ \A k \in e..(n + 1) : a[k] = Blank
    /\ n + 2 <= Len(a) => a[n + 2] \notin Digits \cup {Blank}
    /\ t[b] = Code[a[b]]
    /\ \A k \in (b + 1)..(e - 1) :
         t[k] = t[k - 1] * 10 + Code[a[k]] /\ t[k] <= MaxSize

LEMMA NumberInBuffer ==
    ASSUME GivenKept, line = LineWith("t", given.text), NEW b, NEW e, NEW t, NEW v,
           Whole(given.text, b, e, t, v), NEW n, n = Len(given.text)
    PROVE  InBuffer(Argument, n, b, e, t, v)
<1> DEFINE text == given.text
           a == Argument
<1>1. /\ text \in Seq(Chars) /\ more \in Seq(Chars) /\ n \in Nat /\ Len(more) \in Nat
      /\ n = Len(text)
  BY PathAssumption DEF GivenKept, Chars
<1>2. /\ Len(a) = n + 1 + Len(more)
      /\ \A k \in 1..n : a[k] = text[k]
      /\ a[n + 1] = Blank
      /\ \A k \in 1..Len(more) : a[n + 1 + k] = more[k]
  <2>1. /\ Len(a) = Len(text) + 1 + Len(more)
        /\ \A k \in 1..Len(text) : a[k] = text[k]
        /\ a[Len(text) + 1] = Blank
        /\ \A k \in 1..Len(more) : a[Len(text) + 1 + k] = more[k]
    BY <1>1, ArgumentIs
  <2> QED
    BY <1>1, <2>1
<1>3. /\ b \in 1..n /\ e \in (b + 1)..(n + 1) /\ t \in [1..n -> Nat] /\ v = t[e - 1]
      /\ \A k \in 1..(b - 1) : text[k] = Blank
      /\ \A k \in b..(e - 1) : text[k] \in Digits
      /\ t[b] = Code[text[b]]
      /\ \A k \in (b + 1)..(e - 1) :
           t[k] = t[k - 1] * 10 + Code[text[k]] /\ t[k] <= MaxSize
      /\ \A k \in e..n : text[k] = Blank
  BY DEF Whole, Numeral, BlankFrom
<1>4. more # <<>> => Len(more) >= 1 /\ more[1] \notin Digits \cup {Blank}
  <2>1. more # <<>> => more[1] \in CmdFlags
    BY PathAssumption DEF GivenKept
  <2>2. more # <<>> => Len(more) >= 1
    BY <1>1
  <2> QED
    BY <2>1, <2>2, PathAssumption
<1>5. Len(more) = 0 <=> more = <<>>
  BY <1>1
<1> HIDE DEF text, a
<1>6. \A k \in 1..(b - 1) : a[k] = Blank
  <2> TAKE k \in 1..(b - 1)
  <2>1. k \in 1..n
    BY <1>1, <1>3
  <2> QED
    BY <1>2, <1>3, <2>1
<1>7. \A k \in b..(e - 1) : a[k] \in Digits
  <2> TAKE k \in b..(e - 1)
  <2>1. k \in 1..n
    BY <1>1, <1>3
  <2> QED
    BY <1>2, <1>3, <2>1
<1>8. \A k \in e..(n + 1) : a[k] = Blank
  <2> TAKE k \in e..(n + 1)
  <2>1. CASE k = n + 1
    BY <1>2, <2>1
  <2>2. CASE k # n + 1
    <3>1. k \in e..n /\ k \in 1..n
      BY <1>1, <1>3, <2>2, SMTT(20)
    <3> QED
      BY <1>2, <1>3, <3>1
  <2> QED
    BY <2>1, <2>2
<1>9. n + 2 <= Len(a) => a[n + 2] \notin Digits \cup {Blank}
  <2> SUFFICES ASSUME n + 2 <= Len(a) PROVE a[n + 2] \notin Digits \cup {Blank}
    OBVIOUS
  <2>1. 1 \in 1..Len(more) /\ n + 1 + 1 = n + 2
    BY <1>1, <1>2
  <2> QED
    BY <1>2, <1>4, <1>5, <2>1
<1>10. t[b] = Code[a[b]]
  BY <1>2, <1>3
<1>11. \A k \in (b + 1)..(e - 1) :
          t[k] = t[k - 1] * 10 + Code[a[k]] /\ t[k] <= MaxSize
  <2> TAKE k \in (b + 1)..(e - 1)
  <2>1. k \in 1..n
    BY <1>1, <1>3
  <2> QED
    BY <1>2, <1>3, <2>1
<1>12. /\ Len(a) \in Nat /\ Len(a) >= n + 1
       /\ Len(a) = n + 1 <=> more = <<>>
  BY <1>1, <1>2, <1>5
<1> QED
  BY <1>1, <1>3, <1>6, <1>7, <1>8, <1>9, <1>10, <1>11, <1>12 DEF InBuffer, text, a

LEMMA ServerStep ==
    ASSUME GivenKept, ServerParses, pc = "serving", ParseStep, UNCHANGED pathVars
    PROVE  ServerParses'
<1> DEFINE n == Len(given.text)
<1>1. /\ fn = "parse_size_slice" /\ str = Argument /\ line = LineWith("t", given.text)
      /\ given' = given /\ pc' = pc /\ line' = line /\ more' = more /\ id' = id
  BY DEF ServerParses, pathVars
<1>2. /\ fn' = fn /\ str' = str /\ Argument' = Argument
  BY <1>1 DEF ParseStep, SkipBlank, NothingThere, Negative, FirstDigit, Argument, LineBuf,
       FirstInvalid, FirstFaults, NextDigit, DigitsEnd, Finish, Return, Step
<1>3. PICK b, e, t : /\ Whole(given.text, b, e, t, id)
                     /\ AtPlace(given.text, b, e, t)
  BY DEF ServerParses
<1>4. /\ n \in Nat /\ b \in 1..n /\ e \in (b + 1)..(n + 1)
      /\ t \in [1..n -> Nat] /\ id = t[e - 1]
      /\ Len(str) \in Nat /\ Len(str) >= n + 1
      /\ Len(str) = n + 1 <=> more = <<>>
      /\ \A k \in 1..(b - 1) : str[k] = Blank
      /\ \A k \in b..(e - 1) : str[k] \in Digits
      /\ \A k \in e..(n + 1) : str[k] = Blank
      /\ n + 2 <= Len(str) => str[n + 2] \notin Digits \cup {Blank}
      /\ t[b] = Code[str[b]]
      /\ \A k \in (b + 1)..(e - 1) :
           t[k] = t[k - 1] * 10 + Code[str[k]] /\ t[k] <= MaxSize
  <2>1. /\ GivenKept /\ line = LineWith("t", given.text) /\ n = Len(given.text)
        /\ Whole(given.text, b, e, t, id)
    BY <1>1, <1>3
  <2> HIDE DEF n
  <2>2. InBuffer(str, n, b, e, t, id)
    BY <1>1, <2>1, NumberInBuffer
  <2> QED
    BY <2>2 DEF InBuffer
<1>5. Blank \notin Digits /\ Minus \notin Digits /\ Blank # Minus
  BY CharactersAssumption
<1>6. str[b] \in Digits /\ str[e] = Blank
  BY <1>4
<1> SUFFICES AtPlace(given.text, b, e, t)'
  BY <1>1, <1>2, <1>3 DEF ServerParses
<1> HIDE DEF n
<1> USE DEF AtEnd, Here
<1>7. CASE ppc = "spaces"
  <2>1. at \in 1..b /\ at <= Len(str) /\ at \in Nat
    BY <1>3, <1>4, <1>7 DEF AtPlace
  <2>2. at < b => str[at] = Blank
    BY <1>4, <2>1
  <2>3. ~IsBlank => at = b
    BY <1>4, <2>1, <2>2 DEF IsBlank
  <2>4. ASSUME SkipBlank PROVE AtPlace(given.text, b, e, t)'
    <3>1. at < b /\ at' = at + 1 /\ ppc' = "spaces"
      BY <1>4, <1>5, <1>6, <1>7, <2>1, <2>4 DEF SkipBlank, IsBlank, Step
    <3>2. at' \in 1..b
      BY <1>4, <2>1, <3>1, SMTT(20)
    <3> QED
      BY <3>1, <3>2 DEF AtPlace
  <2>5. ~NothingThere /\ ~Negative
    BY <1>5, <1>6, <2>1, <2>3 DEF NothingThere, Negative, Spaces
  <2>6. ASSUME FirstDigit PROVE AtPlace(given.text, b, e, t)'
    <3>1. at = b /\ at' = b + 1 /\ ppc' = "digits" /\ size' = t[b]
      BY <1>4, <2>3, <2>6 DEF FirstDigit, Plain, Spaces, Step
    <3>2. at' \in (b + 1)..e /\ at' - 1 = b
      BY <1>4, <3>1
    <3> QED
      BY <3>1, <3>2 DEF AtPlace
  <2>7. ASSUME FirstInvalid \/ FirstFaults PROVE AtPlace(given.text, b, e, t)'
    <3>1. /\ at = b /\ at' = at /\ ppc' = "done"
          /\ outcome' = "INV_CHAR" \/ outcome' = "FAULT"
      BY <2>3, <2>7 DEF FirstInvalid, FirstFaults, Plain, Spaces, Return
    <3>2. NumberStart(str) = b
      <4>1. Past(str, {Blank}, 1) = b
        <5>1. b \in 1..Len(str) /\ 1 \in Nat \ {0}
          BY <1>4
        <5>2. str[b] \notin {Blank} /\ \A i \in 1..(b - 1) : str[i] \in {Blank}
          BY <1>4, <1>5, <1>6
        <5> QED
          BY <1>4, <5>1, <5>2, PastIs
      <4> QED
        BY <4>1 DEF NumberStart
    <3>3. NumberStart(str') = at'
      BY <1>2, <3>1, <3>2
    <3>4. Misjudged' /\ outcome' # "OK"
      BY <1>1, <1>2, <3>1, <3>3 DEF Misjudged
    <3> QED
      BY <3>1, <3>4 DEF AtPlace, SameIdAtBothEnds
  <2> QED
    BY <1>7, <2>4, <2>5, <2>6, <2>7 DEF ParseStep, NextDigit, DigitsEnd, Finish
<1>8. CASE ppc = "digits"
  <2>1. at \in (b + 1)..e /\ size = t[at - 1] /\ at <= Len(str) /\ at \in Nat
    BY <1>3, <1>4, <1>8, SMTT(20) DEF AtPlace
  <2>2. IsDigit <=> at # e
    BY <1>4, <1>5, <1>6, <2>1, SMTT(20) DEF IsDigit
  <2>3. ASSUME NextDigit PROVE AtPlace(given.text, b, e, t)'
    <3>1. at \in (b + 1)..(e - 1)
      BY <1>4, <2>1, <2>2, <2>3 DEF NextDigit
    <3>2. t[at] = size * 10 + Code[str[at]] /\ t[at] <= MaxSize
      BY <1>4, <2>1, <3>1
    <3>3. str[at] \in Digits /\ size \in Nat
      BY <1>4, <2>1, <3>1
    <3>4. Code[str[at]] \in Nat
      <4>1. Code[str[at]] \in 0..9
        BY <3>3, DigitCode
      <4> QED
        BY <4>1
    <3>5. ~Cut(Code[str[at]])
      <4>1. MaxSize \in Nat /\ \A x, y \in Nat : x * 10 + y <= MaxSize => x * 10 <= MaxSize
        BY ParseAssumption
      <4> QED
        BY <3>2, <3>3, <3>4, <4>1 DEF Cut
    <3>6. /\ size' = Times10Plus(Code[str[at]]) /\ at' = at + 1 /\ ppc' = "digits"
      BY <2>3, <3>5 DEF NextDigit, Step
    <3>7. size' = t[at]
      BY <3>2, <3>3, <3>4, <3>5, <3>6, NothingCut
    <3>8. at' \in (b + 1)..e /\ at' - 1 = at
      BY <1>4, <2>1, <3>1, <3>6
    <3> QED
      BY <3>6, <3>7, <3>8 DEF AtPlace
  <2>4. ASSUME DigitsEnd PROVE AtPlace(given.text, b, e, t)'
    <3>1. at = e /\ at' = e /\ ppc' = "trail" /\ size' = t[e - 1]
      BY <2>1, <2>2, <2>4 DEF DigitsEnd, Step
    <3>2. at' \in e..(n + 2)
      BY <1>4, <3>1
    <3> QED
      BY <1>1, <3>1, <3>2 DEF AtPlace, n
  <2> QED
    BY <1>8, <2>3, <2>4 DEF ParseStep, SkipBlank, NothingThere, Negative, FirstDigit,
       FirstInvalid, FirstFaults, Plain, Spaces, Finish
<1>9. CASE ppc = "trail"
  <2>1. at \in e..(n + 2) /\ size = t[e - 1] /\ at \in Nat
    BY <1>3, <1>4, <1>9 DEF AtPlace, n
  <2>2. IsBlank <=> at # n + 2
    <3>1. CASE at = n + 2
      BY <1>4, <2>1, <3>1 DEF IsBlank
    <3>2. CASE at # n + 2
      <4>1. at \in e..(n + 1)
        BY <1>4, <2>1, <3>2
      <4> QED
        BY <1>4, <3>2, <4>1 DEF IsBlank
    <3> QED
      BY <3>1, <3>2
  <2>3. ASSUME SkipBlank PROVE AtPlace(given.text, b, e, t)'
    <3>1. at # n + 2 /\ at' = at + 1 /\ ppc' = "trail" /\ size' = size
      BY <1>9, <2>2, <2>3 DEF SkipBlank, Step
    <3>2. at' \in e..(n + 2)
      BY <1>4, <2>1, <3>1
    <3> QED
      BY <1>1, <2>1, <3>1, <3>2 DEF AtPlace, n
  <2>4. ASSUME Finish PROVE AtPlace(given.text, b, e, t)'
    <3>1. at = n + 2 /\ ppc' = "done" /\ size' = size
      BY <2>2, <2>4 DEF Finish, Return
    <3>2. AtEnd <=> more = <<>>
      BY <1>4, <3>1
    <3>3. outcome' = IF more = <<>> THEN "OK" ELSE "INV_CHAR"
      BY <2>4, <3>2 DEF Finish, Return
    <3>4. size' = id'
      BY <1>1, <1>4, <2>1, <3>1
    <3> QED
      BY <1>1, <3>1, <3>3, <3>4 DEF AtPlace, SameIdAtBothEnds
  <2> QED
    BY <1>9, <2>3, <2>4 DEF ParseStep, NothingThere, Negative, FirstDigit,
       FirstInvalid, FirstFaults, Plain, Spaces, NextDigit, DigitsEnd
<1>10. ppc # "done"
  BY DEF ParseStep, SkipBlank, NothingThere, Negative, FirstDigit,
     FirstInvalid, FirstFaults, Plain, Spaces, NextDigit, DigitsEnd, Finish
<1> QED
  BY <1>3, <1>7, <1>8, <1>9, <1>10 DEF AtPlace

-----------------------------------------------------------------------------
(* The command from one end to the other.                                  *)

LEMMA FirstOfList ==
    ASSUME GivenKept, NEW f, line = ListLine(f)
    PROVE  LineBuf[1] = f
<1> DEFINE C == Chars \cup {f}
<1>1. more \in Seq(Chars) /\ Blank \in Chars
  BY PathAssumption DEF GivenKept, Chars
<1>2. /\ line \in Seq(C) /\ Len(line) = 3 /\ line[1] = f /\ more \in Seq(C)
  BY <1>1 DEF ListLine, ArgStr
<1> HIDE DEF C
<1>3. (line \o more)[1] = line[1]
  <2>1. line \in Seq(C) /\ more \in Seq(C)
    BY <1>2
  <2>2. \A k \in 1..Len(line) : (line \o more)[k] = line[k]
    BY <2>1, Joined
  <2> QED
    BY <1>2, <2>2
<1> QED
  BY <1>2, <1>3 DEF LineBuf

(* An end command that the server reads is one that was sent.              *)
LEMMA EndIsNumber ==
    ASSUME GivenKept, LineIs, LineBuf[1] = "t"
    PROVE  /\ NumberGiven /\ line = LineWith("t", given.text)
           /\ HasValue(given.text, id)
<1>1. given.text \in Seq(Chars) /\ more \in Seq(Chars)
  BY PathAssumption DEF GivenKept, Chars
<1>2. line # LineWith("e", given.text)
  <2>1. line = LineWith("e", given.text) => LineBuf[1] = "e"
    BY <1>1, ArgumentIs
  <2> QED
    BY <2>1
<1>3. ~ \E f \in ListFlags : line = ListLine(f)
  <2>1. \A f \in ListFlags : line = ListLine(f) => LineBuf[1] = f
    BY FirstOfList
  <2> QED
    BY <2>1 DEF ListFlags
<1>4. /\ NumberGiven /\ line = LineWith(given.flag, given.text)
      /\ HasValue(given.text, id)
  BY <1>2, <1>3 DEF LineIs
<1>5. LineBuf[1] = given.flag
  BY <1>1, <1>4, ArgumentIs
<1> QED
  BY <1>4, <1>5

LEMMA NextKeepsNumber ==
    ASSUME NumberInv, [Next]_allVars
    PROVE  NumberInv'
<1> USE DEF NumberInv
<1>1. GivenKept'
  BY DEF GivenKept, Next, ClientNext, ServerNext, SendTask, SendList, CheckNumber,
       SendNumber, RefuseNumber, ShellSends, ShellRejects, Read, ExecTask,
       EndTask, NoText, Parse, Run, Sent, pathVars, allVars
<1>2. ASSUME UNCHANGED <<pathVars, parseVars>> PROVE NumberInv'
  <2>1. /\ given' = given /\ pc' = pc /\ id' = id /\ line' = line /\ more' = more
        /\ fn' = fn /\ str' = str /\ at' = at /\ size' = size /\ ppc' = ppc
        /\ outcome' = outcome
    BY <1>2 DEF pathVars, parseVars
  <2>2. NumberGiven' = NumberGiven /\ (Parsed' = Parsed) /\ Argument' = Argument
    BY <2>1 DEF NumberGiven, Parsed, Argument, LineBuf
  <2>3. ClientParses'
    BY <2>1, <2>2 DEF ClientParses
  <2>4. LineKept'
    BY <2>1, <2>2 DEF LineKept, LineIs
  <2>5. ServerParses'
    BY <2>1, <2>2 DEF ServerParses, AtPlace, SameIdAtBothEnds, Misjudged, Parsed
  <2> QED
    BY <1>1, <2>3, <2>4, <2>5
<1>3. ASSUME pc' = "sent", LineIs' PROVE NumberInv'
  BY <1>1, <1>3 DEF ClientParses, LineKept, ServerParses
<1>4. ASSUME pc' \in {"start", "refused"} PROVE NumberInv'
  BY <1>1, <1>4 DEF ClientParses, LineKept, ServerParses, OnItsWay
<1>5. ASSUME SendTask PROVE NumberInv'
  <2>1. pc' = "sent" /\ LineIs'
    BY <1>5 DEF SendTask, Sent, LineIs
  <2> QED
    BY <1>3, <2>1
<1>6. ASSUME SendList PROVE NumberInv'
  <2>1. pc' = "sent" /\ LineIs'
    BY <1>6 DEF SendList, From, Sent, LineIs
  <2> QED
    BY <1>3, <2>1
<1>7. ASSUME CheckNumber PROVE NumberInv'
  <2>1. /\ pc' = "checking" /\ fn' = "parse_size" /\ str' = given.text /\ given' = given
        /\ ppc' = "spaces" /\ at' = 1 /\ NumberGiven
    BY <1>7 DEF CheckNumber, From, Call, NumberGiven
  <2>2. given.text \in Seq(Chars)
    BY PathAssumption DEF GivenKept, Chars
  <2>3. 1 \in 1..(Len(str') + 1) /\ BlankFrom(str', 1, 1 - 1)
    BY <2>1, <2>2 DEF BlankFrom
  <2>4. NumberGiven'
    BY <2>1 DEF NumberGiven
  <2>5. ClientParses'
    BY <2>1, <2>3, <2>4 DEF ClientParses, Parsed
  <2> QED
    BY <1>1, <2>1, <2>5 DEF LineKept, ServerParses, OnItsWay
<1>8. ASSUME SendNumber PROVE NumberInv'
  <2>1. /\ NumberGiven /\ HasValue(given.text, size) /\ pc' = "sent" /\ id' = size
        /\ line' = LineWith(given.flag, given.text) /\ given' = given
    BY <1>8 DEF SendNumber, Sent, ClientParses
  <2>2. NumberGiven'
    BY <2>1 DEF NumberGiven
  <2>3. HasValue(given.text, id)'
    BY <2>1
  <2>4. LineIs'
    BY <2>1, <2>2, <2>3 DEF LineIs
  <2> QED
    BY <1>3, <2>1, <2>4
<1>9. ASSUME ShellSends PROVE NumberInv'
  <2>1. FindCmd(FirstWord(given.text)) \in ListFlags
    BY <1>9 DEF ShellSends, Rejected, IsEmptyStr
  <2>2. pc' = "sent" /\ LineIs'
    BY <1>9, <2>1 DEF ShellSends, Sent, LineIs
  <2> QED
    BY <1>3, <2>2
<1>10. ASSUME RefuseNumber \/ ShellRejects PROVE NumberInv'
  BY <1>4, <1>10 DEF RefuseNumber, ShellRejects
<1>11. ASSUME pc \in OnItsWay, given' = given, id' = id, line' = line PROVE LineIs'
  <2>1. LineIs /\ (NumberGiven' = NumberGiven)
    BY <1>11 DEF LineKept, NumberGiven
  <2> QED
    BY <1>11, <2>1 DEF LineIs
<1>12. ASSUME Read \/ ExecTask \/ NoText PROVE NumberInv'
  <2>1. /\ pc \in OnItsWay /\ given' = given /\ id' = id /\ line' = line
        /\ pc' \in {"read", "running", "done"}
    BY <1>12 DEF Read, ExecTask, NoText, Dispatch, OnItsWay
  <2> QED
    BY <1>1, <1>11, <2>1 DEF ClientParses, LineKept, ServerParses
<1>13. ASSUME EndTask PROVE NumberInv'
  <2>1. /\ pc \in OnItsWay /\ given' = given /\ id' = id /\ line' = line /\ more' = more
        /\ pc' = "serving" /\ fn' = "parse_size_slice" /\ str' = Argument
        /\ ppc' = "spaces" /\ at' = 1 /\ LineBuf[1] = "t"
    BY <1>13 DEF EndTask, Dispatch, Call, OnItsWay
  <2>2. line = LineWith("t", given.text) /\ HasValue(given.text, id)
    BY <2>1, EndIsNumber DEF LineKept
  <2>3. PICK b, e, t : Whole(given.text, b, e, t, id)
    BY <2>2 DEF HasValue
  <2>4. b \in 1..Len(given.text)
    BY <2>3 DEF Whole, Numeral
  <2>5. AtPlace(given.text, b, e, t)'
    BY <2>1, <2>4 DEF AtPlace
  <2>6. Argument' = Argument
    BY <2>1 DEF Argument, LineBuf
  <2>7. ServerParses'
    BY <2>1, <2>2, <2>3, <2>5, <2>6 DEF ServerParses
  <2> QED
    BY <1>1, <1>11, <2>1, <2>7 DEF ClientParses, LineKept
<1>14. ASSUME Parse PROVE NumberInv'
  <2>1. pc' = pc /\ given' = given /\ id' = id /\ line' = line /\ UNCHANGED pathVars
    BY <1>14 DEF Parse, pathVars
  <2>2. LineKept'
    BY <1>11, <2>1 DEF LineKept
  <2>3. CASE pc = "checking"
    BY <1>1, <1>14, <2>1, <2>2, <2>3, ClientStep DEF Parse, ServerParses
  <2>4. CASE pc = "serving"
    BY <1>1, <1>14, <2>1, <2>2, <2>4, ServerStep DEF Parse, ClientParses
  <2> QED
    BY <1>14, <2>3, <2>4 DEF Parse
<1>15. ASSUME Run PROVE NumberInv'
  BY <1>2, <1>15 DEF Run
<1>16. ASSUME UNCHANGED allVars PROVE NumberInv'
  BY <1>2, <1>16 DEF allVars
<1> QED
  BY <1>5, <1>6, <1>7, <1>8, <1>9, <1>10, <1>12, <1>13, <1>14, <1>15, <1>16
     DEF Next, ClientNext, ServerNext

LEMMA NumberAlways == Spec => []NumberInv
<1>1. Init => NumberInv
  BY PathAssumption DEF Init, NumberInv, GivenKept, ClientParses, LineKept, ServerParses,
       OnItsWay
<1> QED
  BY <1>1, NextKeepsNumber, PTL DEF Spec

(* The server finds in its read buffer the very number that the client has *)
(* checked, unless the character table misleads it or other lines came     *)
(* with the command, however long the numeral and however wide a size is.  *)
THEOREM IdsAgree == Spec => []SameIdAtBothEnds
<1>1. NumberInv => SameIdAtBothEnds
  BY DEF NumberInv, ServerParses, AtPlace, SameIdAtBothEnds, Parsed
<1> QED
  BY <1>1, NumberAlways, PTL

-----------------------------------------------------------------------------
(* Types.                                                                  *)

Places == {"start", "checking", "refused", "sent", "read", "serving",
           "running", "done"}

PathTypes ==
    /\ pc \in Places /\ id \in 0..MaxSize
    /\ line # <<>> => line[1] \in CmdFlags
    /\ ParseTypeOK /\ TaskTypes
    /\ pc # "running" => procs = <<>> /\ fails = <<>>

LEMMA ParseKeepsType ==
    ASSUME ParseTypeOK, ParseStep
    PROVE  ParseTypeOK'
<1> USE DEF AtEnd, Here
<1>1. /\ str \in Seq(Chars) /\ Len(str) \in Nat /\ at \in 1..(Len(str) + 1)
      /\ fn \in {"none", "parse_size", "parse_size_slice"}
      /\ size \in 0..MaxSize /\ MaxSize \in Nat /\ outcome \in Outcomes
      /\ ppc \in {"idle", "spaces", "digits", "trail", "done"}
  BY ParseAssumption DEF ParseTypeOK, Chars
<1>2. ~AtEnd => Code[str[at]] \in 0..MaxSize
  <2>1. ~AtEnd => str[at] \in Chars
    BY <1>1
  <2> QED
    BY <2>1, ParseAssumption DEF Chars
<1>3. fn' = fn /\ str' = str
  BY DEF ParseStep, SkipBlank, NothingThere, Negative, FirstDigit, FirstInvalid,
     FirstFaults, NextDigit, DigitsEnd, Finish, Return, Step
<1>4. ASSUME NEW o \in Outcomes, Return(o) PROVE ParseTypeOK'
  BY <1>1, <1>4 DEF Return, ParseTypeOK, Chars
<1>5. ASSUME NEW l \in {"spaces", "digits", "trail"}, Step(l), at' \in 1..(Len(str) + 1),
             size' \in 0..MaxSize
      PROVE  ParseTypeOK'
  BY <1>1, <1>5 DEF Step, ParseTypeOK, Chars
<1>6. ASSUME SkipBlank PROVE ParseTypeOK'
  <2>1. /\ ppc \in {"spaces", "digits", "trail"} /\ Step(ppc) /\ size' = size
        /\ at' = at + 1 /\ at <= Len(str)
    BY <1>1, <1>6 DEF SkipBlank, IsBlank
  <2>2. at' \in 1..(Len(str) + 1) /\ size' \in 0..MaxSize
    BY <1>1, <2>1
  <2> QED
    BY <1>5, <2>1, <2>2
<1>7. ASSUME FirstDigit PROVE ParseTypeOK'
  <2>1. Step("digits") /\ ~AtEnd /\ size' = Code[str[at]] /\ at' = at + 1
    BY <1>7 DEF FirstDigit, Plain
  <2>2. at' \in 1..(Len(str) + 1) /\ size' \in 0..MaxSize
    BY <1>1, <1>2, <2>1
  <2> QED
    BY <1>5, <2>1, <2>2
<1>8. ASSUME NextDigit, ~Cut(Code[Here]) PROVE ParseTypeOK'
  <2>1. Step("digits") /\ ~AtEnd /\ size' = Times10Plus(Code[str[at]]) /\ at' = at + 1
    BY <1>8 DEF NextDigit, IsDigit
  <2>2. Code[str[at]] \in Nat /\ size \in Nat
    BY <1>1, <1>2, <2>1
  <2>3. Times10Plus(Code[str[at]]) \in 0..MaxSize
    <3>1. /\ Times10Plus(Code[str[at]]) = size * 10 + Code[str[at]]
          /\ size * 10 + Code[str[at]] <= MaxSize
      BY <1>8, <2>2, NothingCut
    <3>2. \A x, y \in Nat : x * 10 + y \in Nat
      OBVIOUS
    <3> QED
      BY <1>1, <2>2, <3>1, <3>2
  <2>4. at' \in 1..(Len(str) + 1)
    BY <1>1, <2>1
  <2> QED
    BY <1>5, <2>1, <2>3, <2>4
<1>9. ASSUME DigitsEnd PROVE ParseTypeOK'
  <2>1. Step("trail") /\ at' = at /\ size' = size
    BY <1>9 DEF DigitsEnd
  <2> QED
    BY <1>1, <1>5, <2>1
<1>10. ASSUME NothingThere \/ Negative \/ FirstInvalid \/ FirstFaults \/ Finish
              \/ (NextDigit /\ Cut(Code[Here]))
       PROVE  ParseTypeOK'
  <2>1. \/ Return("INV_CHAR") \/ Return("NO_DIGITS") \/ Return("NEGATIVE")
        \/ Return("FAULT") \/ Return("OK") \/ Return("OUT_OF_RANGE")
    BY <1>10 DEF NothingThere, Negative, FirstInvalid, FirstFaults, Finish, NextDigit
  <2> QED
    BY <1>4, <2>1 DEF Outcomes
<1> QED
  BY <1>6, <1>7, <1>8, <1>9, <1>10 DEF ParseStep

LEMMA CallTyped ==
    ASSUME NEW f \in {"parse_size", "parse_size_slice"}, NEW s \in Seq(Chars), Call(f, s)
    PROVE  ParseTypeOK'
<1>1. /\ fn' = f /\ str' = s /\ at' = 1 /\ size' = 0
      /\ ppc' = "spaces" /\ outcome' = "none" /\ Len(s) \in Nat /\ MaxSize \in Nat
  BY ParseAssumption DEF Call
<1>2. 1 \in 1..(Len(s) + 1) /\ 0 \in 0..MaxSize
  BY <1>1
<1> QED
  BY <1>1, <1>2 DEF ParseTypeOK, Outcomes, Chars

(* What the server forks a task with is a text that ends in a blank.       *)
LEMMA TaskText ==
    ASSUME GivenKept, LineIs, LineBuf[1] = "e"
    PROVE  /\ Argument \in Seq(Chars) /\ Len(Argument) >= 1
           /\ Argument[Len(Argument)] = Blank
<1> DEFINE text == given.text
<1>1. /\ text \in Seq(Chars) /\ more \in Seq(Chars) /\ Len(text) \in Nat /\ Len(more) \in Nat
      /\ more # <<>> => more[Len(more)] = Blank
  BY PathAssumption DEF GivenKept, Chars
<1>2. ~ \E f \in ListFlags : line = ListLine(f)
  <2>1. \A f \in ListFlags : line = ListLine(f) => LineBuf[1] = f
    BY FirstOfList
  <2> QED
    BY <2>1 DEF ListFlags
<1>3. ~(NumberGiven /\ line = LineWith(given.flag, text))
  <2>1. line = LineWith(given.flag, text) => LineBuf[1] = given.flag
    BY <1>1, ArgumentIs
  <2> QED
    BY <2>1 DEF NumberGiven, NumberFlags
<1>4. line = LineWith("e", text)
  BY <1>2, <1>3 DEF LineIs
<1>5. /\ Argument \in Seq(Chars)
      /\ Len(Argument) = Len(text) + 1 + Len(more)
      /\ Argument[Len(text) + 1] = Blank
      /\ \A k \in 1..Len(more) : Argument[Len(text) + 1 + k] = more[k]
  BY <1>1, <1>4, ArgumentIs
<1>6. Argument[Len(Argument)] = Blank
  <2>1. CASE more = <<>>
    <3>1. Len(Argument) = Len(text) + 1
      BY <1>1, <1>5, <2>1
    <3> QED
      BY <1>5, <3>1
  <2>2. CASE more # <<>>
    <3>1. Len(more) \in 1..Len(more)
      BY <1>1, <2>2
    <3> QED
      BY <1>1, <1>5, <2>2, <3>1
  <2> QED
    BY <2>1, <2>2
<1> QED
  BY <1>1, <1>5, <1>6

LEMMA LineBegins ==
    ASSUME NEW f, NEW text \in Seq(Chars)
    PROVE  LineWith(f, text)[1] = f /\ ListLine(f)[1] = f
<1> DEFINE C == Chars \cup {f}
<1>1. ArgStr(f) \in Seq(C) /\ Len(ArgStr(f)) = 2 /\ ArgStr(f)[1] = f
  BY PathAssumption DEF ArgStr, Chars
<1>2. Append(text, Blank) \in Seq(C)
  BY PathAssumption DEF Chars
<1> HIDE DEF C
<1>3. \A k \in 1..2 : (ArgStr(f) \o Append(text, Blank))[k] = ArgStr(f)[k]
  <2>1. ArgStr(f) \in Seq(C) /\ Append(text, Blank) \in Seq(C)
    BY <1>1, <1>2
  <2>2. \A k \in 1..Len(ArgStr(f)) :
            (ArgStr(f) \o Append(text, Blank))[k] = ArgStr(f)[k]
    BY <2>1, Joined
  <2> QED
    BY <1>1, <2>2
<1>4. LineWith(f, text)[1] = f
  BY <1>1, <1>3 DEF LineWith
<1>5. ListLine(f)[1] = f
  BY DEF ListLine, ArgStr
<1> QED
  BY <1>4, <1>5

LEMMA NextKeepsTypes ==
    ASSUME PathTypes, NumberInv, PipelineInv, [Next]_allVars
    PROVE  PathTypes'
<1> USE DEF PathTypes
<1>1. given.text \in Seq(Chars) /\ more \in Seq(Chars)
  BY PathAssumption DEF NumberInv, GivenKept, Chars
<1>2. ASSUME UNCHANGED execVars PROVE TaskTypes'
  <2>1. cmd' = cmd /\ procs' = procs /\ fails' = fails /\ killed' = killed
    BY <1>2 DEF execVars
  <2>2. Stages' = Stages
    BY <2>1 DEF Stages, Starts
  <2>3. \A c : EndsInGap(c) => EndsInGap(c)'
    BY <2>1 DEF EndsInGap
  <2> QED
    BY <2>1, <2>2, <2>3 DEF TaskTypes, ProcTypeOK
<1>3. ASSUME UNCHANGED parseVars PROVE ParseTypeOK'
  BY <1>3 DEF parseVars, ParseTypeOK
<1>4. ASSUME UNCHANGED <<line, id>>, pc' \in Places \ {"running"}, pc # "running",
             UNCHANGED execVars, ParseTypeOK'
      PROVE  PathTypes'
  BY <1>2, <1>4 DEF execVars
<1>5. ASSUME NEW l, Sent(l), pc # "running", l[1] \in CmdFlags,
             id' \in 0..MaxSize, UNCHANGED <<parseVars, execVars>>
      PROVE  PathTypes'
  BY <1>2, <1>3, <1>5 DEF Sent, Places, execVars
<1>6. ASSUME SendTask PROVE PathTypes'
  BY <1>1, <1>5, <1>6, LineBegins DEF SendTask, From, CmdFlags
<1>7. ASSUME SendList PROVE PathTypes'
  BY <1>1, <1>5, <1>7, LineBegins DEF SendList, From, CmdFlags, ListFlags
<1>8. ASSUME ShellSends PROVE PathTypes'
  <2>1. FindCmd(FirstWord(given.text)) \in ListFlags
    BY <1>8 DEF ShellSends, Rejected, IsEmptyStr
  <2>2. ListLine(FindCmd(FirstWord(given.text)))[1] \in CmdFlags
    BY <1>1, <2>1, LineBegins DEF CmdFlags, ListFlags
  <2> QED
    BY <1>5, <1>8, <2>2 DEF ShellSends, From
<1>9. ASSUME SendNumber PROVE PathTypes'
  <2>1. given.flag \in NumberFlags
    BY <1>9 DEF SendNumber, NumberInv, ClientParses, NumberGiven
  <2>2. LineWith(given.flag, given.text)[1] \in CmdFlags
    BY <1>1, <2>1, LineBegins DEF CmdFlags, NumberFlags
  <2>3. id' \in 0..MaxSize
    BY <1>9 DEF SendNumber, ParseTypeOK
  <2> QED
    BY <1>5, <1>9, <2>2, <2>3 DEF SendNumber
<1>10. ASSUME CheckNumber PROVE PathTypes'
  <2>1. ParseTypeOK'
    BY <1>1, <1>10, CallTyped DEF CheckNumber
  <2> QED
    BY <1>4, <1>10, <2>1 DEF CheckNumber, From, Places
<1>11. ASSUME RefuseNumber \/ ShellRejects \/ Read \/ NoText PROVE PathTypes'
  BY <1>3, <1>4, <1>11 DEF RefuseNumber, ShellRejects, Read, NoText, From, Dispatch, Places
<1>12. ASSUME EndTask PROVE PathTypes'
  <2>1. Argument \in Seq(Chars)
    <3>1. line = LineWith("t", given.text)
      BY <1>12, EndIsNumber DEF EndTask, Dispatch, NumberInv, LineKept, OnItsWay
    <3> QED
      BY <1>1, <3>1, ArgumentIs
  <2>2. ParseTypeOK'
    BY <1>12, <2>1, CallTyped DEF EndTask
  <2> QED
    BY <1>4, <1>12, <2>2 DEF EndTask, Dispatch, Places
<1>13. ASSUME ExecTask PROVE PathTypes'
  <2>1. /\ pc = "read" /\ LineBuf[1] = "e" /\ Launch(Argument) /\ pc' = "running"
        /\ UNCHANGED <<line, id, parseVars>> /\ fails = <<>>
    BY <1>13 DEF ExecTask, Dispatch
  <2>2. /\ Argument \in Seq(Chars) /\ Len(Argument) >= 1
        /\ Argument[Len(Argument)] = Blank
    BY <2>1, TaskText DEF NumberInv, LineKept, OnItsWay
  <2>3. TaskTypes'
    BY <2>1, <2>2, LaunchTyped
  <2> QED
    BY <1>3, <2>1, <2>3 DEF Places
<1>14. ASSUME Parse PROVE PathTypes'
  <2>1. ParseTypeOK'
    BY <1>14, ParseKeepsType DEF Parse
  <2> QED
    BY <1>4, <1>14, <2>1 DEF Parse, pathVars, Places
<1>15. ASSUME Run PROVE PathTypes'
  <2>1. ExecStep /\ UNCHANGED <<pc, line, id, parseVars>>
    BY <1>15 DEF Run, pathVars
  <2>2. TaskTypes'
    BY <2>1, StepKeepsTypes
  <2>3. procs # <<>>
    BY <2>1 DEF ExecStep, SupStep, ChildStep, Kill, Pids
  <2> QED
    BY <1>3, <2>1, <2>2, <2>3
<1>16. ASSUME UNCHANGED allVars PROVE PathTypes'
  BY <1>2, <1>3, <1>16 DEF allVars, pathVars, execVars
<1> QED
  BY <1>6, <1>7, <1>8, <1>9, <1>10, <1>11, <1>12, <1>13, <1>14, <1>15, <1>16
     DEF Next, ClientNext, ServerNext

LEMMA PathTypesAlways == Spec => []PathTypes
<1>1. Init => PathTypes
  <2> SUFFICES ASSUME Init PROVE PathTypes
    OBVIOUS
  <2>1. /\ pc = "start" /\ id = 0 /\ line = <<>> /\ procs = <<>> /\ fails = <<>>
        /\ cmd = <<>> /\ killed = FALSE /\ MaxSize \in Nat
    BY ParseAssumption DEF Init, ExecInit
  <2>2. ParseTypeOK
    BY <2>1 DEF Init, ParseInit, ParseTypeOK, Outcomes
  <2>3. TaskTypes
    <3>1. cmd \in Seq(Texts) /\ Len(procs) = 0
      BY <2>1
    <3>2. Stages \in Nat
      BY <3>1, StagesIsNat
    <3>3. fails \in Seq(1..Stages) /\ Len(fails) = 0 /\ Len(fails) <= MaxFails
      BY <2>1, ExecAssumption
    <3>4. \A p \in 1..Len(procs) : FALSE
      BY <3>1
    <3> QED
      BY <2>1, <3>1, <3>2, <3>3, <3>4 DEF TaskTypes
  <2> QED
    BY <2>1, <2>2, <2>3 DEF PathTypes, Places
<1> QED
  BY <1>1, NextKeepsTypes, NumberAlways, PipelineAlways, PTL DEF Spec

(* Every value stays in its type.  Among others: the loops over a command  *)
(* store no argument behind its end, and every process of a task is at one *)
(* of its stages or past the last.                                         *)
THEOREM PathTypeCorrect == Spec => []TypeOK
<1>1. PathTypes /\ NumberInv /\ PipelineInv => TypeOK
  BY PathAssumption, TypesMeanTyped DEF PathTypes, NumberInv, GivenKept, TypeOK, Places
<1> QED
  BY <1>1, PathTypesAlways, NumberAlways, PipelineAlways, PTL

-----------------------------------------------------------------------------
(* The words of a command.                                                 *)

(* However many supervisors share the work and whenever they fork: of a    *)
(* command as server.c:275 writes it every process of a stage has all the  *)
(* words of that stage, cut where the user ended them; the first stage has *)
(* those alone, and argc counts them.                                      *)
THEOREM ArgvCorrect == Spec => []WordsReachTheirStage
<1>1. Init => ArgvInv
  <2> SUFFICES ASSUME cmd = <<>>, procs = <<>> PROVE ArgvInv
    BY DEF Init, ExecInit
  <2> QED
    BY DEF ArgvInv
<1>2. PathTypes /\ PathTypes' /\ NumberInv /\ PipelineInv /\ ArgvInv /\ [Next]_allVars
        => ArgvInv'
  <2> SUFFICES ASSUME PathTypes, PathTypes', NumberInv, PipelineInv, ArgvInv, [Next]_allVars
               PROVE  ArgvInv'
    OBVIOUS
  <2>1. CASE UNCHANGED execVars
    <3>1. CASE procs = <<>>
      <4>1. procs' = <<>>
        BY <2>1, <3>1 DEF execVars
      <4> QED
        BY <4>1 DEF ArgvInv
    <3>2. CASE procs # <<>>
      BY <2>1, <3>2, ArgvStays DEF execVars, ArgvInv
    <3> QED
      BY <3>1, <3>2
  <2>2. CASE ExecTask
    <3>1. Launch(Argument) /\ pc = "read" /\ LineBuf[1] = "e"
      BY <2>2 DEF ExecTask, Dispatch
    <3>2. Argument \in Seq(Chars)
      BY <3>1, TaskText DEF NumberInv, LineKept, OnItsWay
    <3> QED
      BY <3>1, <3>2, LaunchStartsArgv DEF PathTypes
  <2>3. CASE Run
    BY <2>3, StepKeepsArgv DEF Run, PathTypes
  <2> QED
    BY <2>1, <2>2, <2>3, OnlyTwoTouchProcs
<1> QED
  BY <1>1, <1>2, ArgvMeans, PathTypesAlways, NumberAlways, PipelineAlways, PTL DEF Spec

-----------------------------------------------------------------------------
(* The meaning of a number, whichever of the parsers reads it.  Values is  *)
(* what ValueOf computes, digit by digit; it grows with every digit.       *)
FirstNot(s, S, k, j) ==
    /\ j \in k..(Len(s) + 1) /\ \A i \in k..(j - 1) : s[i] \in S
    /\ j <= Len(s) => s[j] \notin S

LEMMA PastIsFirstNot ==
    ASSUME NEW s, Len(s) \in Nat, NEW S, NEW k \in 1..(Len(s) + 1)
    PROVE  FirstNot(s, S, k, Past(s, S, k))
<1> DEFINE P == {j \in k..Len(s) : s[j] \notin S} \cup {Len(s) + 1}
<1>1. P \in SUBSET (k..(Len(s) + 1)) /\ P # {} /\ k \in Nat /\ Len(s) + 1 \in Nat
  OBVIOUS
<1>2. Min(P) \in P /\ \A j \in P : Min(P) <= j
  <2> HIDE DEF P
  <2> QED
    BY <1>1, MinExists
<1>3. Past(s, S, k) = Min(P)
  BY DEF Past
<1>4. \A i \in k..Len(s) : s[i] \notin S => i \in P
  OBVIOUS
<1>5. \A i \in P : i = Len(s) + 1 \/ s[i] \notin S
  OBVIOUS
<1> HIDE DEF P
<1>6. Min(P) \in k..(Len(s) + 1)
  BY <1>1, <1>2
<1>7. ASSUME NEW i \in k..(Min(P) - 1) PROVE s[i] \in S
  <2>1. i \in k..Len(s) /\ ~(Min(P) <= i)
    BY <1>1, <1>6
  <2> QED
    BY <1>2, <1>4, <2>1
<1>8. Min(P) <= Len(s) => s[Min(P)] \notin S
  BY <1>2, <1>5, <1>6
<1> QED
  BY <1>3, <1>6, <1>7, <1>8 DEF FirstNot

ValuesAre(s, b, e, t) ==
    /\ t \in [b..(e - 1) -> Nat] /\ t[b] = Code[s[b]]
    /\ \A k \in (b + 1)..(e - 1) : t[k] = t[k - 1] * 10 + Code[s[k]]

LEMMA ValuesExist ==
    ASSUME NEW s, NEW b \in Nat, NEW e \in Nat, b < e,
           \A k \in b..(e - 1) : s[k] \in Digits
    PROVE  \E t : ValuesAre(s, b, e, t)
<1> DEFINE Bad == {m \in b..(e - 1) : ~ \E t : ValuesAre(s, b, m + 1, t)}
<1>1. \A k \in b..(e - 1) : Code[s[k]] \in Nat
  BY DigitCode
<1>2. ASSUME Bad # {} PROVE FALSE
  <2>1. Bad \in SUBSET (b..(e - 1)) /\ e - 1 \in Nat
    OBVIOUS
  <2>2. PICK m \in Bad : \A j \in Bad : m <= j
    <3> HIDE DEF Bad
    <3> QED
      BY <1>2, <2>1, MinExists
  <2>3. m \in b..(e - 1) /\ Code[s[m]] \in Nat
    BY <1>1
  <2>4. CASE m = b
    <3> DEFINE t == [k \in b..b |-> Code[s[b]]]
    <3>1. t \in [b..b -> Nat] /\ t[b] = Code[s[b]]
      BY <2>3, <2>4
    <3>2. b + 1 - 1 = b /\ \A k \in (b + 1)..b : FALSE
      OBVIOUS
    <3> HIDE DEF t, Bad
    <3>3. \A k \in (b + 1)..(b + 1 - 1) : t[k] = t[k - 1] * 10 + Code[s[k]]
      BY <3>2
    <3>4. t \in [b..(b + 1 - 1) -> Nat]
      BY <3>1, <3>2
    <3>5. ValuesAre(s, b, b + 1, t)
      BY <3>1, <3>3, <3>4 DEF ValuesAre
    <3> QED
      BY <2>4, <3>5 DEF Bad
  <2>5. CASE m # b
    <3>1. m - 1 \in b..(e - 1) /\ m - 1 \notin Bad /\ m - 1 + 1 = m
      <4>1. m - 1 \in b..(e - 1) /\ ~(m <= m - 1)
        BY <2>3, <2>5
      <4> HIDE DEF Bad
      <4> QED
        BY <2>2, <2>3, <4>1
    <3>2. \E u : ValuesAre(s, b, m - 1 + 1, u)
      BY <3>1
    <3>3. PICK u : ValuesAre(s, b, m, u)
      BY <3>1, <3>2
    <3> DEFINE t == [k \in b..m |-> IF k = m THEN u[m - 1] * 10 + Code[s[m]] ELSE u[k]]
    <3>4. u \in [b..(m - 1) -> Nat] /\ m - 1 \in b..(m - 1) /\ u[m - 1] \in Nat
      BY <2>3, <3>1, <3>3 DEF ValuesAre
    <3>5. u[m - 1] * 10 + Code[s[m]] \in Nat
      BY <2>3, <3>4
    <3>6. \A k \in b..m : k = m \/ k \in b..(m - 1)
      BY <2>3
    <3>7. t \in [b..m -> Nat]
      BY <3>4, <3>5, <3>6
    <3>8. t[m] = u[m - 1] * 10 + Code[s[m]] /\ \A k \in b..(m - 1) : t[k] = u[k]
      BY <2>3
    <3> HIDE DEF t
    <3>9. t[b] = Code[s[b]]
      BY <2>3, <2>5, <3>3, <3>8 DEF ValuesAre
    <3>10. ASSUME NEW k \in (b + 1)..m PROVE t[k] = t[k - 1] * 10 + Code[s[k]]
      <4>1. k - 1 \in b..(m - 1) /\ (k = m \/ k \in (b + 1)..(m - 1))
        BY <2>3
      <4>2. CASE k = m
        BY <3>4, <3>8, <4>2
      <4>3. CASE k \in (b + 1)..(m - 1)
        <5>1. k \in b..(m - 1)
          BY <4>3
        <5>2. u[k] = u[k - 1] * 10 + Code[s[k]]
          BY <3>3, <4>3, SMTT(20) DEF ValuesAre
        <5> QED
          BY <3>8, <4>1, <5>1, <5>2
      <4> QED
        BY <4>1, <4>2, <4>3
    <3>11. m + 1 - 1 = m
      BY <2>3
    <3>12. ValuesAre(s, b, m + 1, t)
      BY <3>7, <3>9, <3>10, <3>11 DEF ValuesAre
    <3> QED
      BY <3>12
  <2> QED
    BY <2>4, <2>5
<1>3. e - 1 \in b..(e - 1) /\ e - 1 + 1 = e
  OBVIOUS
<1> QED
  BY <1>2, <1>3

LEMMA ValueIs ==
    ASSUME NEW s, Len(s) \in Nat, IsNumber(s)
    PROVE  \E t : ValuesAre(s, NumberStart(s), NumberEnd(s), t)
                    /\ ValueOf(s) = t[NumberEnd(s) - 1]
<1> DEFINE b == NumberStart(s)
           e == NumberEnd(s)
           Def(t) == [k \in b..(e - 1) |->
                        IF k = b THEN Code[s[k]] ELSE t[k - 1] * 10 + Code[s[k]]]
           upTo == CHOOSE t : t = Def(t)
<1>1. FirstNot(s, {Blank}, 1, b)
  BY PastIsFirstNot DEF NumberStart
<1>2. b \in 1..(Len(s) + 1)
  BY <1>1 DEF FirstNot
<1>3. FirstNot(s, Digits, b, e)
  BY <1>2, PastIsFirstNot DEF NumberEnd
<1>4. b \in Nat /\ e \in Nat /\ b < e /\ \A k \in b..(e - 1) : s[k] \in Digits
  BY <1>2, <1>3 DEF FirstNot, IsNumber
<1>5. ValueOf(s) = upTo[e - 1]
  BY DEF ValueOf
<1> HIDE DEF b, e
<1>6. PICK t : ValuesAre(s, b, e, t)
  BY <1>4, ValuesExist
<1>7. t = Def(t)
  <2>1. \A k \in b..(e - 1) : k = b \/ k \in (b + 1)..(e - 1)
    BY <1>4
  <2>2. \A k \in b..(e - 1) :
          t[k] = IF k = b THEN Code[s[k]] ELSE t[k - 1] * 10 + Code[s[k]]
    BY <1>6, <2>1 DEF ValuesAre
  <2>3. t = [k \in b..(e - 1) |-> t[k]]
    BY <1>6 DEF ValuesAre
  <2> QED
    BY <2>2, <2>3
<1>8. upTo = Def(upTo)
  <2> HIDE DEF Def
  <2> QED
    BY <1>7
<1>9. ValuesAre(s, b, e, upTo)
  <2> DEFINE v == upTo
             Bad == {k \in b..(e - 1) : v[k] \notin Nat}
  <2>1. v = [k \in b..(e - 1) |->
               IF k = b THEN Code[s[k]] ELSE v[k - 1] * 10 + Code[s[k]]]
    BY <1>8
  <2> HIDE DEF v, upTo
  <2>2. b \in b..(e - 1) /\ \A k \in b..(e - 1) : Code[s[k]] \in Nat
    BY <1>4, DigitCode
  <2>3. v[b] = Code[s[b]]
    BY <2>1, <2>2
  <2>4. \A k \in (b + 1)..(e - 1) : v[k] = v[k - 1] * 10 + Code[s[k]]
    <3>1. \A k \in (b + 1)..(e - 1) : k \in b..(e - 1) /\ k # b
      BY <1>4
    <3> QED
      BY <2>1, <3>1
  <2>5. Bad = {}
    <3> SUFFICES ASSUME Bad # {} PROVE FALSE
      OBVIOUS
    <3>1. Bad \in SUBSET (b..(e - 1)) /\ e - 1 \in Nat
      BY <1>4
    <3>2. PICK m \in Bad : \A j \in Bad : m <= j
      <4> HIDE DEF Bad
      <4> QED
        BY <1>4, <3>1, MinExists
    <3>3. m \in b..(e - 1) /\ v[m] \notin Nat
      OBVIOUS
    <3>4. m # b
      BY <2>2, <2>3, <3>3
    <3>5. m - 1 \in b..(e - 1) /\ ~(m <= m - 1) /\ m \in (b + 1)..(e - 1)
      BY <1>4, <3>3, <3>4
    <3>6. v[m - 1] \in Nat
      BY <3>2, <3>5
    <3>7. v[m - 1] * 10 + Code[s[m]] \in Nat
      BY <2>2, <3>3, <3>6, SMTT(20)
    <3> QED
      BY <2>4, <3>3, <3>5, <3>7
  <2>6. v \in [b..(e - 1) -> Nat]
    <3>1. \A k \in b..(e - 1) : v[k] \in Nat
      BY <2>5
    <3> QED
      BY <2>1, <3>1
  <2> QED
    BY <2>3, <2>4, <2>6 DEF ValuesAre, v
<1> QED
  BY <1>5, <1>9 DEF b, e

LEMMA ValuesGrow ==
    ASSUME NEW s, NEW b \in Nat, NEW e \in Nat, b < e, NEW t, ValuesAre(s, b, e, t),
           \A k \in b..(e - 1) : s[k] \in Digits, NEW a \in b..(e - 1)
    PROVE  t[a] <= t[e - 1]
<1> DEFINE Bad == {k \in a..(e - 1) : ~(t[a] <= t[k])}
<1>1. \A k \in b..(e - 1) : t[k] \in Nat /\ Code[s[k]] \in Nat
  <2>1. t \in [b..(e - 1) -> Nat]
    BY DEF ValuesAre
  <2> QED
    BY <2>1, DigitCode, SMTT(20)
<1>2. Bad = {}
  <2> SUFFICES ASSUME Bad # {} PROVE FALSE
    OBVIOUS
  <2>1. Bad \in SUBSET (a..(e - 1)) /\ a \in Nat /\ e - 1 \in Nat
    OBVIOUS
  <2>2. PICK m \in Bad : \A j \in Bad : m <= j
    <3> HIDE DEF Bad
    <3> QED
      BY <2>1, MinExists
  <2>3. m \in a..(e - 1) /\ ~(t[a] <= t[m])
    OBVIOUS
  <2>4. m # a
    BY <1>1, <2>3
  <2>5. /\ m - 1 \in a..(e - 1) /\ ~(m <= m - 1) /\ m \in (b + 1)..(e - 1)
        /\ m - 1 \in b..(e - 1) /\ m \in b..(e - 1)
    BY <2>3, <2>4
  <2>6. t[a] <= t[m - 1]
    BY <2>2, <2>5
  <2>7. t[m] = t[m - 1] * 10 + Code[s[m]]
    BY <2>5 DEF ValuesAre
  <2>8. t[a] \in Nat /\ t[m - 1] \in Nat /\ t[m] \in Nat /\ Code[s[m]] \in Nat
    BY <1>1, <2>5
  <2>9. \A x, y, z \in Nat : x <= y => x <= y * 10 + z
    OBVIOUS
  <2> QED
    BY <2>3, <2>6, <2>7, <2>8, <2>9
<1>3. e - 1 \in a..(e - 1)
  OBVIOUS
<1> QED
  BY <1>2, <1>3

(***************************************************************************)
(* Where the parser is in the string, loop by loop.  A slice whose first   *)
(* character isdigit has misjudged is read for what it is not.             *)
(***************************************************************************)
Strayed ==
    /\ fn = "parse_size_slice" /\ NumberStart(str) <= Len(str)
    /\ ~IsNumber(str) /\ str[NumberStart(str)] # Minus

ValueAt(k) ==
    \E t : /\ ValuesAre(str, NumberStart(str), NumberEnd(str), t)
           /\ ValueOf(str) = t[NumberEnd(str) - 1] /\ size = t[k - 1]

MeaningInv ==
    /\ ppc # "idle" => fn \in {"parse_size", "parse_size_slice"}
    /\ ppc = "spaces" => at <= NumberStart(str)
    /\ ppc = "digits" =>
         \/ Strayed
         \/ /\ IsNumber(str) /\ at \in (NumberStart(str) + 1)..NumberEnd(str)
            /\ ValueAt(at)
    /\ ppc = "trail" =>
         \/ Strayed
         \/ /\ IsNumber(str) /\ at \in NumberEnd(str)..Rear(str)
            /\ ValueAt(NumberEnd(str))
    /\ ParsesNumerals

(* What the marks of a string are.                                         *)
LEMMA MarksAre ==
    ASSUME NEW s, Len(s) \in Nat
    PROVE  /\ FirstNot(s, {Blank}, 1, NumberStart(s))
           /\ FirstNot(s, Digits, NumberStart(s), NumberEnd(s))
           /\ FirstNot(s, {Blank}, NumberEnd(s), Rear(s))
           /\ NumberStart(s) \in 1..(Len(s) + 1)
           /\ NumberEnd(s) \in NumberStart(s)..(Len(s) + 1)
           /\ Rear(s) \in NumberEnd(s)..(Len(s) + 1)
<1>1. FirstNot(s, {Blank}, 1, NumberStart(s))
  BY PastIsFirstNot DEF NumberStart
<1>2. NumberStart(s) \in 1..(Len(s) + 1)
  BY <1>1 DEF FirstNot
<1>3. FirstNot(s, Digits, NumberStart(s), NumberEnd(s))
  BY <1>2, PastIsFirstNot DEF NumberEnd
<1>4. NumberEnd(s) \in NumberStart(s)..(Len(s) + 1) /\ NumberEnd(s) \in 1..(Len(s) + 1)
  BY <1>2, <1>3 DEF FirstNot
<1>5. FirstNot(s, {Blank}, NumberEnd(s), Rear(s))
  BY <1>4, PastIsFirstNot DEF Rear
<1>6. Rear(s) \in NumberEnd(s)..(Len(s) + 1)
  BY <1>5 DEF FirstNot
<1> QED
  BY <1>1, <1>2, <1>3, <1>4, <1>5, <1>6

LEMMA ParseKeepsMeaning ==
    ASSUME ParseTypeOK, ParseTypeOK', MeaningInv, ParseStep
    PROVE  MeaningInv'
<1> DEFINE n == Len(str)
           b == NumberStart(str)
           e == NumberEnd(str)
           r == Rear(str)
<1>1. /\ str \in Seq(Chars) /\ n \in Nat /\ at \in 1..(n + 1)
      /\ size \in 0..MaxSize /\ MaxSize \in Nat
      /\ str' = str /\ fn' = fn /\ ppc # "idle"
  BY ParseAssumption DEF ParseTypeOK, Chars, ParseStep, SkipBlank, NothingThere, Negative,
     FirstDigit, FirstInvalid, FirstFaults, NextDigit, DigitsEnd, Finish, Return, Step,
     Spaces, Plain
<1>2. fn \in {"parse_size", "parse_size_slice"}
  BY <1>1 DEF MeaningInv
<1>3. /\ FirstNot(str, {Blank}, 1, b) /\ FirstNot(str, Digits, b, e)
      /\ FirstNot(str, {Blank}, e, r)
      /\ b \in 1..(n + 1) /\ e \in b..(n + 1) /\ r \in e..(n + 1)
  BY <1>1, MarksAre
<1>4. /\ \A k \in 1..(b - 1) : str[k] = Blank
      /\ b <= n => str[b] # Blank
      /\ \A k \in b..(e - 1) : str[k] \in Digits
      /\ e <= n => str[e] \notin Digits
      /\ \A k \in e..(r - 1) : str[k] = Blank
      /\ r <= n => str[r] # Blank
  BY <1>3 DEF FirstNot
<1>5. IsNumber(str) <=> b < e
  BY DEF IsNumber
<1>6. Strayed <=> fn = "parse_size_slice" /\ b <= n /\ ~(b < e) /\ str[b] # Minus
  BY <1>5 DEF Strayed
<1>7. /\ b <= n /\ str[b] \in Digits => b < e
      /\ b < e => b <= n /\ str[b] \in Digits /\ str[b] # Minus
  <2>1. b <= n /\ b = e => str[b] \notin Digits
    BY <1>4
  <2>2. b < e => b \in b..(e - 1) /\ b <= n
    BY <1>1, <1>3
  <2>3. b < e => str[b] \in Digits
    BY <1>4, <2>2
  <2> QED
    BY <1>1, <1>3, <2>1, <2>2, <2>3, DigitCode
<1>8. /\ Strayed' = Strayed
      /\ \A k : size' = size => ValueAt(k)' = ValueAt(k)
  BY <1>1 DEF Strayed, ValueAt
<1>9. /\ Meaning(str)' = Meaning(str) /\ Rear(str)' = r
      /\ OnlyBlanks(str)' = (b > n)
      /\ NumberStart(str)' = b /\ NumberEnd(str)' = e /\ ValueOf(str)' = ValueOf(str)
      /\ IsNumber(str)' = IsNumber(str)
  BY <1>1 DEF OnlyBlanks
<1>10. Meaning(str) =
          CASE b > n -> "NO_DIGITS"
            [] ~(b > n) /\ str[b] = Minus -> "NEGATIVE"
            [] b < e /\ ValueOf(str) > MaxSize -> "OUT_OF_RANGE"
            [] b < e /\ ValueOf(str) <= MaxSize /\ r > n -> "OK"
            [] OTHER -> "INV_CHAR"
  BY DEF Meaning, IsNumber, OnlyBlanks
<1> HIDE DEF n, b, e, r
<1>11. AtEnd <=> at > n
  BY DEF AtEnd, n
(* A loop goes on, or a call returns.                                      *)
<1>12. ASSUME NEW l \in {"spaces", "digits", "trail"}, Step(l),
              l = "spaces" => at' <= b,
              l = "digits" => Strayed
                  \/ (b < e /\ at' \in (b + 1)..e /\ ValueAt(at)'),
              l = "trail" => Strayed
                  \/ (b < e /\ at' \in e..r /\ ValueAt(NumberEnd(str))')
       PROVE  MeaningInv'
  <2>1. ppc' = l /\ ~Parsed'
    BY <1>12 DEF Step, Parsed
  <2>2. fn' \in {"parse_size", "parse_size_slice"}
    BY <1>1, <1>2
  <2>3. ParsesNumerals'
    BY <2>1 DEF ParsesNumerals
  <2>4. ppc' = "spaces" => at' <= NumberStart(str)'
    BY <1>9, <1>12, <2>1
  <2>5. ppc' = "digits" =>
          \/ Strayed'
          \/ /\ IsNumber(str)' /\ at' \in (NumberStart(str)' + 1)..NumberEnd(str)'
             /\ ValueAt(at)'
    BY <1>5, <1>8, <1>9, <1>12, <2>1
  <2>6. ppc' = "trail" =>
          \/ Strayed'
          \/ /\ IsNumber(str)' /\ at' \in NumberEnd(str)'..Rear(str)'
             /\ ValueAt(NumberEnd(str))'
    BY <1>5, <1>8, <1>9, <1>12, <2>1
  <2> QED
    BY <2>2, <2>3, <2>4, <2>5, <2>6 DEF MeaningInv
<1>13. ASSUME NEW o, Return(o),
              \/ fn = "parse_size_slice" \/ b > n
              \/ /\ o = Meaning(str)
                 /\ o = "OK" => size = ValueOf(str)
                 /\ o = "INV_CHAR" => at = IF b < e THEN r ELSE b
       PROVE  MeaningInv'
  <2>1. ppc' = "done" /\ outcome' = o /\ at' = at /\ size' = size
    BY <1>13 DEF Return
  <2>2. CASE fn = "parse_size_slice"
    BY <1>1, <2>1, <2>2 DEF MeaningInv, ParsesNumerals
  <2>3. CASE b > n
    BY <1>1, <1>2, <1>9, <2>1, <2>3 DEF MeaningInv, ParsesNumerals
  <2>4. CASE /\ o = Meaning(str)
             /\ o = "OK" => size = ValueOf(str)
             /\ o = "INV_CHAR" => at = IF b < e THEN r ELSE b
    <3>1. ParsesNumerals'
      BY <1>5, <1>9, <2>1, <2>4 DEF ParsesNumerals
    <3> QED
      BY <1>1, <1>2, <2>1, <3>1 DEF MeaningInv
  <2> QED
    BY <1>13, <2>2, <2>3, <2>4
(* The parser leaves the blanks at the number.                             *)
<1>14. Spaces => at = b
  <2> SUFFICES ASSUME Spaces PROVE at = b
    OBVIOUS
  <2>1. at <= b
    BY DEF MeaningInv, Spaces, b
  <2>2. ~(at < b)
    <3> SUFFICES ASSUME at < b PROVE FALSE
      OBVIOUS
    <3>1. at <= n /\ at \in 1..(b - 1)
      BY <1>1, <1>3
    <3>2. IsBlank
      BY <1>1, <1>4, <1>11, <3>1 DEF IsBlank, Here
    <3> QED
      BY <3>2 DEF Spaces
  <2> QED
    BY <1>1, <1>3, <2>1, <2>2
<1>15. ASSUME SkipBlank PROVE MeaningInv'
  <2>1. /\ ppc \in {"spaces", "trail"} /\ Step(ppc) /\ at' = at + 1 /\ size' = size
        /\ at <= n /\ str[at] = Blank
    BY <1>1, <1>11, <1>15 DEF SkipBlank, IsBlank, Here
  <2>2. CASE ppc = "spaces"
    <3>1. at <= b /\ at # b
      BY <1>4, <2>1, <2>2 DEF MeaningInv, b
    <3>2. at + 1 <= b
      BY <1>1, <1>3, <3>1
    <3> QED
      BY <1>12, <2>1, <2>2, <3>2
  <2>3. CASE ppc = "trail"
    <3>1. ~Strayed => b < e /\ at \in e..r /\ ValueAt(e)
      BY <1>5, <2>3 DEF MeaningInv, e, r
    <3>2. ~Strayed => at + 1 \in e..r
      <4>1. at # r
        BY <1>4, <2>1
      <4> QED
        BY <1>1, <1>3, <3>1, <4>1
    <3>3. ~Strayed => ValueAt(NumberEnd(str))'
      BY <1>8, <1>9, <2>1, <3>1 DEF e
    <3> QED
      BY <1>12, <2>1, <2>3, <3>1, <3>2, <3>3
  <2> QED
    BY <2>1, <2>2, <2>3
<1>16. ASSUME NothingThere PROVE MeaningInv'
  <2>1. /\ at = b /\ b > n
        /\ Return(IF fn = "parse_size" THEN "INV_CHAR" ELSE "NO_DIGITS")
    BY <1>11, <1>14, <1>16 DEF NothingThere
  <2> QED
    BY <1>13, <2>1
<1>17. ASSUME Negative PROVE MeaningInv'
  <2>1. at = b /\ b <= n /\ str[b] = Minus /\ Return("NEGATIVE")
    BY <1>1, <1>3, <1>11, <1>14, <1>17 DEF Negative, Here
  <2>2. Meaning(str) = "NEGATIVE"
    BY <1>1, <1>3, <1>7, <1>10, <2>1
  <2> QED
    BY <1>13, <2>1, <2>2
<1>18. ASSUME FirstDigit PROVE MeaningInv'
  <2>1. /\ at = b /\ b <= n /\ str[b] # Minus /\ Step("digits")
        /\ size' = Code[str[b]] /\ at' = b + 1
        /\ fn = "parse_size" => str[b] \in Digits
    BY <1>1, <1>3, <1>11, <1>14, <1>18 DEF FirstDigit, Plain, Here, IsDigit
  <2>2. CASE b < e
    <3>1. PICK t : ValuesAre(str, b, e, t) /\ ValueOf(str) = t[e - 1]
      BY <1>1, <1>5, <2>2, ValueIs DEF b, e, n
    <3>2. size' = t[b + 1 - 1]
      <4>1. b + 1 - 1 = b
        BY <1>3
      <4> QED
        BY <2>1, <3>1, <4>1 DEF ValuesAre
    <3>3. ValueAt(at)'
      BY <1>1, <1>9, <2>1, <3>1, <3>2 DEF ValueAt
    <3>4. b + 1 \in (b + 1)..e
      BY <1>1, <1>3, <2>2
    <3> QED
      BY <1>12, <2>1, <2>2, <3>3, <3>4
  <2>3. CASE ~(b < e)
    <3>1. Strayed
      BY <1>2, <1>6, <1>7, <2>1, <2>3
    <3> QED
      BY <1>12, <2>1, <3>1
  <2> QED
    BY <2>2, <2>3
<1>19. ASSUME FirstInvalid PROVE MeaningInv'
  <2>1. /\ at = b /\ b <= n /\ str[b] # Minus /\ Return("INV_CHAR")
        /\ fn = "parse_size" => str[b] \notin Digits
    BY <1>1, <1>3, <1>11, <1>14, <1>19 DEF FirstInvalid, Plain, Here, IsDigit
  <2>2. CASE fn = "parse_size"
    <3>1. ~(b < e)
      BY <1>7, <2>1, <2>2
    <3>2. Meaning(str) = "INV_CHAR"
      BY <1>1, <1>3, <1>10, <2>1, <3>1
    <3> QED
      BY <1>13, <2>1, <3>1, <3>2
  <2>3. CASE fn = "parse_size_slice"
    BY <1>13, <2>1, <2>3
  <2> QED
    BY <1>2, <2>2, <2>3
<1>20. ASSUME FirstFaults PROVE MeaningInv'
  BY <1>13, <1>20 DEF FirstFaults
<1>21. ASSUME NextDigit PROVE MeaningInv'
  <2>1. /\ ppc = "digits" /\ at <= n /\ str[at] \in Digits
        /\ IF Cut(Code[str[at]]) THEN Return("OUT_OF_RANGE")
           ELSE /\ size' = Times10Plus(Code[str[at]])
                /\ at' = at + 1 /\ Step("digits")
    BY <1>1, <1>11, <1>21 DEF NextDigit, IsDigit, Here
  <2>2. CASE Strayed
    BY <1>6, <1>12, <1>13, <2>1, <2>2
  <2>3. CASE ~Strayed
    <3>1. b < e /\ at \in (b + 1)..e /\ ValueAt(at)
      BY <1>5, <2>1, <2>3 DEF MeaningInv, b, e
    <3>2. PICK t : ValuesAre(str, b, e, t) /\ ValueOf(str) = t[e - 1] /\ size = t[at - 1]
      BY <3>1 DEF ValueAt, b, e
    <3>3. at # e
      BY <1>4, <2>1
    <3>4. at \in (b + 1)..(e - 1) /\ at \in b..(e - 1) /\ at + 1 - 1 = at
      BY <1>1, <1>3, <3>1, <3>3
    <3>5. t[at] = size * 10 + Code[str[at]] /\ Code[str[at]] \in Nat /\ size \in Nat
      <4>1. t[at] = t[at - 1] * 10 + Code[str[at]]
        BY <3>2, <3>4 DEF ValuesAre
      <4>2. Code[str[at]] \in Nat /\ size \in Nat
        BY <1>1, <2>1, DigitCode
      <4> QED
        BY <3>2, <4>1, <4>2
    <3>6. t[at] <= t[e - 1] /\ t[e - 1] \in Nat /\ t[at] \in Nat
      <4>1. t[at] <= t[e - 1]
        BY <1>3, <1>4, <3>1, <3>2, <3>4, ValuesGrow
      <4>2. t \in [b..(e - 1) -> Nat] /\ e - 1 \in b..(e - 1)
        BY <1>1, <1>3, <3>1, <3>2 DEF ValuesAre
      <4> QED
        BY <3>4, <4>1, <4>2
    <3>7. CASE Cut(Code[str[at]])
      <4>1. ~(t[at] <= MaxSize)
        <5>1. \A x, y \in Nat : x * 10 > MaxSize \/ x * 10 + y > MaxSize
                                  => ~(x * 10 + y <= MaxSize)
          BY <1>1
        <5> QED
          BY <3>5, <3>7, <5>1 DEF Cut
      <4>2. ValueOf(str) > MaxSize /\ ~(ValueOf(str) <= MaxSize)
        BY <1>1, <3>2, <3>6, <4>1
      <4>3. Meaning(str) = "OUT_OF_RANGE"
        BY <1>1, <1>3, <1>7, <1>10, <3>1, <4>2
      <4> QED
        BY <1>13, <2>1, <3>7, <4>3
    <3>8. CASE ~Cut(Code[str[at]])
      <4>1. size' = t[at + 1 - 1]
        BY <2>1, <3>4, <3>5, <3>8, NothingCut
      <4>2. ValueAt(at)'
        BY <1>1, <1>9, <2>1, <3>2, <3>8, <4>1 DEF ValueAt, b, e
      <4>3. at + 1 \in (b + 1)..e
        BY <1>1, <1>3, <3>4
      <4> QED
        BY <1>12, <2>1, <3>1, <3>8, <4>2, <4>3
    <3> QED
      BY <3>7, <3>8
  <2> QED
    BY <2>2, <2>3
<1>22. ASSUME DigitsEnd PROVE MeaningInv'
  <2>1. /\ ppc = "digits" /\ Step("trail") /\ at' = at /\ size' = size
        /\ ~(at <= n /\ str[at] \in Digits)
    BY <1>1, <1>11, <1>22 DEF DigitsEnd, IsDigit, Here
  <2>2. CASE Strayed
    BY <1>12, <2>1, <2>2
  <2>3. CASE ~Strayed
    <3>1. b < e /\ at \in (b + 1)..e /\ ValueAt(at)
      BY <1>5, <2>1, <2>3 DEF MeaningInv, b, e
    <3>2. at = e
      <4>1. at # e => at \in b..(e - 1) /\ at <= n
        BY <1>1, <1>3, <3>1
      <4> QED
        BY <1>4, <2>1, <4>1
    <3>3. ValueAt(NumberEnd(str))'
      BY <1>8, <1>9, <2>1, <3>1, <3>2
    <3>4. e \in e..r
      BY <1>1, <1>3
    <3> QED
      BY <1>12, <2>1, <3>1, <3>2, <3>3, <3>4
  <2> QED
    BY <2>2, <2>3
<1>23. ASSUME Finish PROVE MeaningInv'
  <2>1. /\ ppc = "trail" /\ ~(at <= n /\ str[at] = Blank)
        /\ Return(IF at > n THEN "OK" ELSE "INV_CHAR")
    BY <1>1, <1>11, <1>23 DEF Finish, IsBlank, Here
  <2>2. CASE Strayed
    BY <1>6, <1>13, <2>1, <2>2
  <2>3. CASE ~Strayed
    <3>1. b < e /\ at \in e..r /\ ValueAt(e)
      BY <1>5, <2>1, <2>3 DEF MeaningInv, e, r
    <3>2. at = r
      <4>1. at # r => at \in e..(r - 1) /\ at <= n
        BY <1>1, <1>3, <3>1
      <4> QED
        BY <1>4, <2>1, <4>1
    <3>3. size = ValueOf(str)
      BY <3>1 DEF ValueAt, e
    <3>4. ValueOf(str) <= MaxSize /\ ~(ValueOf(str) > MaxSize)
      BY <1>1, <3>3
    <3>5. Meaning(str) = IF at > n THEN "OK" ELSE "INV_CHAR"
      BY <1>1, <1>3, <1>7, <1>10, <3>1, <3>2, <3>4
    <3> QED
      BY <1>13, <2>1, <3>1, <3>2, <3>3, <3>5
  <2> QED
    BY <2>2, <2>3
<1> QED
  BY <1>15, <1>16, <1>17, <1>18, <1>19, <1>20, <1>21, <1>22, <1>23 DEF ParseStep

LEMMA CallStartsMeaning ==
    ASSUME NEW f \in {"parse_size", "parse_size_slice"}, NEW s, Len(s) \in Nat, Call(f, s)
    PROVE  MeaningInv'
<1>1. fn' = f /\ str' = s /\ at' = 1 /\ ppc' = "spaces"
  BY DEF Call
<1>2. NumberStart(str)' \in 1..(Len(s) + 1)
  BY <1>1, MarksAre
<1> QED
  BY <1>1, <1>2 DEF MeaningInv, ParsesNumerals, Parsed

(***************************************************************************)
(* parse_size finds what the string means as a whole, for every string     *)
(* that is not all blanks and every width of a size_t: overflow exactly    *)
(* when the numeral is too large, and the first character that does not    *)
(* belong there.                                                           *)
(***************************************************************************)
THEOREM ParsersCorrect == Spec => []ParsesNumerals
<1>1. Init => MeaningInv
  BY DEF Init, ParseInit, MeaningInv, ParsesNumerals, Parsed
<1>2. /\ PathTypes /\ PathTypes' /\ NumberInv /\ MeaningInv /\ [Next]_allVars
      => MeaningInv'
  <2> SUFFICES ASSUME PathTypes, PathTypes', NumberInv, MeaningInv, [Next]_allVars
               PROVE  MeaningInv'
    OBVIOUS
  <2>1. ParseTypeOK /\ ParseTypeOK' /\ GivenKept
    BY DEF PathTypes, NumberInv
  <2>2. CASE UNCHANGED parseVars
    BY <2>2 DEF parseVars, MeaningInv, ParsesNumerals, Parsed, Strayed, ValueAt
  <2>3. ASSUME NEW f \in {"parse_size", "parse_size_slice"}, NEW s, Call(f, s)
        PROVE  MeaningInv'
    <3>1. Len(s) \in Nat
      BY <2>1, <2>3 DEF Call, ParseTypeOK
    <3> QED
      BY <2>3, <3>1, CallStartsMeaning
  <2>4. CASE CheckNumber \/ EndTask
    BY <2>3, <2>4 DEF CheckNumber, EndTask
  <2>5. CASE Parse
    BY <2>1, <2>5, ParseKeepsMeaning DEF Parse
  <2>6. \/ UNCHANGED parseVars \/ Parse
        \/ CheckNumber \/ EndTask
    BY DEF Next, ClientNext, ServerNext, SendTask, SendList, SendNumber, RefuseNumber,
       ShellSends, ShellRejects, Read, ExecTask, NoText, Run, allVars
  <2> QED
    BY <2>2, <2>4, <2>5, <2>6
<1>3. MeaningInv => ParsesNumerals
  BY DEF MeaningInv
<1> QED
  BY <1>1, <1>2, <1>3, PathTypesAlways, NumberAlways, PTL DEF Spec
=============================================================================
