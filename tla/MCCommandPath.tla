--------------------------- MODULE MCCommandPath ----------------------------
(***************************************************************************)
(* Small instances of CommandPath for TLC.                                 *)
(***************************************************************************)
EXTENDS CommandPath

TextsOver(C, n) == UNION {[1..k -> C] : k \in 0..n}

DigitChars == {"0", "1", "5", "6"}
Numbers == TextsOver(DigitChars \cup {" ", "-", "x"}, 4)
Tasks == TextsOver({"x", " ", "|"}, 3) \cup {<<"x", " ", "|", " ", "x">>,
             <<"x", " ", "x", " ", "|", " ", "x">>,
             <<"x", " ", "|", " ", "x", " ", "|", " ", "x">>}

(* '0' is character 48, ' ' is 32, '-' is 45, 't' is 116, 'x' is 120, '|'  *)
(* is 124; a size has four bits.                                           *)
CodeOf(c) ==
    CASE c = "1" -> 1 [] c = "5" -> 5 [] c = "6" -> 6
      [] c = "-" -> 13
      [] c = "x" -> 72 % 16 [] c = "t" -> 68 % 16 [] c = "|" -> 76 % 16
      [] OTHER -> 0

(* The letters of the shell's words are never parsed as numbers.           *)
Letters == {"x", "e", "t", "r", "m", "i", "l", "h", "a"}
MCCode == [c \in DigitChars \cup Letters \cup {" ", "-", "|"} |-> CodeOf(c)]

(* executar, terminar, tempo-execucao, tempo-inactividade, listar,         *)
(* historico and ajuda, with the letters that tell them apart.             *)
MCNames == <<
    [name |-> <<"e", "x">>,           flag |-> "e"],
    [name |-> <<"t", "e", "r">>,      flag |-> "t"],
    [name |-> <<"t", "e", "m", "e">>, flag |-> "m"],
    [name |-> <<"t", "e", "m", "i">>, flag |-> "i"],
    [name |-> <<"l">>,                flag |-> "l"],
    [name |-> <<"h">>,                flag |-> "r"],
    [name |-> <<"a">>,                flag |-> "h"]>>

ShellLines ==
    LET words == UNION {{SubSeq(MCNames[k].name, 1, n) : n \in 1..Len(MCNames[k].name)} :
                            k \in DOMAIN MCNames} \cup {<<"x">>, <<"l", "x">>}
    IN  {<<" ">>} \cup {w \o <<" ">> : w \in words}
                  \cup {<<" ">> \o w \o <<" ", "1", " ">> : w \in words}

Input(mode, flags, texts) == [mode : {mode}, flag : flags, text : texts]

NumberInputs == Input("cli", {"t"}, Numbers)
ShellInputs == Input("shell", {"any"}, ShellLines)
MCInputs ==
    Input("cli", {"e"}, Tasks) \cup NumberInputs \cup ShellInputs
        \cup Input("cli", {"m", "i", "l", "r"}, {<<"1">>, <<"x">>})

ExecInputs == Input("cli", {"e"}, {<<"x">>, <<"x", " ", "|", " ", "x">>})

(* The value of a number is that of its digits, each at its place.         *)
PlaceValue(s) ==
    LET last == NumberEnd(s) - 1
    IN  MapThenSumSet(LAMBDA k : Code[s[k]] * 10^(last - k), NumberStart(s)..last)

ASSUME ValuesArePlaceValues ==
    \A s \in Numbers : IsNumber(s) => ValueOf(s) = PlaceValue(s)

(* Nothing, or the line of another client.                                 *)
MCOthers == {<<>>, <<"t", " ", "1", " ">>}
Alone == {<<>>}
=============================================================================
