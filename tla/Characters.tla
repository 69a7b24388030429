----------------------------- MODULE Characters -----------------------------
(***************************************************************************)
(* The characters of commands, as far as the programs tell them apart, and *)
(* the ways in which both walk along a string.  Any character that is none *)
(* of the constants is one of a word.                                      *)
(***************************************************************************)
EXTENDS Naturals, Sequences, FiniteSetsExt

CONSTANTS
    Blank,     \* white space of every kind, the newline included
    Bar,       \* '|'
    Minus,     \* '-'
    Digits,    \* the characters that isdigit accepts
    Nul        \* the end of a string

ASSUME CharactersAssumption ==
    /\ Blank # Bar /\ Blank # Nul /\ Bar # Nul /\ Minus \notin {Blank, Bar, Nul}
    /\ Digits \cap {Blank, Bar, Minus, Nul} = {}

(* The first place from k on whose character is not in S, or is in S; the  *)
(* place behind the string if there is none.                               *)
Past(s, S, k) == Min({j \in k..Len(s) : s[j] \notin S} \cup {Len(s) + 1})
UpTo(s, S, k) == Min({j \in k..Len(s) : s[j] \in S} \cup {Len(s) + 1})
=============================================================================
