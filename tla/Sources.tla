------------------------------ MODULE Sources ------------------------------
(***************************************************************************)
(* Documents that were not necessarily written by this library.  A source  *)
(* of some format grows by one unit (a token, a byte) at a time, for as    *)
(* long as some continuation of it may still be a document; or it is given *)
(* and only its layout changes, by blanks anywhere between its units.      *)
(* Every state is a source that the readers and the parsers of its format  *)
(* are given.                                                              *)
(***************************************************************************)
EXTENDS Naturals, Sequences, SequencesExt

CONSTANTS
    Formats,
    Seeds,          (* what the sources of each format begin as           *)
    Alphabet,       (* the units they grow by                             *)
    Viable(_, _),   (* may a source of a format go on?                    *)
    MaxLength,      (* bound: units in a growing source of each format    *)
    Blanks,         (* the blank units of each format                     *)
    MaxBlanks       (* bound: blanks in a source                          *)

VARIABLES
    format,
    source

sourceVars == <<format, source>>

Init ==
    /\ format \in Formats
    /\ source \in Seeds[format]

Extend(unit) ==
    /\ Len(source) < MaxLength[format]
    /\ Viable(format, source)
    /\ source' = Append(source, unit)
    /\ UNCHANGED format

LayOut(blank, place) ==
    /\ Len(SelectSeq(source, LAMBDA unit : unit \in Blanks[format])) < MaxBlanks
    /\ source' = InsertAt(source, place, blank)
    /\ UNCHANGED format

Next ==
    \/ \E unit \in Alphabet[format] : Extend(unit)
    \/ \E blank \in Blanks[format], place \in 1 .. Len(source) + 1 : LayOut(blank, place)

Spec == Init /\ [][Next]_sourceVars

=============================================================================
