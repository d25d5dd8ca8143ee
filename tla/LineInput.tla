---------------------------- MODULE LineInput -----------------------------
(***************************************************************************)
(* What the console of xv6/kernel/console.c promises its readers: typed    *)
(* characters gather in a line that can still be edited; a newline, an     *)
(* end-of-file or a full buffer hands the line over for good; characters   *)
(* are taken in the order typed, each once.                                *)
(***************************************************************************)
EXTENDS Naturals, Sequences, SequencesExt

CONSTANTS Keys,      \* what can be stored
          Enders,    \* those that end a line
          Capacity   \* characters held at most

VARIABLES ready, line

lineVars == <<ready, line>>

LineInit == ready = <<>> /\ line = <<>>

Key(c) ==
  /\ Len(ready) + Len(line) < Capacity
  /\ LET l == Append(line, c) IN
       IF c \in Enders \/ Len(ready) + Len(l) = Capacity
       THEN ready' = ready \o l /\ line' = <<>>
       ELSE line' = l /\ UNCHANGED ready

Erase == line # <<>> /\ line' = Front(line) /\ UNCHANGED ready

KillLine == line' = <<>> /\ UNCHANGED ready

Take == ready # <<>> /\ ready' = Tail(ready) /\ UNCHANGED line

LineSpec == LineInit /\ [][(\E c \in Keys : Key(c)) \/ Erase \/ KillLine \/ Take]_lineVars
===========================================================================
