-------------------------- MODULE CommittedPrefix --------------------------
(***************************************************************************)
(* What a checkpoint store promises its readers: one append-only sequence  *)
(* of committed turns.  A turn, once it can be seen, is never withdrawn    *)
(* or rewritten, and turns become visible one at a time, in script order.  *)
(***************************************************************************)
EXTENDS Naturals, Sequences

CONSTANTS Content,  \* what one turn may record
          MaxTurn   \* length of the operator script

VARIABLE log        \* the committed turns, oldest first

Init == log = <<>>

\* One more turn of the script becomes visible.
Extend(c) ==
    /\ Len(log) < MaxTurn
    /\ log' = Append(log, c)

Next == \E c \in Content : Extend(c)

Spec == Init /\ [][Next]_log
=============================================================================
