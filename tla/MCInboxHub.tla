----------------------------- MODULE MCInboxHub -----------------------------
(***************************************************************************)
(* Small instances of the hub for TLC: one pane whose agent orchestrates,  *)
(* and others in which generations replace each other.                     *)
(***************************************************************************)
EXTENDS InboxHub, TLC

CONSTANTS a1, a2, a3, p1, p2

\* Pane p2 has two generations.
Replaced == (a1 :> p1) @@ (a2 :> p2) @@ (a3 :> p2)

Bound2 == [pane |-> p2, agent |-> a2]
SendTo2 == {Bound2}

\* Ids are interchangeable: nothing but their equality is used.
IdSymmetry == Permutations(Ids)

=============================================================================
