------------------------------- MODULE MCInbox -------------------------------
(***************************************************************************)
(* Small instances of the inbox, with its log of accepted posts, for TLC.  *)
(***************************************************************************)
EXTENDS InboxLog, TLC

CONSTANTS a1, a2, p1, p2

\* One agent a pane.
TwoPanes == (a1 :> p1) @@ (a2 :> p2)

To1 == [pane |-> p1, agent |-> a1]
SendTo1 == {To1}

\* Ids are interchangeable: nothing but their equality is used.
IdSymmetry == Permutations(Ids)

=============================================================================
