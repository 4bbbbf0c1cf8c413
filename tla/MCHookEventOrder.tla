-------------------------- MODULE MCHookEventOrder --------------------------
(* Events of two sessions and a pane for TLC.                               *)
EXTENDS HookEventOrder

CONSTANTS s1, s2, p1

Ev(s, p, st) == [session |-> s, pane |-> p, standing |-> st]

\* Two of a session, and one of another that names the pane of the first
SomeEvents == {Ev(s1, p1, "Attested"), Ev(s1, NoPane, "Attested"), Ev(s2, p1, "Unproven")}

SomeAnnounces == {[pane |-> p1, standing |-> "Attested"]}
=============================================================================
